--------------------------- MODULE ModulesProofs ---------------------------
(***************************************************************************)
(* Proofs about Modules, and about Commands, whose module steps are those  *)
(* of Modules: for any threads, modules and commands, and any lines.       *)
(***************************************************************************)
EXTENDS LineResults, SequenceTheorems, TLAPS

\* Closing a library leaves the number of times the linker has it open a
\* number, and leaves the other libraries alone.
LEMMA ClosedHandles ==
    ASSUME handles \in [ModuleNames -> Nat], NEW m \in ModuleNames
    PROVE  /\ Closed(m) \in [ModuleNames -> Nat]
           /\ \A n \in ModuleNames \ {m} : Closed(m)[n] = handles[n]
           /\ \A k \in Nat : handles[m] = k + 1 => Closed(m)[m] = k
  BY DEF Closed

\* The state of the modules stays of its type under every action.
THEOREM TypeCorrect == Spec => []TypeOK
<1>1. Init => TypeOK
  <2> SUFFICES ASSUME Init
               PROVE  TypeOK
    OBVIOUS
  <2>1. commands \in [CommandNames -> ModuleNames \cup {System, None}]
    BY DEF Init
  <2>2. handles \in [ModuleNames -> Nat] /\ module_map \subseteq ModuleNames
    BY DEF Init
  <2> QED
    BY <2>1, <2>2 DEF Init, TypeOK
<1>2. TypeOK /\ [Next]_moduleVars => TypeOK'
  <2> SUFFICES ASSUME TypeOK, [Next]_moduleVars
               PROVE  TypeOK'
    OBVIOUS
  <2>1. handles \in [ModuleNames -> Nat]
    BY DEF TypeOK
  <2>2. ASSUME NEW t \in Threads, NEW m \in ManagedBy[t],
               Import(t, m) \/ Expunge(t, m)
        PROVE  TypeOK'
    BY <2>2, ManagedByAssumption, ZenonT(30) DEF TypeOK, Import, Expunge, Goto
  <2>3. ASSUME NEW t \in Threads, NotFound(t)
        PROVE  TypeOK'
    BY <2>3 DEF TypeOK, NotFound, Return, Goto
  <2>4. ASSUME NEW t \in Threads, ModuleInitThrows(t)
        PROVE  TypeOK'
    <3>1. arg[t] \in ModuleNames
      BY <2>4, ManagedByAssumption DEF TypeOK, ModuleInitThrows
    <3>2. commands' \in [CommandNames -> ModuleNames \cup {System, None}]
      BY <2>4, <3>1 DEF TypeOK, ModuleInitThrows
    <3> QED
      BY <2>4, <3>2 DEF TypeOK, ModuleInitThrows, Return, Goto
  <2>5. ASSUME NEW t \in Threads, ModuleFinalThrows(t)
        PROVE  TypeOK'
    <3>1. arg[t] \in ModuleNames
      BY <2>5, ManagedByAssumption DEF TypeOK, ModuleFinalThrows
    <3>2. commands' \in [CommandNames -> ModuleNames \cup {System, None}]
      BY <2>5 DEF TypeOK, ModuleFinalThrows
    <3>3. lost' \in [ModuleNames -> Nat]
      BY <2>5, <3>1 DEF TypeOK, ModuleFinalThrows
    <3> QED
      BY <2>5, <3>2, <3>3 DEF TypeOK, ModuleFinalThrows, Return, Goto
  <2>6. ASSUME NEW t \in Threads, Open(t)
        PROVE  TypeOK'
    <3>1. arg[t] \in ModuleNames
      BY <2>6, ManagedByAssumption DEF TypeOK, Open
    <3>2. handles' \in [ModuleNames -> Nat]
      BY <2>1, <2>6, <3>1 DEF Open
    <3> QED
      BY <2>6, <3>2 DEF TypeOK, Open, Goto
  <2>7. ASSUME NEW t \in Threads, Resolve(t)
        PROVE  TypeOK'
    BY <2>7 DEF TypeOK, Resolve, Goto
  <2>8. ASSUME NEW t \in Threads, NoSymbol(t) \/ Close(t)
        PROVE  TypeOK'
    <3>1. arg[t] \in ModuleNames
      BY <2>8, ManagedByAssumption DEF TypeOK, NoSymbol, Close
    <3>2. handles' = Closed(arg[t])
      BY <2>8 DEF NoSymbol, Close
    <3>3. handles' \in [ModuleNames -> Nat]
      BY <2>1, <3>1, <3>2, ClosedHandles
    <3> QED
      BY <2>8, <3>3 DEF TypeOK, NoSymbol, Close, Return, Goto
  <2>9. ASSUME NEW t \in Threads, Enter(t) \/ Erase(t)
        PROVE  TypeOK'
    <3>1. arg[t] \in ModuleNames
      BY <2>9, ManagedByAssumption DEF TypeOK, Enter, Erase
    <3> QED
      BY <2>9, <3>1 DEF TypeOK, Enter, Erase, Goto
  <2>10. ASSUME NEW t \in Threads, ModuleInit(t) \/ ModuleFinal(t)
         PROVE  TypeOK'
    <3>1. arg[t] \in ModuleNames
      BY <2>10, ManagedByAssumption DEF TypeOK, ModuleInit, ModuleFinal
    <3>2. commands' \in [CommandNames -> ModuleNames \cup {System, None}]
      BY <2>10, <3>1 DEF TypeOK, ModuleInit, ModuleFinal, Crash
    <3> QED
      BY <2>10, <3>2 DEF TypeOK, ModuleInit, ModuleFinal, Crash, Return, Goto
  <2>11. CASE Cleanup
    <3>1. handles' \in [ModuleNames -> Nat]
      <4>1. \A m \in ModuleNames : handles[m] # 0 => handles[m] - 1 \in Nat
        BY <2>1
      <4>2. CASE \E m \in module_map : handles[m] = 0
        BY <2>11, <4>2, <2>1 DEF Cleanup
      <4>3. CASE \A m \in module_map : handles[m] # 0
        BY <2>11, <4>1, <4>3, <2>1 DEF Cleanup
      <4> QED
        BY <4>2, <4>3
    <3>2. commands' \in [CommandNames -> ModuleNames \cup {System, None}]
      BY <2>11 DEF TypeOK, Cleanup
    <3> QED
      BY <2>11, <3>1, <3>2 DEF TypeOK, Cleanup
  <2>12. CASE CallOfClosed \/ CleanupThrows
    BY <2>12 DEF TypeOK, CallOfClosed, CleanupThrows, Crash
  <2>13. CASE UNCHANGED moduleVars
    BY <2>13 DEF TypeOK, moduleVars
  <2> QED
    BY <2>2, <2>3, <2>6, <2>8, <2>9, <2>10, <2>11, <2>12, <2>13, <2>7, <2>4, <2>5
       DEF Next, ModuleStep
<1> QED
  BY <1>1, <1>2, PTL DEF Spec

-----------------------------------------------------------------------------
\* What the map and the linker have of its module, by where a thread is.
WorksOn(t) ==
    /\ pc[t] # "nofinal"
    /\ pc[t] \in {"init", "erase"} <=> arg[t] \in module_map
    /\ handles[arg[t]] = IF pc[t] = "search" THEN lost[arg[t]] ELSE lost[arg[t]] + 1

Working ==
    \A t \in Threads : IF pc[t] = "idle" THEN arg[t] = None ELSE WorksOn(t)

\* Module m is in the map, or about to be finalised by the thread that has
\* taken it out, or its final function once failed.
Reachable(m) ==
    \/ m \in module_map
    \/ \E t \in Threads : arg[t] = m /\ pc[t] = "final"
    \/ lost[m] # 0

\* A command that is in a module is one of the module's own.
Commanded ==
    \A c \in CommandNames : commands[c] \in ModuleNames =>
        c \in CommandsOf[commands[c]] /\ Reachable(commands[c])

ModulesInv == TypeOK /\ Working /\ Commanded /\ HandlesMatchMap

\* The thread that manages a module is alone with it.
LEMMA Alone ==
    ASSUME OneManager, TypeOK, Working, NEW t \in Threads, NEW m \in ManagedBy[t]
    PROVE  \A u \in Threads \ {t} : arg[u] # m
<1> SUFFICES ASSUME NEW u \in Threads \ {t}, arg[u] = m
             PROVE  FALSE
  OBVIOUS
<1>1. m \in ModuleNames /\ m # None
  BY ManagedByAssumption, NamesAssumption
<1>2. pc[u] # "idle"
  BY <1>1 DEF Working
<1>3. m \in ManagedBy[u]
  BY <1>2 DEF TypeOK
<1> QED
  BY <1>3 DEF OneManager

\* What a step of thread t on its module m leaves alone.
OthersAlone(t, m) ==
    /\ \A u \in Threads \ {t} : pc'[u] = pc[u] /\ arg'[u] = arg[u]
    /\ \A n \in ModuleNames \ {m} :
         /\ handles'[n] = handles[n] /\ lost'[n] = lost[n]
         /\ n \in module_map' <=> n \in module_map
    /\ \A c \in CommandNames :
         commands'[c] = commands[c] \/ commands'[c] \in {m, None}

\* What it owes to the invariant.
OwnPart(t, m) ==
    /\ IF pc[t] = "idle"
       THEN /\ arg[t] = None
            /\ handles[m] = IF m \in module_map THEN lost[m] + 1 ELSE lost[m]
       ELSE arg[t] = m /\ WorksOn(t)
    /\ \A c \in CommandNames : commands[c] = m =>
         c \in CommandsOf[m] /\ (m \in module_map \/ pc[t] = "final" \/ lost[m] # 0)

LEMMA OwnPartHolds ==
    ASSUME OneManager, ModulesInv, NEW t \in Threads, NEW m \in ManagedBy[t],
           arg[t] \in {m, None}
    PROVE  OwnPart(t, m)
<1>1. m \in ModuleNames /\ m # None
  BY ManagedByAssumption, NamesAssumption
<1>2. \A u \in Threads \ {t} : arg[u] # m
  BY Alone DEF ModulesInv
<1>3. pc[t] # "idle" => arg[t] = m
  <2>1. pc[t] # "idle" => arg[t] \in ModuleNames
    BY ManagedByAssumption DEF ModulesInv, TypeOK
  <2> QED
    BY <2>1, NamesAssumption
<1>4. IF pc[t] = "idle"
      THEN /\ arg[t] = None
           /\ handles[m] = IF m \in module_map THEN lost[m] + 1 ELSE lost[m]
      ELSE arg[t] = m /\ WorksOn(t)
  BY <1>1, <1>2, <1>3 DEF ModulesInv, Working, HandlesMatchMap
<1>5. ASSUME NEW c \in CommandNames, commands[c] = m
      PROVE  c \in CommandsOf[m] /\ (m \in module_map \/ pc[t] = "final" \/ lost[m] # 0)
  BY <1>1, <1>2, <1>5 DEF ModulesInv, Commanded, Reachable
<1> QED
  BY <1>4, <1>5 DEF OwnPart

\* A step that leaves the others alone and does its part keeps the invariant.
LEMMA Frame ==
    ASSUME OneManager, ModulesInv, TypeOK', NEW t \in Threads,
           NEW m \in ManagedBy[t], arg[t] \in {m, None},
           OthersAlone(t, m), OwnPart(t, m)'
    PROVE  ModulesInv'
<1>1. m \in ModuleNames /\ m # None
  BY ManagedByAssumption, NamesAssumption
<1>2. \A u \in Threads \ {t} : arg[u] # m
  BY Alone DEF ModulesInv
<1>3. Working'
  <2> SUFFICES ASSUME NEW u \in Threads
               PROVE  (IF pc[u] = "idle" THEN arg[u] = None ELSE WorksOn(u))'
    BY DEF Working
  <2>1. CASE u = t
    BY <2>1 DEF OwnPart
  <2>2. CASE u # t
    <3>1. pc'[u] = pc[u] /\ arg'[u] = arg[u] /\ arg[u] # m
      BY <1>2, <2>2 DEF OthersAlone
    <3>2. CASE pc[u] = "idle"
      BY <3>1, <3>2 DEF ModulesInv, Working
    <3>3. CASE pc[u] # "idle"
      <4>1. arg[u] \in ModuleNames \ {m}
        BY <3>1, <3>3, ManagedByAssumption DEF ModulesInv, TypeOK
      <4>2. WorksOn(u)
        BY <3>3 DEF ModulesInv, Working
      <4> QED
        BY <3>1, <3>3, <4>1, <4>2 DEF WorksOn, OthersAlone
    <3> QED
      BY <3>2, <3>3
  <2> QED
    BY <2>1, <2>2
<1>4. Commanded'
  <2> SUFFICES ASSUME NEW c \in CommandNames, commands'[c] \in ModuleNames
               PROVE  (c \in CommandsOf[commands[c]] /\ Reachable(commands[c]))'
    BY DEF Commanded
  <2>1. CASE commands'[c] = m
    <3>1. c \in CommandsOf[m] /\ (m \in module_map' \/ pc'[t] = "final" \/ lost'[m] # 0)
      BY <2>1 DEF OwnPart
    <3>2. pc'[t] = "final" => arg'[t] = m
      BY DEF OwnPart
    <3> QED
      BY <2>1, <3>1, <3>2 DEF Reachable
  <2>2. CASE commands'[c] # m
    <3> DEFINE n == commands[c]
    <3>1. commands'[c] = n /\ n \in ModuleNames \ {m}
      BY <2>2, NamesAssumption DEF OthersAlone
    <3>2. c \in CommandsOf[n] /\ Reachable(n)
      BY <3>1 DEF ModulesInv, Commanded
    <3>3. CASE n \in module_map \/ lost[n] # 0
      BY <3>1, <3>2, <3>3 DEF Reachable, OthersAlone
    <3>4. CASE ~(n \in module_map \/ lost[n] # 0)
      <4>1. PICK u \in Threads : arg[u] = n /\ pc[u] = "final"
        BY <3>2, <3>4 DEF Reachable
      <4>2. u # t
        BY <3>1, <4>1, NamesAssumption
      <4> QED
        BY <3>1, <3>2, <4>1, <4>2 DEF Reachable, OthersAlone
    <3> QED
      BY <3>3, <3>4
  <2> QED
    BY <2>1, <2>2
<1>5. HandlesMatchMap'
  <2> SUFFICES ASSUME NEW n \in ModuleNames, \A u \in Threads : arg'[u] # n
               PROVE  handles'[n] = IF n \in module_map' THEN lost'[n] + 1 ELSE lost'[n]
    BY DEF HandlesMatchMap
  <2>1. CASE n = m
    BY <2>1 DEF OwnPart
  <2>2. CASE n # m
    <3>1. \A u \in Threads \ {t} : arg[u] # n
      BY DEF OthersAlone
    <3>2. arg[t] # n
      BY <2>2, NamesAssumption
    <3> QED
      BY <2>2, <3>1, <3>2 DEF ModulesInv, HandlesMatchMap, OthersAlone
  <2> QED
    BY <2>1, <2>2
<1> QED
  BY <1>3, <1>4, <1>5 DEF ModulesInv
\* Each step of a thread does so, and no code that is gone is called.
LEMMA StepKeeps ==
    ASSUME OneManager, ModulesInv, TypeOK', NEW t \in Threads, ModuleStep(t)
    PROVE  ModulesInv' /\ crashed' = crashed
<1> USE DEF Goto, Return
<1>1. /\ TypeOK /\ handles \in [ModuleNames -> Nat]
      /\ lost \in [ModuleNames -> Nat]
  BY DEF ModulesInv, TypeOK
<1>2. ASSUME NEW m \in ManagedBy[t], Import(t, m) \/ Expunge(t, m)
      PROVE  ModulesInv' /\ crashed' = crashed
  <2>1. arg[t] = None /\ m \in ModuleNames
    BY <1>2, ManagedByAssumption DEF ModulesInv, Working, Import, Expunge
  <2>2. OwnPart(t, m)
    BY <2>1, OwnPartHolds
  <2>3. OthersAlone(t, m)
    BY <1>1, <1>2 DEF OthersAlone, Import, Expunge, TypeOK
  <2>4. OwnPart(t, m)'
    BY <1>1, <1>2, <2>1, <2>2 DEF OwnPart, WorksOn, Import, Expunge, TypeOK
  <2> QED
    BY <1>2, <2>1, <2>3, <2>4, Frame DEF Import, Expunge
<1>3. ASSUME NEW m \in ManagedBy[t], arg[t] = m, pc[t] # "idle"
      PROVE  ModulesInv' /\ crashed' = crashed
  <2>1. m \in ModuleNames /\ m # None
    BY ManagedByAssumption, NamesAssumption
  <2>2. WorksOn(t) /\ OwnPart(t, m)
    BY <1>3, OwnPartHolds DEF OwnPart
  <2>3. /\ lost[m] \in Nat /\ lost[m] + 1 # 0
        /\ handles[m] = IF pc[t] = "search" THEN lost[m] ELSE lost[m] + 1
    <3>1. lost[m] \in Nat
      BY <1>1, <2>1
    <3> QED
      BY <1>3, <2>2, <3>1 DEF WorksOn
  <2> SUFFICES OthersAlone(t, m) /\ OwnPart(t, m)' /\ crashed' = crashed
    BY <1>3, Frame
  <2> USE <1>1, <1>3, <2>1, <2>2 DEF TypeOK, OthersAlone, OwnPart, WorksOn
  <2>4. CASE NotFound(t)
    BY <2>4 DEF NotFound
  <2>5. CASE Open(t)
    <3>1. handles' = [handles EXCEPT ![m] = lost[m] + 1]
      BY <2>5, <2>3 DEF Open
    <3> QED
      BY <2>5, <3>1 DEF Open
  <2>6. CASE Resolve(t)
    BY <2>6 DEF Resolve
  <2>7. CASE NoSymbol(t)
    <3>1. handles'[m] = lost[m]
      BY <2>7, <2>3, ClosedHandles DEF NoSymbol
    <3>2. /\ \A n \in ModuleNames \ {m} : handles'[n] = handles[n]
          /\ m \notin module_map
      BY <2>7, ClosedHandles DEF NoSymbol
    <3> QED
      BY <2>7, <3>1, <3>2 DEF NoSymbol
  <2>8. CASE Enter(t)
    BY <2>8 DEF Enter
  <2>9. CASE ModuleInit(t)
    <3>1. handles[m] # 0
      BY <2>9, <2>3 DEF ModuleInit
    <3>2. /\ commands' = [c \in CommandNames |->
                           IF c \in CommandsOf[m] THEN m ELSE commands[c]]
          /\ UNCHANGED <<module_map, handles, crashed>>
      BY <2>9, <3>1 DEF ModuleInit
    <3> QED
      BY <2>9, <3>1, <3>2 DEF ModuleInit
  <2>10. CASE ModuleInitThrows(t)
    <3>1. PICK added \in SUBSET CommandsOf[m] :
            commands' = [c \in CommandNames |-> IF c \in added THEN m ELSE commands[c]]
      BY <2>10 DEF ModuleInitThrows
    <3>2. /\ UNCHANGED <<module_map, handles, lost, crashed>>
          /\ m \in module_map
      BY <2>10 DEF ModuleInitThrows
    <3> QED
      BY <2>10, <2>3, <3>1, <3>2 DEF ModuleInitThrows
  <2>11. CASE Erase(t)
    BY <2>11 DEF Erase
  <2>12. CASE ModuleFinal(t)
    <3>1. handles[m] # 0 /\ pc[t] = "final"
      BY <2>12, <2>3 DEF ModuleFinal
    <3>2. /\ commands' = [c \in CommandNames |->
                           IF c \in CommandsOf[m] THEN None ELSE commands[c]]
          /\ UNCHANGED <<module_map, handles, crashed>>
      BY <2>12, <3>1 DEF ModuleFinal
    <3> QED
      BY <2>12, <3>1, <3>2 DEF ModuleFinal
  <2>13. CASE ModuleFinalThrows(t)
    <3>1. PICK removed \in SUBSET CommandsOf[m] :
            commands' = [c \in CommandNames |-> IF c \in removed THEN None ELSE commands[c]]
      BY <2>13 DEF ModuleFinalThrows
    <3>2. lost' = [lost EXCEPT ![m] = lost[m] + 1] /\ UNCHANGED <<module_map, handles, crashed>>
      BY <2>13 DEF ModuleFinalThrows
    <3>3. lost'[m] = lost[m] + 1 /\ lost'[m] # 0 /\ m \notin module_map
      BY <2>3, <2>13, <3>2 DEF ModuleFinalThrows
    <3> QED
      BY <2>3, <2>13, <3>1, <3>2, <3>3 DEF ModuleFinalThrows
  <2>14. CASE Close(t)
    <3>1. handles'[m] = lost[m]
      BY <2>14, <2>3, ClosedHandles DEF Close
    <3>2. /\ \A n \in ModuleNames \ {m} : handles'[n] = handles[n]
          /\ m \notin module_map
      BY <2>14, ClosedHandles DEF Close
    <3> QED
      BY <2>14, <3>1, <3>2 DEF Close
  <2> QED
    BY <2>4, <2>5, <2>6, <2>7, <2>8, <2>9, <2>10, <2>11, <2>12, <2>14, <2>13
       DEF ModuleStep, Import, Expunge
<1>4. pc[t] # "idle" => arg[t] \in ManagedBy[t]
  BY <1>1 DEF TypeOK
<1> QED
  BY <1>2, <1>3, <1>4 DEF ModuleStep, NotFound, Open, Resolve, NoSymbol, Enter,
     ModuleInit, ModuleInitThrows, Erase, ModuleFinal, ModuleFinalThrows, Close

\* At the exit every module that is left is open, and is closed.
LEMMA CleanupKeeps ==
    ASSUME ModulesInv, TypeOK', Cleanup
    PROVE  ModulesInv' /\ crashed' = crashed
<1>1. /\ \A t \in Threads : pc[t] = "idle" /\ pc'[t] = "idle"
      /\ pc' = pc /\ arg' = arg /\ module_map' = {}
  BY DEF Cleanup
<1>2. \A t \in Threads : arg[t] = None
  BY <1>1 DEF ModulesInv, Working
<1>3. \A m \in ModuleNames :
        handles[m] = IF m \in module_map THEN lost[m] + 1 ELSE lost[m]
  BY <1>2, NamesAssumption DEF ModulesInv, HandlesMatchMap
<1>4. \A m \in module_map : m \in ModuleNames /\ handles[m] # 0
  <2>1. \A m \in module_map :
          m \in ModuleNames /\ lost[m] \in Nat /\ handles[m] = lost[m] + 1
    BY <1>3 DEF ModulesInv, TypeOK
  <2> QED
    BY <2>1
<1>5. /\ commands' = [c \in CommandNames |->
             IF \E m \in module_map : c \in CommandsOf[m] THEN None ELSE commands[c]]
      /\ handles' = [m \in ModuleNames |->
             IF m \in module_map THEN handles[m] - 1 ELSE handles[m]]
      /\ crashed' = crashed
  BY <1>4 DEF Cleanup
<1>6. Working'
  BY <1>1, <1>2 DEF Working
<1>7. Commanded'
  <2> SUFFICES ASSUME NEW c \in CommandNames, commands'[c] \in ModuleNames
               PROVE  c \in CommandsOf[commands'[c]] /\ lost[commands'[c]] # 0
    BY DEF Commanded, Reachable, Cleanup
  <2>1. /\ commands[c] \in ModuleNames /\ commands'[c] = commands[c]
        /\ ~\E m \in module_map : c \in CommandsOf[m]
    BY <1>5, NamesAssumption
  <2>2. /\ c \in CommandsOf[commands[c]]
        /\ commands[c] \in module_map \/ lost[commands[c]] # 0
    BY <1>1, <2>1 DEF ModulesInv, Commanded, Reachable
  <2> QED
    BY <2>1, <2>2
<1>8. HandlesMatchMap'
  <2> SUFFICES ASSUME NEW m \in ModuleNames
               PROVE  handles'[m] = lost[m]
    BY <1>1 DEF HandlesMatchMap, Cleanup
  <2>1. handles'[m] = IF m \in module_map THEN handles[m] - 1 ELSE handles[m]
    BY <1>5
  <2>2. lost[m] \in Nat
    BY DEF ModulesInv, TypeOK
  <2> QED
    BY <1>3, <2>1, <2>2
<1> QED
  BY <1>5, <1>6, <1>7, <1>8 DEF ModulesInv

\* The invariant: while one thread at most manages a module, the map, the
\* linker and the commands agree at every step of every import and expunge.
LEMMA ModulesInvariant ==
    ASSUME OneManager
    PROVE  Spec => []ModulesInv
<1>1. Init /\ TypeOK => ModulesInv
  <2> SUFFICES ASSUME Init, TypeOK
               PROVE  Working /\ Commanded /\ HandlesMatchMap
    BY DEF ModulesInv
  <2>1. Working /\ HandlesMatchMap
    BY DEF Init, Working, HandlesMatchMap
  <2>2. Commanded
    BY NamesAssumption DEF Init, Commanded
  <2> QED
    BY <2>1, <2>2
<1>2. ModulesInv /\ TypeOK' /\ [Next]_moduleVars => ModulesInv'
  <2> SUFFICES ASSUME ModulesInv, TypeOK', [Next]_moduleVars
               PROVE  ModulesInv'
    OBVIOUS
  <2>1. CASE \E t \in Threads : ModuleStep(t)
    BY <2>1, StepKeeps
  <2>2. CASE Cleanup
    BY <2>2, CleanupKeeps
  <2>3. CASE UNCHANGED <<commands, module_map, handles, lost, pc, arg>>
    <3>1. Working'
      BY <2>3 DEF ModulesInv, Working, WorksOn
    <3>2. Commanded'
      BY <2>3 DEF ModulesInv, Commanded, Reachable
    <3>3. HandlesMatchMap'
      BY <2>3 DEF ModulesInv, HandlesMatchMap
    <3> QED
      BY <3>1, <3>2, <3>3 DEF ModulesInv
  <2> QED
    BY <2>1, <2>2, <2>3 DEF Next, CallOfClosed, CleanupThrows, Crash, moduleVars
<1> QED
  BY <1>1, <1>2, TypeCorrect, PTL DEF Spec

\* A command that can be looked up is in a library that is open.
LEMMA MappedIsOpen ==
    ASSUME ModulesInv
    PROVE  CommandsAreMapped
<1> SUFFICES ASSUME NEW c \in CommandNames, commands[c] \in ModuleNames
             PROVE  handles[commands[c]] > 0
  BY DEF CommandsAreMapped
<1> DEFINE m == commands[c]
<1>1. handles[m] \in Nat /\ lost[m] \in Nat
  BY DEF ModulesInv, TypeOK
<1>2. handles[m] \in {lost[m], lost[m] + 1}
  <2>1. ASSUME NEW t \in Threads, arg[t] = m
        PROVE  handles[m] \in {lost[m], lost[m] + 1}
    BY <2>1, NamesAssumption DEF ModulesInv, Working, WorksOn
  <2> QED
    BY <2>1 DEF ModulesInv, HandlesMatchMap
<1>3. CASE lost[m] # 0
  BY <1>1, <1>2, <1>3
<1>4. CASE m \in module_map
  <2>1. ASSUME NEW t \in Threads, arg[t] = m
        PROVE  handles[m] = lost[m] + 1
    BY <1>4, <2>1, NamesAssumption DEF ModulesInv, Working, WorksOn
  <2>2. handles[m] = lost[m] + 1
    BY <1>4, <2>1 DEF ModulesInv, HandlesMatchMap
  <2> QED
    BY <1>1, <2>2
<1>5. ASSUME NEW u \in Threads, arg[u] = m, pc[u] = "final"
      PROVE  handles[m] > 0
  <2>1. handles[m] = lost[m] + 1
    BY <1>5 DEF ModulesInv, Working, WorksOn
  <2> QED
    BY <1>1, <2>1
<1> QED
  BY <1>3, <1>4, <1>5 DEF ModulesInv, Commanded, Reachable

\* The threads that execute lines change nothing of the modules: a behaviour
\* of Commands is one of Modules.
THEOREM CommandsAreModules == CommandsSpec => Spec
<1>1. CommandsInit => Init
  BY DEF CommandsInit
<1>2. [CommandsNext]_vars => [Next]_moduleVars
  BY DEF CommandsNext, UserStep, ModuleCommandGone, Next, vars
<1> QED
  BY <1>1, <1>2, PTL DEF CommandsSpec, Spec

\* While one thread at most manages a module, every command that can be looked
\* up is in a library that is open, through every failure of an import or an
\* expunge and whatever lines are executed meanwhile.
THEOREM MappedWhileManaged ==
    ASSUME OneManager
    PROVE  CommandsSpec => []CommandsAreMapped
<1>1. ModulesInv => CommandsAreMapped
  BY MappedIsOpen
<1> QED
  BY <1>1, ModulesInvariant, CommandsAreModules, PTL

\* Under the same assumption no library is closed twice, and none leaked but by
\* a final function that throws.
THEOREM HandlesMatch ==
    ASSUME OneManager
    PROVE  CommandsSpec => []HandlesMatchMap
<1>1. ModulesInv => HandlesMatchMap
  BY DEF ModulesInv
<1> QED
  BY <1>1, ModulesInvariant, CommandsAreModules, PTL

\* Under the same assumption importing and expunging never call code that is
\* not there: what ends the process is the call of a command whose module was
\* closed after exec had looked it up, or a final function that throws at exit.
THEOREM OnlyStaleCallsCrash ==
    ASSUME OneManager
    PROVE  CommandsSpec =>
             [][crashed' # crashed => ModuleCommandGone \/ CleanupThrows]_vars
<1>1. ModulesInv /\ TypeOK' /\ [CommandsNext]_vars =>
        [crashed' # crashed => ModuleCommandGone \/ CleanupThrows]_vars
  <2> SUFFICES ASSUME ModulesInv, TypeOK', CommandsNext, crashed' # crashed
               PROVE  ModuleCommandGone \/ CleanupThrows
    BY DEF vars, moduleVars
  <2>1. CASE \E t \in Threads : ModuleStep(t)
    BY <2>1, StepKeeps
  <2>2. CASE Cleanup
    BY <2>2, CleanupKeeps
  <2>3. CASE UserStep
    BY <2>3 DEF UserStep, moduleVars
  <2> QED
    BY <2>1, <2>2, <2>3 DEF CommandsNext
<1> QED
  BY <1>1, ModulesInvariant, TypeCorrect, CommandsAreModules, PTL DEF CommandsSpec

\* Under the same assumption an exit that ends leaves no library open and no
\* command of one in the map, whatever imports and expunges had failed before,
\* but those of a module whose final function had thrown.
THEOREM ExitClosesAll ==
    ASSUME OneManager
    PROVE  CommandsSpec =>
             [](exited => /\ \A m \in ModuleNames : handles[m] = lost[m]
                          /\ \A c \in CommandNames : commands[c] \in ModuleNames =>
                               lost[commands[c]] # 0)
<1> DEFINE AtExit == exited => module_map = {} /\ \A t \in Threads : pc[t] = "idle"
<1>1. Init => AtExit
  BY DEF Init
<1>2. AtExit /\ [Next]_moduleVars => AtExit'
  <2> SUFFICES ASSUME AtExit, [Next]_moduleVars
               PROVE  AtExit'
    OBVIOUS
  <2>1. CASE Cleanup
    BY <2>1 DEF Cleanup
  <2>2. ASSUME NEW t \in Threads, ModuleStep(t), ~exited
        PROVE  AtExit'
    BY <2>2 DEF ModuleStep, Import, Expunge, NotFound, Open, Resolve, NoSymbol, Enter,
       ModuleInit, ModuleInitThrows, Erase, ModuleFinal, ModuleFinalThrows, Close, Crash
  <2>3. CASE CallOfClosed \/ CleanupThrows
    BY <2>3 DEF CallOfClosed, CleanupThrows, Crash
  <2>4. CASE UNCHANGED moduleVars
    BY <2>4 DEF moduleVars
  <2> QED
    BY <2>1, <2>2, <2>3, <2>4 DEF Next
<1>3. AtExit /\ ModulesInv =>
        (exited => /\ \A m \in ModuleNames : handles[m] = lost[m]
                   /\ \A c \in CommandNames : commands[c] \in ModuleNames =>
                        lost[commands[c]] # 0)
  <2> SUFFICES ASSUME ModulesInv, module_map = {}, \A t \in Threads : pc[t] = "idle"
               PROVE  /\ \A m \in ModuleNames : handles[m] = lost[m]
                      /\ \A c \in CommandNames : commands[c] \in ModuleNames =>
                           lost[commands[c]] # 0
    OBVIOUS
  <2>1. \A t \in Threads : arg[t] = None
    BY DEF ModulesInv, Working
  <2>2. \A m \in ModuleNames : handles[m] = lost[m]
    BY <2>1, NamesAssumption DEF ModulesInv, HandlesMatchMap
  <2>3. \A c \in CommandNames : commands[c] \in ModuleNames => lost[commands[c]] # 0
    BY DEF ModulesInv, Commanded, Reachable
  <2> QED
    BY <2>2, <2>3
<1> HIDE DEF AtExit
<1>4. Spec => []AtExit
  BY <1>1, <1>2, PTL DEF Spec
<1> QED
  BY <1>3, <1>4, ModulesInvariant, CommandsAreModules, PTL

-----------------------------------------------------------------------------
\* A frame with a time of its own, no later than the clock, and positive once
\* the command has been looked up.
Framed(f, time) ==
    /\ {"at", "pre", "todo", "code"} \subseteq DOMAIN f
    /\ f.pre \in 0..time
    /\ f.at # "look" => f.pre > 0

\* A stack of such frames, whatever they execute.
Stacked(frames, time) ==
    /\ \E F : frames \in Seq(F)
    /\ \A i \in 1..Len(frames) : Framed(frames[i], time)

\* Set while a line was executed, or empty: time 0 is before the line.
Fresh == ret.val = "" \/ ret.time > 0

CommandsInv ==
    /\ clock \in Nat \ {0}
    /\ ret.time \in 0..clock
    /\ outcome \in {"ready", "running", "done", "thrown", "ended"}
    /\ outcome = "running" <=> stack # <<>>
    /\ outcome = "ready" => line = <<>>
    /\ outcome = "done" /\ line # <<>> => Fresh
    /\ Stacked(stack, clock)

LEMMA PushedFrame ==
    ASSUME NEW s, NEW f, NEW time \in Nat, Stacked(s, time), Framed(f, time)
    PROVE  Stacked(<<f>> \o s, time) /\ <<f>> \o s # <<>>
<1>1. PICK F : s \in Seq(F)
  BY DEF Stacked
<1> DEFINE r == <<f>> \o s
<1>2. r \in Seq(F \cup {f}) /\ Len(r) = Len(s) + 1 /\ Len(s) \in Nat
  <2>1. <<f>> \in Seq(F \cup {f}) /\ s \in Seq(F \cup {f}) /\ Len(<<f>>) = 1
    BY <1>1
  <2> QED
    BY <1>1, <2>1
<1>3. ASSUME NEW i \in 1..Len(r)
      PROVE  Framed(r[i], time)
  <2>1. CASE i = 1
    <3>1. r[i] = f
      BY <1>1, <2>1
    <3> QED
      BY <3>1
  <2>2. CASE i # 1
    <3>1. i - 1 \in 1..Len(s) /\ r[i] = s[i - 1]
      BY <1>1, <1>2, <2>2
    <3> QED
      BY <3>1 DEF Stacked
  <2> QED
    BY <2>1, <2>2
<1>4. r # <<>>
  BY <1>2
<1> QED
  BY <1>2, <1>3, <1>4 DEF Stacked

LEMMA PoppedFrame ==
    ASSUME NEW s, NEW time \in Nat, Stacked(s, time), s # <<>>
    PROVE  Framed(Head(s), time) /\ Stacked(Tail(s), time)
<1>1. PICK F : s \in Seq(F)
  BY DEF Stacked
<1>2. /\ 1 \in 1..Len(s) /\ Head(s) = s[1]
      /\ Tail(s) \in Seq(F) /\ Len(Tail(s)) = Len(s) - 1 /\ Len(s) \in Nat
      /\ \A i \in 1..Len(Tail(s)) : i + 1 \in 1..Len(s) /\ Tail(s)[i] = s[i + 1]
  BY <1>1
<1> QED
  BY <1>2 DEF Stacked

LEMMA LaterFrames ==
    ASSUME NEW s, NEW time \in Nat, Stacked(s, time)
    PROVE  Stacked(s, time + 1)
  BY DEF Stacked, Framed

\* Frames a command leaves when it has been called, or goes on.
LEMMA ChangedFrame ==
    ASSUME NEW f, NEW time \in Nat, Framed(f, time), f.at # "look", NEW x, NEW y
    PROVE  /\ Framed([f EXCEPT !.at = x], time)
           /\ Framed([f EXCEPT !.at = x, !.todo = y], time)
           /\ Framed([f EXCEPT !.todo = y], time)
  BY DEF Framed

\* A new call of exec.
LEMMA NewlyFramed ==
    ASSUME NEW args, NEW time \in Nat
    PROVE  Framed(NewFrame(args), time)
  BY DEF Framed, NewFrame

\* What ret_val sets is as late as the clock, or was there.
LEMMA SetRetTime ==
    ASSUME clock \in Nat \ {0}, ret.time \in 0..clock, NEW v, SetRet(v)
    PROVE  /\ ret'.val = v /\ ret'.time \in 0..clock
           /\ ret.val = v => ret' = ret
           /\ ret.val # v => ret'.time = clock
  BY DEF SetRet

\* An exception empties the stack.
LEMMA ThrowKeeps ==
    ASSUME CommandsInv, NEW message, Throw(message)
    PROVE  CommandsInv'
<1>1. stack' = <<>> /\ clock' = clock /\ clock \in Nat \ {0}
  BY DEF CommandsInv, Throw
<1>2. Stacked(stack', clock')
  <2>1. stack' \in Seq({}) /\ Len(stack') = 0
    BY <1>1
  <2> QED
    BY <2>1 DEF Stacked
<1>3. ret'.time \in 0..clock
  BY SetRetTime DEF Throw, CommandsInv
<1> QED
  BY <1>1, <1>2, <1>3 DEF CommandsInv, Throw

\* A step of a command that goes on or is finished replaces the top frame.
LEMMA TopReplaced ==
    ASSUME CommandsInv, outcome = "running", NEW f, Framed(f, clock'),
           stack' = <<f>> \o Tail(stack), clock' \in {clock, clock + 1},
           line' = line, outcome' = outcome,
           ret'.time \in 0..clock
    PROVE  CommandsInv'
<1>1. clock \in Nat \ {0} /\ stack # <<>> /\ Stacked(stack, clock)
  BY DEF CommandsInv
<1>2. clock' \in Nat \ {0} /\ clock' >= clock
  BY <1>1
<1>3. Stacked(Tail(stack), clock')
  <2>1. Stacked(Tail(stack), clock)
    BY <1>1, PoppedFrame
  <2> QED
    BY <1>1, <2>1, LaterFrames
<1>4. Stacked(stack', clock') /\ stack' # <<>>
  BY <1>2, <1>3, PushedFrame
<1>5. ret'.time \in 0..clock'
  BY <1>1, <1>2
<1> QED
  BY <1>1, <1>2, <1>4, <1>5 DEF CommandsInv

LEMMA UserKeeps ==
    ASSUME CommandsInv, Step
    PROVE  CommandsInv'
<1>1. clock \in Nat \ {0} /\ Stacked(stack, clock) /\ ret.time \in 0..clock
  BY DEF CommandsInv
<1>2. ASSUME stack # <<>>
      PROVE  outcome = "running" /\ Framed(Top, clock) /\ Stacked(Tail(stack), clock)
  BY <1>1, <1>2, PoppedFrame DEF CommandsInv, Top
<1>3. ASSUME NEW args \in Lines, Ex(args)
      PROVE  CommandsInv'
  <2>1. CASE args = <<>>
    <3>1. stack = <<>> /\ stack' = stack /\ clock' = clock /\ ret' = ret
      BY <1>3, <2>1 DEF CommandsInv, Ex
    <3> QED
      BY <1>1, <1>3, <2>1, <3>1 DEF CommandsInv, Ex
  <2>2. CASE args # <<>>
    <3>1. stack = <<>> /\ stack' = <<NewFrame(args)>> /\ clock' = clock /\ ret' = ret
      BY <1>3, <2>2 DEF CommandsInv, Ex
    <3>2. Stacked(<<NewFrame(args)>> \o stack, clock)
      BY <1>1, NewlyFramed, PushedFrame
    <3>3. <<NewFrame(args)>> \o stack = <<NewFrame(args)>>
      BY <3>1
    <3>4. stack' # <<>> /\ outcome' = "running"
      BY <1>3, <2>2, <3>1 DEF Ex
    <3> QED
      BY <1>1, <3>1, <3>2, <3>3, <3>4 DEF CommandsInv
  <2> QED
    BY <2>1, <2>2
<1>4. CASE LookUp
  <2> DEFINE f == [Top EXCEPT !.at = "call", !.code = commands[Head(Top.args)],
                              !.pre = clock + 1]
  <2>1. /\ stack # <<>> /\ stack' = <<f>> \o Tail(stack) /\ clock' = clock + 1
        /\ line' = line /\ outcome' = outcome /\ ret' = ret
    BY <1>4 DEF LookUp, At, SetTop
  <2>2. Framed(Top, clock)
    BY <1>2, <2>1
  <2>3. Framed(f, clock + 1)
    BY <1>1, <2>2 DEF Framed
  <2> HIDE DEF f
  <2> QED
    BY <1>1, <1>2, <2>1, <2>3, TopReplaced
<1>5. CASE LookUpThrows
  BY <1>5, ThrowKeeps DEF LookUpThrows
<1>6. ASSUME NEW x, NEW y, stack # <<>>, Top.at # "look",
             \/ stack' = <<[Top EXCEPT !.at = x]>> \o Tail(stack)
             \/ stack' = <<[Top EXCEPT !.at = x, !.todo = y]>> \o Tail(stack),
             clock' = clock, line' = line, outcome' = outcome,
             ret'.time \in 0..clock
      PROVE  CommandsInv'
  <2>1. Framed(Top, clock) /\ outcome = "running"
    BY <1>2, <1>6
  <2>2. /\ Framed([Top EXCEPT !.at = x], clock)
        /\ Framed([Top EXCEPT !.at = x, !.todo = y], clock)
    BY <1>1, <1>6, <2>1, ChangedFrame
  <2> QED
    BY <1>6, <2>1, <2>2, TopReplaced
<1>7. CASE Serial
  <2>1. CASE Throw("nothing")
    BY <2>1, ThrowKeeps
  <2>2. CASE ~Throw("nothing")
    <3>1. PICK parts : /\ SetTop([Top EXCEPT !.at = "sub", !.todo = parts])
                       /\ UNCHANGED <<clock, ret, line, before, outcome>>
      BY <1>7, <2>2 DEF Serial
    <3> QED
      BY <1>1, <1>6, <1>7, <3>1 DEF Serial, Calls, At, SetTop
  <2> QED
    BY <2>1, <2>2
<1>8. CASE Repeat
  <2>1. CASE Throw("arguments")
    BY <2>1, ThrowKeeps
  <2>2. CASE ~Throw("arguments")
    <3>1. PICK times : /\ SetTop([Top EXCEPT !.at = "sub", !.todo = times])
                       /\ UNCHANGED <<clock, ret, line, before, outcome>>
      BY <1>8, <2>2 DEF Repeat
    <3> QED
      BY <1>1, <1>6, <1>8, <3>1 DEF Repeat, Calls, At, SetTop
  <2> QED
    BY <2>1, <2>2
<1>9. CASE Version
  BY <1>1, <1>6, <1>9, SetRetTime DEF Version, Calls, At, SetTop
<1>10. CASE Echo
  <2>1. /\ stack # <<>> /\ Top.at = "call" /\ ret' = ret
        /\ stack' = <<[Top EXCEPT !.at = "after"]>> \o Tail(stack)
        /\ clock' = clock /\ line' = line /\ outcome' = outcome
    BY <1>10 DEF Echo, Calls, At, SetTop
  <2> QED
    BY <1>1, <1>6, <2>1
<1>11. CASE ModuleCommand
  BY <1>1, <1>6, <1>11, SetRetTime DEF ModuleCommand, At, SetTop
<1>12. CASE SubCommand
  <2> DEFINE f == [Top EXCEPT !.todo = Tail(Top.todo)]
             g == NewFrame(Head(Top.todo))
  <2>1. /\ stack # <<>> /\ Top.at = "sub" /\ stack' = <<g, f>> \o Tail(stack)
        /\ UNCHANGED <<clock, ret, line, before, outcome>>
    BY <1>12 DEF SubCommand, At
  <2>2. Framed(Top, clock) /\ Stacked(Tail(stack), clock)
    BY <1>2, <2>1
  <2>3. Framed(f, clock) /\ Framed(g, clock)
    BY <1>1, <2>1, <2>2, ChangedFrame, NewlyFramed
  <2> HIDE DEF f, g
  <2>4. Stacked(<<g>> \o (<<f>> \o Tail(stack)), clock)
    BY <1>1, <2>2, <2>3, PushedFrame
  <2>5. <<g, f>> \o Tail(stack) = <<g>> \o (<<f>> \o Tail(stack)) /\ stack' # <<>>
    <3>1. PICK F : Tail(stack) \in Seq(F)
      BY <2>2 DEF Stacked
    <3> QED
      BY <2>1, <3>1
  <2> QED
    BY <1>1, <1>2, <2>1, <2>4, <2>5 DEF CommandsInv
<1>13. CASE SubCommandsEnd
  <2>1. /\ stack # <<>> /\ Top.at = "sub" /\ ret' = ret
        /\ stack' = <<[Top EXCEPT !.at = "after"]>> \o Tail(stack)
        /\ clock' = clock /\ line' = line /\ outcome' = outcome
    BY <1>13 DEF SubCommandsEnd, At, SetTop
  <2> QED
    BY <1>1, <1>6, <2>1
<1>14. CASE Reset
  <2>1. stack # <<>> /\ Top.at = "after" /\ stack' = Tail(stack) /\ clock' = clock
    BY <1>14 DEF Reset, At
  <2>2. Framed(Top, clock) /\ Stacked(stack', clock')
    BY <1>2, <2>1
  <2>3. Top.pre \in 1..clock
    BY <1>1, <2>1, <2>2 DEF Framed
  <2>4. ret'.time \in 0..clock /\ Fresh'
    <3>1. CASE Top.pre > ret.time
      <4>1. SetRet("")
        BY <1>14, <3>1 DEF Reset
      <4> QED
        BY <1>1, <4>1, SetRetTime DEF Fresh
    <3>2. CASE ~(Top.pre > ret.time)
      <4>1. ret' = ret
        BY <1>14, <3>2 DEF Reset
      <4>2. ret.time \in 1..clock /\ clock' = clock /\ clock \in Nat
        BY <1>1, <2>1, <2>3, <3>2
      <4>3. ret.time \in 0..clock /\ ret.time > 0
        BY <4>2
      <4>4. Fresh
        BY <4>3 DEF Fresh
      <4>5. ret'.time = ret.time /\ Fresh'
        BY <4>1, <4>4, Zenon DEF Fresh
      <4> QED
        BY <4>3, <4>5, Zenon
    <3> QED
      BY <3>1, <3>2
  <2>5. outcome' = IF stack' = <<>> THEN "done" ELSE "running"
    BY <1>14, <2>1 DEF Reset
  <2> QED
    BY <1>1, <2>1, <2>2, <2>4, <2>5 DEF CommandsInv
<1>15. CASE ResetThrows
  <2>1. stack' = <<>> /\ outcome' = "ended" /\ clock' = clock /\ ret' = ret
    BY <1>15 DEF ResetThrows
  <2>2. stack' \in Seq({}) /\ Len(stack') = 0
    BY <2>1
  <2>3. Stacked(stack', clock')
    BY <2>2 DEF Stacked
  <2> QED
    BY <1>1, <2>1, <2>3 DEF CommandsInv
<1> QED
  BY <1>3, <1>4, <1>5, <1>7, <1>8, <1>9, <1>10, <1>11, <1>12, <1>13, <1>14, <1>15
     DEF Step

LEMMA CommandsInvariant == CommandsSpec => []CommandsInv
<1>1. CommandsInit => CommandsInv
  <2> SUFFICES ASSUME CommandsInit
               PROVE  CommandsInv
    OBVIOUS
  <2>1. stack \in Seq({}) /\ Len(stack) = 0
    BY DEF CommandsInit
  <2>2. Stacked(stack, clock)
    BY <2>1 DEF Stacked
  <2> QED
    BY <2>2 DEF CommandsInit, CommandsInv
<1>2. CommandsInv /\ [CommandsNext]_vars => CommandsInv'
  <2> SUFFICES ASSUME CommandsInv, [CommandsNext]_vars
               PROVE  CommandsInv'
    OBVIOUS
  <2>1. CASE UNCHANGED interpreterVars
    BY <2>1 DEF CommandsInv, Fresh, Stacked, Framed, interpreterVars
  <2>2. CASE Step
    BY <2>2, UserKeeps
  <2> QED
    BY <2>1, <2>2 DEF CommandsNext, UserStep, vars
<1> QED
  BY <1>1, <1>2, PTL DEF CommandsSpec

\* The types: no call of exec, however deeply serial and repeat nest them,
\* has a time that is yet to come, and a line is running exactly while a
\* call of exec has not returned.
THEOREM CommandsTypeCorrect == CommandsSpec => []CommandsTypeOK
<1>1. TypeOK /\ CommandsInv => CommandsTypeOK
  BY DEF CommandsInv, CommandsTypeOK, Stacked, Framed
<1> QED
  BY <1>1, CommandsInvariant, CommandsAreModules, TypeCorrect, PTL

\* What "_" holds after a line that ended was set while it was executed, or is
\* empty: no line passes on what an earlier one has left ("If the return value
\* was not modified in the last command, reset it").
THEOREM NothingStale ==
    CommandsSpec => [](outcome = "done" /\ line # <<>> => ret.val = "" \/ ret.time > 0)
<1>1. CommandsInv => (outcome = "done" /\ line # <<>> => ret.val = "" \/ ret.time > 0)
  BY DEF CommandsInv, Fresh
<1> QED
  BY <1>1, CommandsInvariant, PTL

-----------------------------------------------------------------------------
\* A command that is found in a module is one the module registers, whoever
\* manages it.
OwnCommands ==
    \A c \in CommandNames :
      commands[c] \in ModuleNames => c \in CommandsOf[commands[c]]

LEMMA OwnCommandsInvariant == Spec => []OwnCommands
<1>1. Init => OwnCommands
  BY NamesAssumption DEF Init, OwnCommands
<1>2. TypeOK /\ OwnCommands /\ [Next]_moduleVars => OwnCommands'
  <2> SUFFICES ASSUME TypeOK, OwnCommands, [Next]_moduleVars
               PROVE  OwnCommands'
    OBVIOUS
  <2>1. CASE commands' = commands
    BY <2>1 DEF OwnCommands
  <2>2. ASSUME NEW S, NEW m \in ModuleNames \cup {None},
               \A c \in S : m \in ModuleNames => c \in CommandsOf[m],
               commands' = [c \in CommandNames |-> IF c \in S THEN m ELSE commands[c]]
        PROVE  OwnCommands'
    BY <2>2, NamesAssumption DEF OwnCommands
  <2>3. ASSUME NEW t \in Threads, ModuleInit(t)
        PROVE  OwnCommands'
    <3>1. arg[t] \in ModuleNames
      BY <2>3, ManagedByAssumption DEF TypeOK, ModuleInit
    <3> DEFINE m == arg[t]
               S == CommandsOf[m]
    <3>2. \/ commands' = commands
          \/ commands' = [c \in CommandNames |-> IF c \in S THEN m ELSE commands[c]]
      BY <2>3 DEF ModuleInit, Crash
    <3>3. m \in ModuleNames /\ \A c \in S : c \in CommandsOf[m]
      BY <3>1
    <3> HIDE DEF m, S
    <3> QED
      BY <2>1, <2>2, <3>2, <3>3
  <2>4. ASSUME NEW t \in Threads, ModuleFinal(t)
        PROVE  OwnCommands'
    <3> DEFINE S == CommandsOf[arg[t]]
    <3>1. \/ commands' = commands
          \/ commands' = [c \in CommandNames |-> IF c \in S THEN None ELSE commands[c]]
      BY <2>4 DEF ModuleFinal, Crash
    <3> HIDE DEF S
    <3> QED
      BY <2>1, <2>2, <3>1, NamesAssumption
  <2>5. ASSUME NEW t \in Threads, ModuleInitThrows(t)
        PROVE  OwnCommands'
    <3>1. arg[t] \in ModuleNames
      BY <2>5, ManagedByAssumption DEF TypeOK, ModuleInitThrows
    <3>2. PICK added \in SUBSET CommandsOf[arg[t]] :
            commands' = [c \in CommandNames |-> IF c \in added THEN arg[t] ELSE commands[c]]
      BY <2>5 DEF ModuleInitThrows
    <3> QED
      BY <2>2, <3>1, <3>2
  <2>6. ASSUME NEW t \in Threads, ModuleFinalThrows(t)
        PROVE  OwnCommands'
    <3>1. PICK removed \in SUBSET CommandsOf[arg[t]] :
            commands' = [c \in CommandNames |-> IF c \in removed THEN None ELSE commands[c]]
      BY <2>6 DEF ModuleFinalThrows
    <3> QED
      BY <2>2, <3>1, NamesAssumption
  <2>7. CASE Cleanup
    <3> DEFINE S == {c \in CommandNames : \E m \in module_map : c \in CommandsOf[m]}
    <3>1. \/ commands' = commands
          \/ commands' = [c \in CommandNames |-> IF c \in S THEN None ELSE commands[c]]
      BY <2>7 DEF Cleanup
    <3> HIDE DEF S
    <3> QED
      BY <2>1, <2>2, <3>1, NamesAssumption
  <2> QED
    BY <2>1, <2>3, <2>4, <2>7, <2>5, <2>6 DEF Next, ModuleStep, Import, Expunge,
       NotFound, Open, Resolve, NoSymbol, Enter, Erase, Close, CallOfClosed,
       CleanupThrows, Crash, moduleVars
<1> QED
  BY <1>1, <1>2, TypeCorrect, PTL DEF Spec

\* A call of exec, which executes a phrase and has some of its parts to go.
Frames ==
    [args : Phrases, at : {"look", "call", "sub", "after"},
     code : ModuleNames \cup {System, None}, pre : Nat, todo : Programs]

\* What "_" will hold when the call of frame f returns, if r is what it holds
\* now and no call is inside f.
Owed(f, r) ==
    IF f.at \in {"look", "call"} THEN Value(f.args, r.val)
    ELSE IF f.at = "sub" /\ f.todo # <<>> THEN Values(f.todo, r.val)
    ELSE IF f.pre > r.time THEN "" ELSE r.val

\* The calls that wait for another, in frames s from the second on: w[i] is
\* what "_" will hold when the i-th returns, by what it has to do yet, and the
\* last of them leaves the value of the line.  None was looked up later than
\* the call it waits for, so none takes its result for an old one.
Linked(s, w, r, value) ==
    /\ w[1] = Owed(s[1], r)
    /\ \A i \in 2..Len(s) :
         /\ s[i].at = "sub"
         /\ s[i].pre > 0
         /\ s[i - 1].at # "look" => s[i].pre <= s[i - 1].pre
         /\ w[i] = Values(s[i].todo, w[i - 1])
    /\ w[Len(s)] = value

\* A command that is about to be called was looked up after "_" was set, and is
\* in the module it was found in.
CalledRight(f, r) ==
    f.at = "call" =>
      /\ f.pre > r.time
      /\ f.args # <<>>
      /\ f.code \in ModuleNames => Head(f.args) \in CommandsOf[f.code]

ResultInv ==
    /\ stack \in Seq(Frames)
    /\ outcome = "ready" => ret.val \in Results
    /\ stack # <<>> =>
         /\ line \in Phrases \ {<<>>}
         /\ {ret.val, before} \subseteq Results
         /\ CalledRight(stack[1], ret)
         /\ \E w : Linked(stack, w, ret, Value(line, before))
    /\ ResultIsLast

\* The parts of a phrase are phrases, and so is all that is left of them.
LEMMA PartsLeft ==
    /\ \A p \in Compound : Parts(p) \in Programs
    /\ \A ps \in Programs \ {<<>>} : Head(ps) \in Phrases /\ Tail(ps) \in Programs
<1>1. ASSUME NEW p \in Compound
      PROVE  Parts(p) \in Programs
  <2>1. Parts(p) \in Seq(Phrases)
    BY PhrasesAssumption
  <2>2. CASE Parts(p) = <<>>
    BY <2>2 DEF Programs
  <2>3. CASE Parts(p) # <<>>
    <3>1. 1 \in 1..Len(Parts(p))
      BY <2>1, <2>3
    <3>2. SubSeq(Parts(p), 1, Len(Parts(p))) = Parts(p)
      BY <2>1, SubSeqFull
    <3> QED
      BY <3>1, <3>2 DEF Programs
  <2> QED
    BY <2>2, <2>3
<1>2. ASSUME NEW ps \in Programs, ps # <<>>
      PROVE  Head(ps) \in Phrases /\ Tail(ps) \in Programs
  <2>1. PICK p \in Compound : \E i \in 1..Len(Parts(p)) :
                                 ps = SubSeq(Parts(p), i, Len(Parts(p)))
    BY <1>2 DEF Programs
  <2> DEFINE s == Parts(p)
             n == Len(s)
  <2>2. PICK i \in 1..n : ps = SubSeq(s, i, n)
    BY <2>1
  <2>3. s \in Seq(Phrases) /\ n \in Nat
    BY PhrasesAssumption
  <2>4. s[i] \in Phrases
    BY <2>3
  <2>5. i + 1 \in 1..n \/ i = n
    BY <2>2, <2>3
  <2> HIDE DEF s
  <2>6. Head(ps) = s[i] /\ Tail(ps) = SubSeq(s, i + 1, n)
    BY <2>2, <2>3, HeadTailOfSubSeq
  <2>7. Tail(ps) \in Programs
    <3>1. CASE i = n
      <4>1. SubSeq(s, n + 1, n) = <<>>
        BY <2>3, SubSeqEmpty
      <4> QED
        BY <2>6, <3>1, <4>1 DEF Programs
    <3>2. CASE i + 1 \in 1..n
      <4> DEFINE j == i + 1
                 q == SubSeq(s, j, n)
      <4>1. q \in {SubSeq(Parts(p), k, Len(Parts(p))) : k \in 1..Len(Parts(p))}
        <5>1. j \in 1..Len(Parts(p)) /\ q = SubSeq(Parts(p), j, Len(Parts(p)))
          BY <3>2 DEF s
        <5> HIDE DEF j, q
        <5> QED
          BY <5>1
      <4>2. Tail(ps) = q
        BY <2>6
      <4> HIDE DEF q
      <4> QED
        BY <4>1, <4>2 DEF Programs
    <3> QED
      BY <2>5, <3>1, <3>2
  <2> QED
    BY <2>6, <2>7, <2>4
<1> QED
  BY <1>1, <1>2

\* Replacing the top of a stack, and calling from it.
LEMMA FrameReplaced ==
    ASSUME NEW S, NEW s \in Seq(S), s # <<>>, NEW f \in S
    PROVE  /\ <<f>> \o Tail(s) \in Seq(S)
           /\ Len(<<f>> \o Tail(s)) = Len(s)
           /\ (<<f>> \o Tail(s))[1] = f
           /\ \A i \in 2..Len(s) : (<<f>> \o Tail(s))[i] = s[i]
<1>1. Tail(s) \in Seq(S) /\ Len(Tail(s)) = Len(s) - 1 /\ Len(s) \in Nat \ {0}
  OBVIOUS
<1>2. \A i \in 1..Len(s) - 1 : Tail(s)[i] = s[i + 1]
  OBVIOUS
<1>3. <<f>> \in Seq(S) /\ Len(<<f>>) = 1 /\ <<f>>[1] = f
  OBVIOUS
<1>4. \A i \in 2..Len(s) : (<<f>> \o Tail(s))[i] = Tail(s)[i - 1]
  BY <1>1, <1>3
<1> QED
  BY <1>1, <1>2, <1>3, <1>4

LEMMA FrameCalled ==
    ASSUME NEW S, NEW s \in Seq(S), s # <<>>, NEW f \in S, NEW g \in S
    PROVE  /\ <<g, f>> \o Tail(s) \in Seq(S)
           /\ Len(<<g, f>> \o Tail(s)) = Len(s) + 1
           /\ (<<g, f>> \o Tail(s))[1] = g
           /\ (<<g, f>> \o Tail(s))[2] = f
           /\ \A i \in 3..Len(s) + 1 : (<<g, f>> \o Tail(s))[i] = s[i - 1]
<1>1. Tail(s) \in Seq(S) /\ Len(Tail(s)) = Len(s) - 1 /\ Len(s) \in Nat \ {0}
  OBVIOUS
<1>2. \A i \in 1..Len(s) - 1 : Tail(s)[i] = s[i + 1]
  OBVIOUS
<1>3. <<g, f>> \in Seq(S) /\ Len(<<g, f>>) = 2 /\ <<g, f>>[1] = g /\ <<g, f>>[2] = f
  OBVIOUS
<1>4. \A i \in 3..Len(s) + 1 : (<<g, f>> \o Tail(s))[i] = Tail(s)[i - 2]
  BY <1>1, <1>3
<1>5. \A i \in 3..Len(s) + 1 : i - 2 \in 1..Len(s) - 1 /\ (i - 2) + 1 = i - 1
  BY <1>1
<1> QED
  BY <1>1, <1>2, <1>3, <1>4, <1>5

\* A step inside the innermost call that keeps what the call owes keeps what
\* all others owe.
LEMMA StillLinked ==
    ASSUME NEW s \in Seq(Frames), s # <<>>, NEW f \in Frames, NEW w, NEW r, NEW q,
           NEW value, Linked(s, w, r, value), Owed(f, q) = Owed(s[1], r),
           2 \in 1..Len(s) => s[2].pre <= f.pre
    PROVE  Linked(<<f>> \o Tail(s), w, q, value)
<1> DEFINE n == <<f>> \o Tail(s)
<1>1. /\ Len(n) = Len(s) /\ n[1] = f
      /\ \A i \in 2..Len(s) : n[i] = s[i]
  BY FrameReplaced
<1>2. Len(s) \in Nat \ {0}
  OBVIOUS
<1> HIDE DEF n
<1>3. w[1] = Owed(n[1], q) /\ w[Len(n)] = value
  BY <1>1 DEF Linked
<1>4. ASSUME NEW i \in 2..Len(n)
      PROVE  /\ n[i].at = "sub"
             /\ n[i].pre > 0
             /\ n[i - 1].at # "look" => n[i].pre <= n[i - 1].pre
             /\ w[i] = Values(n[i].todo, w[i - 1])
  <2>1. n[i] = s[i] /\ i \in 2..Len(s)
    BY <1>1
  <2>2. s[i].at = "sub" /\ s[i].pre > 0 /\ w[i] = Values(s[i].todo, w[i - 1])
    BY <2>1 DEF Linked
  <2>3. n[i - 1].at # "look" => n[i].pre <= n[i - 1].pre
    <3>1. CASE i = 2
      BY <1>1, <1>2, <2>1, <3>1
    <3>2. CASE i # 2
      <4>1. i - 1 \in 2..Len(s)
        BY <1>2, <2>1, <3>2
      <4>2. n[i - 1] = s[i - 1]
        BY <1>1, <4>1
      <4> QED
        BY <2>1, <4>2 DEF Linked
    <3> QED
      BY <3>1, <3>2
  <2> QED
    BY <2>1, <2>2, <2>3
<1>5. Linked(n, w, q, value)
  BY <1>3, <1>4 DEF Linked
<1> QED
  BY <1>5 DEF n

\* So a step inside the innermost call keeps the invariant.
LEMMA GoesOn ==
    ASSUME CommandsInv, ResultInv, stack # <<>>, outcome = "running",
           NEW f \in Frames, stack' = <<f>> \o Tail(stack), line' = line, before' = before,
           outcome' = outcome, ret'.val \in Results, CalledRight(f, ret'),
           Owed(f, ret') = Owed(stack[1], ret),
           \/ stack[1].at # "look" /\ f.pre = stack[1].pre
           \/ f.pre = clock + 1
    PROVE  ResultInv'
<1>1. stack \in Seq(Frames) /\ 1 \in 1..Len(stack) /\ Len(stack) \in Nat
  BY DEF ResultInv
<1>2. PICK w : Linked(stack, w, ret, Value(line, before))
  BY DEF ResultInv
<1>3. ASSUME 2 \in 1..Len(stack)
      PROVE  stack[2].pre <= f.pre
  <2>1. 2 \in 2..Len(stack) /\ 2 - 1 = 1
    BY <1>1, <1>3
  <2>2. stack[1].at # "look" => stack[2].pre <= stack[1].pre
    BY <1>2, <2>1 DEF Linked
  <2>3. stack[2].pre \in 0..clock /\ clock \in Nat
    BY <1>3 DEF CommandsInv, Stacked, Framed
  <2> QED
    BY <2>2, <2>3
<1>4. Linked(<<f>> \o Tail(stack), w, ret', Value(line, before))
  BY <1>1, <1>2, <1>3, StillLinked
<1>5. /\ stack' \in Seq(Frames) /\ stack' # <<>> /\ stack'[1] = f
  BY <1>1, FrameReplaced
<1>6. \E v : Linked(stack', v, ret', Value(line', before'))
  BY <1>4
<1> QED
  BY <1>5, <1>6 DEF ResultInv, ResultIsLast

LEMMA StepKeepsResult ==
    ASSUME TypeOK, OwnCommands, CommandsInv, ResultInv, Step
    PROVE  ResultInv'
<1>1. /\ clock \in Nat \ {0} /\ ret.time \in 0..clock /\ stack \in Seq(Frames)
      /\ outcome = "running" <=> stack # <<>>
  BY DEF CommandsInv, ResultInv
<1>2. ASSUME stack # <<>>
      PROVE  /\ 1 \in 1..Len(stack) /\ Top = stack[1] /\ Top \in Frames
             /\ Top.pre \in 0..clock /\ ret.val \in Results /\ CalledRight(Top, ret)
  <2>1. 1 \in 1..Len(stack) /\ Top = stack[1] /\ Top \in Frames
    BY <1>1, <1>2 DEF Top
  <2>2. Framed(stack[1], clock)
    BY <2>1 DEF CommandsInv, Stacked
  <2> QED
    BY <1>2, <2>1, <2>2 DEF ResultInv, Framed
<1>3. ASSUME NEW args \in Lines, Ex(args)
      PROVE  ResultInv'
  <2>1. ret' = ret /\ line' = args /\ stack = <<>> /\ ret.val \in Results /\ before' = ret.val
    BY <1>1, <1>3 DEF Ex, ResultInv
  <2>2. CASE args = <<>>
    BY <1>1, <1>3, <2>1, <2>2 DEF Ex, ResultInv, ResultIsLast
  <2>3. CASE args # <<>>
    <3> DEFINE f == NewFrame(args)
    <3>1. f \in Frames /\ f.at = "look" /\ f.args = args
      BY PhrasesAssumption DEF Frames, NewFrame, Programs
    <3>2. stack' = <<f>> /\ outcome' = "running"
      BY <1>3, <2>3 DEF Ex
    <3> HIDE DEF f
    <3>3. stack' \in Seq(Frames) /\ Len(stack') = 1 /\ stack'[1] = f
      BY <3>1, <3>2
    <3>4. Linked(stack', <<Value(args, ret.val)>>, ret', Value(line', before'))
      <4> DEFINE v == Value(args, ret.val)
      <4>1. Owed(stack'[1], ret') = v /\ Value(line', before') = v
        BY <2>1, <3>1, <3>3 DEF Owed
      <4>2. 2..Len(stack') = {}
        BY <3>3
      <4> HIDE DEF v
      <4>3. <<v>>[1] = v /\ <<v>>[Len(stack')] = v
        BY <3>3
      <4>4. Linked(stack', <<v>>, ret', Value(line', before'))
        BY <4>1, <4>2, <4>3 DEF Linked
      <4> QED
        BY <4>4 DEF v
    <3>5. \E w : Linked(stack', w, ret', Value(line', before'))
      BY <3>4
    <3>6. CalledRight(stack'[1], ret') /\ {ret'.val, before'} \subseteq Results
      BY <2>1, <3>1, <3>3 DEF CalledRight
    <3>7. line' \in Phrases \ {<<>>}
      BY <2>1, <2>3, PhrasesAssumption
    <3> QED
      BY <3>2, <3>3, <3>5, <3>6, <3>7 DEF ResultInv, ResultIsLast
  <2> QED
    BY <2>2, <2>3
<1>4. ASSUME NEW message, Throw(message)
      PROVE  ResultInv'
  <2>1. stack' = <<>> /\ outcome' = "thrown"
    BY <1>4 DEF Throw
  <2> QED
    BY <2>1 DEF ResultInv, ResultIsLast
<1>5. CASE LookUp
  <2> DEFINE c == Head(Top.args)
             f == [Top EXCEPT !.at = "call", !.code = commands[c], !.pre = clock + 1]
  <2>1. /\ stack # <<>> /\ Top.at = "look" /\ Top.args # <<>> /\ c \in CommandNames
        /\ commands[c] # None
        /\ stack' = <<f>> \o Tail(stack) /\ clock' = clock + 1
        /\ line' = line /\ before' = before /\ outcome' = outcome /\ ret' = ret
    BY <1>5 DEF LookUp, At, SetTop
  <2>2. commands[c] \in ModuleNames \cup {System, None}
    BY <2>1 DEF TypeOK
  <2>3. /\ f \in Frames /\ f.at = "call" /\ f.args = Top.args /\ f.pre = clock + 1
        /\ f.code = commands[c]
    <3> DEFINE x == commands[c]
               y == clock + 1
    <3>1. f = [Top EXCEPT !.at = "call", !.code = x, !.pre = y]
      OBVIOUS
    <3>2. x \in ModuleNames \cup {System, None} /\ y \in Nat /\ Top \in Frames
      BY <1>1, <1>2, <2>1, <2>2
    <3> HIDE DEF f, x, y
    <3>3. /\ f \in Frames /\ f.at = "call" /\ f.args = Top.args /\ f.pre = y
          /\ f.code = x
      BY <3>1, <3>2 DEF Frames
    <3> QED
      BY <3>3 DEF x, y
  <2>4. CalledRight(f, ret')
    BY <1>1, <2>1, <2>3 DEF CalledRight, OwnCommands
  <2>5. Owed(f, ret') = Owed(Top, ret)
    BY <2>1, <2>3 DEF Owed
  <2> HIDE DEF f
  <2> QED
    BY <1>1, <1>2, <2>1, <2>3, <2>4, <2>5, GoesOn
\* The command of the innermost call goes on as frame f.
<1>6. ASSUME stack # <<>>, Top.at # "look", NEW f \in Frames, f.pre = Top.pre,
             f.at # "call", stack' = <<f>> \o Tail(stack), line' = line, before' = before,
             outcome' = outcome, ret'.val \in Results,
             Owed(f, ret') = Owed(Top, ret)
      PROVE  ResultInv'
  <2>1. CalledRight(f, ret')
    BY <1>6 DEF CalledRight
  <2> QED
    BY <1>1, <1>2, <1>6, <2>1, GoesOn
<1>7. ASSUME At("call"), NEW parts \in Programs, Top.args \in Compound,
             parts = Parts(Top.args), SetTop([Top EXCEPT !.at = "sub", !.todo = parts]),
             UNCHANGED <<clock, ret, line, before, outcome>>
      PROVE  ResultInv'
  <2> DEFINE f == [Top EXCEPT !.at = "sub", !.todo = parts]
  <2>1. stack # <<>> /\ Top.at = "call"
    BY <1>7 DEF At
  <2>2. /\ f \in Frames /\ f.pre = Top.pre /\ f.at = "sub" /\ f.todo = parts
        /\ Top.args # <<>> /\ Top.pre > ret.time
    BY <1>2, <1>7, <2>1 DEF Frames, CalledRight
  <2>3. Owed(Top, ret) = IF parts = <<>> THEN "" ELSE Values(parts, ret.val)
    <3>1. Top.args \in Phrases \ {<<>>} /\ ret.val \in Results
      BY <1>2, <2>1, <2>2 DEF Frames
    <3>2. Value(Top.args, ret.val) =
            IF Parts(Top.args) = <<>> THEN "" ELSE Values(Parts(Top.args), ret.val)
      BY <1>7, <3>1, ValueAssumption
    <3> QED
      BY <1>7, <2>1, <3>2 DEF Owed
  <2>4. Owed(f, ret') = Owed(Top, ret)
    BY <1>7, <2>2, <2>3 DEF Owed
  <2>5. stack' = <<f>> \o Tail(stack)
    BY <1>7 DEF SetTop
  <2> HIDE DEF f
  <2> QED
    BY <1>2, <1>6, <1>7, <2>1, <2>2, <2>4, <2>5
<1>8. CASE Serial
  <2>1. At("call") /\ Head(Top.args) = "serial" /\ stack # <<>> /\ Top.at = "call"
    BY <1>8 DEF Serial, Calls, At
  <2>2. CASE Split(Tail(Top.args)) = <<>>
    BY <1>4, <1>8, <2>2 DEF Serial
  <2>3. CASE Split(Tail(Top.args)) # <<>>
    <3>1. Top.args \in Compound /\ Parts(Top.args) = Split(Tail(Top.args))
      BY <1>2, <2>1, <2>3 DEF Frames, CalledRight, Compound, Parts
    <3>2. Parts(Top.args) \in Programs
      BY <3>1, PartsLeft
    <3>3. /\ SetTop([Top EXCEPT !.at = "sub", !.todo = Parts(Top.args)])
          /\ UNCHANGED <<clock, ret, line, before, outcome>>
      BY <1>8, <2>3, <3>1 DEF Serial
    <3> QED
      BY <1>7, <2>1, <3>1, <3>2, <3>3
  <2> QED
    BY <2>2, <2>3
<1>9. CASE Repeat
  <2> DEFINE args == Top.args
  <2>1. At("call") /\ Head(args) = "repeat" /\ stack # <<>> /\ Top.at = "call"
    BY <1>9 DEF Repeat, Calls, At
  <2>2. CASE Len(args) < 3 \/ args[2] \notin DOMAIN Numbers
    BY <1>4, <1>9, <2>2 DEF Repeat
  <2>3. CASE ~(Len(args) < 3 \/ args[2] \notin DOMAIN Numbers)
    <3>1. args \in Compound
      BY <1>2, <2>1, <2>3 DEF Frames, CalledRight, Compound
    <3>2. Parts(args) = [i \in 1..Numbers[args[2]] |-> Tail(Tail(args))]
      BY <2>1 DEF Parts
    <3>3. Parts(args) \in Programs
      BY <3>1, PartsLeft
    <3>4. /\ SetTop([Top EXCEPT !.at = "sub", !.todo = Parts(args)])
          /\ UNCHANGED <<clock, ret, line, before, outcome>>
      BY <1>9, <2>3, <3>2 DEF Repeat
    <3> QED
      BY <1>7, <2>1, <3>1, <3>3, <3>4
  <2> QED
    BY <2>2, <2>3
\* A command that executes no others is finished.
<1>10. ASSUME At("call"), SetTop([Top EXCEPT !.at = "after"]),
              line' = line, before' = before, outcome' = outcome, ret'.val \in Results,
              Value(Top.args, ret.val) = IF Top.pre > ret'.time THEN "" ELSE ret'.val
       PROVE  ResultInv'
  <2> DEFINE f == [Top EXCEPT !.at = "after"]
  <2>1. stack # <<>> /\ Top.at = "call" /\ stack' = <<f>> \o Tail(stack)
    BY <1>10 DEF At, SetTop
  <2>2. f \in Frames /\ f.pre = Top.pre /\ f.at = "after"
    BY <1>2, <2>1 DEF Frames
  <2>3. Owed(f, ret') = Owed(Top, ret)
    BY <1>10, <2>1, <2>2 DEF Owed
  <2> HIDE DEF f
  <2> QED
    BY <1>6, <1>10, <2>1, <2>2, <2>3
<1>11. ASSUME At("call")
       PROVE  /\ Top.args \in Phrases \ {<<>>} /\ ret.val \in Results
              /\ Top.pre > ret.time /\ ~(Top.pre > clock)
              /\ Top.code \in ModuleNames => Head(Top.args) \in CommandsOf[Top.code]
  BY <1>1, <1>2, <1>11 DEF At, CalledRight, Frames
<1>12. CASE Version
  <2>1. Value(Top.args, ret.val) = Set("version", ret.val)
    BY <1>11, <1>12, ValueAssumption DEF Version, Calls
  <2>2. /\ ret'.val = "version"
        /\ ret.val = "version" => ret' = ret
        /\ ret.val # "version" => ret'.time = clock
    BY <1>1, <1>12, SetRetTime DEF Version
  <2>3. Set("version", ret.val) = IF Top.pre > ret'.time THEN "" ELSE ret'.val
    BY <1>11, <1>12, <2>2 DEF Version, Calls, Set
  <2> QED
    BY <1>10, <1>12, <2>1, <2>2, <2>3 DEF Version, Calls, Results
<1>13. CASE Echo
  <2>1. Value(Top.args, ret.val) = ""
    BY <1>11, <1>13, ValueAssumption DEF Echo, Calls
  <2>2. ret' = ret
    BY <1>13 DEF Echo
  <2> QED
    BY <1>10, <1>11, <1>13, <2>1, <2>2 DEF Echo, Calls
<1>14. CASE ModuleCommand
  <2>1. Value(Top.args, ret.val) = Set("module", ret.val)
    BY <1>11, <1>14, ValueAssumption DEF ModuleCommand
  <2>2. /\ ret'.val = "module"
        /\ ret.val = "module" => ret' = ret
        /\ ret.val # "module" => ret'.time = clock
    BY <1>1, <1>14, SetRetTime DEF ModuleCommand
  <2>3. Set("module", ret.val) = IF Top.pre > ret'.time THEN "" ELSE ret'.val
    BY <1>11, <1>14, <2>2 DEF ModuleCommand, Set
  <2> QED
    BY <1>10, <1>14, <2>1, <2>2, <2>3 DEF ModuleCommand, Results
<1>15. CASE SubCommandsEnd
  <2> DEFINE f == [Top EXCEPT !.at = "after"]
  <2>1. /\ stack # <<>> /\ Top.at = "sub" /\ Top.todo = <<>>
        /\ stack' = <<f>> \o Tail(stack)
        /\ line' = line /\ before' = before /\ outcome' = outcome /\ ret' = ret
    BY <1>15 DEF SubCommandsEnd, At, SetTop
  <2>2. f \in Frames /\ f.pre = Top.pre /\ f.at = "after"
    BY <1>2, <2>1 DEF Frames
  <2>3. Owed(f, ret') = Owed(Top, ret)
    BY <2>1, <2>2 DEF Owed
  <2> HIDE DEF f
  <2> QED
    BY <1>2, <1>6, <2>1, <2>2, <2>3
<1>16. CASE SubCommand
  <2> DEFINE g == NewFrame(Head(Top.todo))
             f == [Top EXCEPT !.todo = Tail(Top.todo)]
             n == <<g, f>> \o Tail(stack)
  <2>1. /\ stack # <<>> /\ Top.at = "sub" /\ Top.todo # <<>>
        /\ stack' = n /\ line' = line /\ before' = before /\ outcome' = outcome /\ ret' = ret
    BY <1>16 DEF SubCommand, At
  <2>2. Top.todo \in Programs /\ Head(Top.todo) \in Phrases /\ Tail(Top.todo) \in Programs
    BY <1>2, <2>1, PartsLeft DEF Frames
  <2>3. f \in Frames /\ f.at = "sub" /\ f.todo = Tail(Top.todo) /\ f.pre = Top.pre
    BY <1>2, <2>1, <2>2 DEF Frames
  <2>4. g \in Frames /\ g.at = "look" /\ g.args = Head(Top.todo)
    BY <2>2 DEF Frames, NewFrame, Programs
  <2> HIDE DEF f, g
  <2>5. /\ n \in Seq(Frames) /\ Len(n) = Len(stack) + 1 /\ n[1] = g /\ n[2] = f
        /\ \A i \in 3..Len(stack) + 1 : n[i] = stack[i - 1]
    BY <1>1, <2>1, <2>3, <2>4, FrameCalled
  <2>6. n # <<>> /\ Len(stack) \in Nat \ {0}
    BY <1>1, <2>1, <2>5
  <2>7. PICK w : Linked(stack, w, ret, Value(line, before))
    BY <2>1 DEF ResultInv
  <2> HIDE DEF n
  <2> DEFINE v == [i \in 1..Len(n) |->
                     IF i = 1 THEN Value(Head(Top.todo), ret.val) ELSE w[i - 1]]
  <2>8. v[1] = Value(Head(Top.todo), ret.val) /\ \A i \in 2..Len(n) : v[i] = w[i - 1]
    BY <2>5, <2>6
  <2> HIDE DEF v
  <2>9. v[1] = Owed(n[1], ret)
    BY <2>4, <2>5, <2>8 DEF Owed
  <2>10. Top.pre > 0
    <3>1. Framed(stack[1], clock)
      BY <1>2, <2>1 DEF CommandsInv, Stacked
    <3> QED
      BY <1>2, <2>1, <3>1 DEF Framed
  <2>11. ASSUME NEW i \in 2..Len(n)
         PROVE  /\ n[i].at = "sub"
                /\ n[i].pre > 0
                /\ n[i - 1].at # "look" => n[i].pre <= n[i - 1].pre
                /\ v[i] = Values(n[i].todo, v[i - 1])
    <3>1. CASE i = 2
      <4>1. v[2] = w[1] /\ w[1] = Values(Top.todo, ret.val)
        <5>1. v[2] = w[1]
          BY <2>5, <2>6, <2>8
        <5>2. w[1] = Owed(Top, ret)
          BY <1>2, <2>1, <2>7 DEF Linked
        <5> QED
          BY <2>1, <5>1, <5>2 DEF Owed
      <4>2. Values(Top.todo, ret.val) =
              Values(Tail(Top.todo), Value(Head(Top.todo), ret.val))
        BY <1>2, <2>1, <2>2, ValuesAssumption
      <4>3. n[2].at = "sub" /\ n[2].pre > 0 /\ n[1].at = "look"
        BY <2>3, <2>4, <2>5, <2>10
      <4> QED
        BY <2>3, <2>5, <2>8, <3>1, <4>1, <4>2, <4>3
    <3>2. CASE i # 2
      <4> DEFINE j == i - 1
      <4>1. i \in 3..Len(stack) + 1 /\ j \in 2..Len(stack) /\ n[i] = stack[j]
        BY <2>5, <2>6, <3>2
      <4>2. /\ stack[j].at = "sub" /\ stack[j].pre > 0
            /\ stack[j - 1].at # "look" => stack[j].pre <= stack[j - 1].pre
            /\ w[j] = Values(stack[j].todo, w[j - 1])
        BY <2>7, <4>1 DEF Linked
      <4>3. v[i] = w[j] /\ v[j] = w[j - 1]
        BY <2>5, <2>6, <2>8, <4>1
      <4>4. n[j].at = stack[j - 1].at /\ n[j].pre = stack[j - 1].pre
        <5>1. CASE i = 3
          BY <1>2, <2>1, <2>3, <2>5, <5>1
        <5>2. CASE i # 3
          BY <2>5, <2>6, <4>1, <5>2
        <5> QED
          BY <5>1, <5>2
      <4> QED
        BY <4>1, <4>2, <4>3, <4>4
    <3> QED
      BY <3>1, <3>2
  <2>12. v[Len(n)] = Value(line, before)
    <3>1. v[Len(n)] = w[Len(stack)]
      BY <2>5, <2>6, <2>8
    <3> QED
      BY <2>7, <3>1 DEF Linked
  <2>13. Linked(n, v, ret, Value(line, before))
    BY <2>9, <2>11, <2>12 DEF Linked
  <2>14. \E x : Linked(stack', x, ret', Value(line', before'))
    BY <2>1, <2>13
  <2>15. CalledRight(stack'[1], ret')
    BY <2>1, <2>4, <2>5 DEF CalledRight
  <2> QED
    BY <1>1, <1>2, <2>1, <2>5, <2>6, <2>14, <2>15 DEF ResultInv, ResultIsLast
<1>17. CASE Reset
  <2>1. /\ stack # <<>> /\ Top.at = "after" /\ stack' = Tail(stack) /\ clock' = clock
        /\ line' = line /\ before' = before
        /\ IF Top.pre > ret.time THEN SetRet("") ELSE ret' = ret
        /\ outcome' = IF Tail(stack) = <<>> THEN "done" ELSE "running"
    BY <1>17 DEF Reset, At
  <2>2. /\ Top = stack[1] /\ Top \in Frames /\ 1 \in 1..Len(stack)
        /\ Top.pre \in 0..clock /\ clock \in Nat /\ ret.time \in 0..clock
        /\ ret.val \in Results
    BY <1>1, <1>2, <2>1, Zenon
  <2>3. Top.pre \in Nat /\ Top.pre <= clock /\ ret.time \in Nat
    BY <2>2
  <2>4. /\ ret'.val = Owed(Top, ret) /\ ret'.val \in Results
        /\ ret'.time \in Nat
        /\ ret'.time >= Top.pre \/ ret'.val = ""
    <3>1. Owed(Top, ret) = IF Top.pre > ret.time THEN "" ELSE ret.val
      BY <2>1 DEF Owed
    <3>2. CASE Top.pre > ret.time
      <4>1. ret'.val = "" /\ ret'.time \in Nat
        <5>1. SetRet("")
          BY <2>1, <3>2
        <5>2. clock \in Nat \ {0} /\ ret.time \in 0..clock
          BY <1>1
        <5>3. ret'.val = "" /\ ret'.time \in 0..clock
          BY <5>1, <5>2, SetRetTime
        <5>4. 0..clock \subseteq Nat
          BY <5>2
        <5> QED
          BY <5>3, <5>4, Zenon
      <4>2. ret'.val \in Results
        BY <4>1 DEF Results
      <4> QED
        BY <3>2, <3>1, <4>1, <4>2
    <3>3. CASE ~(Top.pre > ret.time)
      <4>1. ret' = ret
        BY <2>1, <3>3
      <4>2. ret.time \in Nat /\ ret.time >= Top.pre
        BY <2>3, <3>3
      <4> QED
        BY <2>2, <3>3, <3>1, <4>1, <4>2
    <3> QED
      BY <3>2, <3>3
  <2>5. PICK w : Linked(stack, w, ret, Value(line, before))
    BY <2>1 DEF ResultInv
  <2>6. /\ w[1] = ret'.val /\ w[Len(stack)] = Value(line, before)
    BY <1>2, <2>1, <2>4, <2>5 DEF Linked
  <2> DEFINE n == Tail(stack)
  <2>7. /\ n \in Seq(Frames) /\ Len(n) = Len(stack) - 1 /\ Len(stack) \in Nat \ {0}
        /\ \A i \in 1..Len(n) : n[i] = stack[i + 1]
    <3>1. stack \in Seq(Frames) /\ stack # <<>>
      BY <1>1, <2>1
    <3> QED
      BY <3>1
  <2>8. CASE n = <<>>
    <3>1. Len(stack) = 1
      <4> HIDE DEF n
      <4> QED
        BY <2>7, <2>8
    <3>2. ret'.val = Value(line', before') /\ stack' = <<>> /\ outcome' = "done"
      BY <2>1, <2>6, <2>8, <3>1
    <3>3. stack' \in Seq(Frames)
      BY <2>1, <2>7
    <3> QED
      BY <3>2, <3>3 DEF ResultInv, ResultIsLast
  <2>9. CASE n # <<>>
    <3> HIDE DEF n
    <3>1. 1 \in 1..Len(n) /\ n[1] = stack[2] /\ 2 \in 2..Len(stack)
      BY <2>7, <2>9
    <3>2. /\ stack[2].at = "sub" /\ stack[2].pre <= stack[1].pre /\ stack[2].pre \in Nat
          /\ w[2] = Values(stack[2].todo, w[1])
      <4>1. 2 - 1 = 1 /\ stack[2] \in Frames /\ stack[1].at # "look"
        <5>1. stack[2] \in Frames
          BY <1>1, <3>1
        <5>2. stack[1].at = "after"
          BY <2>1, <2>2
        <5> QED
          BY <5>1, <5>2
      <4> QED
        BY <2>5, <3>1, <4>1 DEF Linked, Frames
    <3>3. w[2] = Owed(n[1], ret')
      <4>1. stack[2].pre > ret'.time => ret'.val = ""
        <5>1. stack[2].pre \in Nat /\ stack[2].pre <= Top.pre
          BY <2>2, <3>2
        <5>2. /\ ret'.time \in Nat /\ Top.pre \in Nat
              /\ ret'.time >= Top.pre \/ ret'.val = ""
          BY <2>4, <2>3
        <5>3. SUFFICES ASSUME NEW p \in Nat, NEW q \in Nat, NEW t \in Nat,
                              p <= q, t >= q
                       PROVE  ~(p > t)
          BY <5>1, <5>2, Zenon
        <5> QED
          BY <5>3
      <4>2. stack[2].todo = <<>> => Values(stack[2].todo, w[1]) = ret'.val
        BY <2>4, <2>6, ValuesAssumption
      <4> QED
        BY <2>6, <3>1, <3>2, <4>1, <4>2 DEF Owed
    <3> DEFINE v == [i \in 1..Len(n) |-> w[i + 1]]
    <3>4. \A i \in 1..Len(n) : v[i] = w[i + 1]
      OBVIOUS
    <3> HIDE DEF v
    <3>5. v[1] = Owed(n[1], ret') /\ v[Len(n)] = Value(line, before)
      <4>1. 1 + 1 = 2 /\ Len(n) \in 1..Len(n) /\ Len(n) + 1 = Len(stack)
        BY <2>7, <3>1
      <4> QED
        BY <2>6, <3>1, <3>3, <3>4, <4>1
    <3>6. ASSUME NEW i \in 2..Len(n)
          PROVE  /\ n[i].at = "sub"
                 /\ n[i].pre > 0
                 /\ n[i - 1].at # "look" => n[i].pre <= n[i - 1].pre
                 /\ v[i] = Values(n[i].todo, v[i - 1])
      <4> DEFINE j == i + 1
      <4>1. j \in 2..Len(stack) /\ n[i] = stack[j] /\ v[i] = w[j]
        BY <2>7, <3>4
      <4>2. n[i - 1] = stack[j - 1] /\ v[i - 1] = w[j - 1]
        <5>1. i - 1 \in 1..Len(n) /\ (i - 1) + 1 = j - 1
          BY <2>7
        <5> QED
          BY <2>7, <3>4, <5>1
      <4> QED
        BY <2>5, <4>1, <4>2 DEF Linked
    <3>7. Linked(n, v, ret', Value(line', before'))
      BY <2>1, <3>5, <3>6 DEF Linked
    <3>8. \E x : Linked(stack', x, ret', Value(line', before'))
      BY <2>1, <3>7 DEF n
    <3>9. CalledRight(stack'[1], ret')
      BY <2>1, <3>1, <3>2 DEF CalledRight, n
    <3>10. stack' # <<>> /\ outcome' = "running" /\ stack' \in Seq(Frames)
      BY <2>1, <2>7, <2>9 DEF n
    <3>11. line' \in Phrases \ {<<>>} /\ before' \in Results
      BY <2>1 DEF ResultInv
    <3> QED
      BY <2>4, <3>8, <3>9, <3>10, <3>11 DEF ResultInv, ResultIsLast
  <2> QED
    BY <2>8, <2>9
<1>18. CASE ResetThrows
  <2>1. stack' = <<>> /\ outcome' = "ended"
    BY <1>18 DEF ResetThrows
  <2> QED
    BY <2>1 DEF ResultInv, ResultIsLast
<1> QED
  BY <1>3, <1>4, <1>5, <1>8, <1>9, <1>12, <1>13, <1>14, <1>15, <1>16, <1>17, <1>18
     DEF Step, LookUpThrows

LEMMA ResultInvariant == CommandsSpec => []ResultInv
<1>1. CommandsInit => ResultInv
  <2> SUFFICES ASSUME CommandsInit
               PROVE  ResultInv
    OBVIOUS
  <2>1. stack = <<>> /\ outcome = "ready" /\ ret.val \in Results
    BY DEF CommandsInit
  <2> QED
    BY <2>1 DEF ResultInv, ResultIsLast
<1>2. TypeOK /\ OwnCommands /\ CommandsInv /\ ResultInv /\ [CommandsNext]_vars => ResultInv'
  <2> SUFFICES ASSUME TypeOK, OwnCommands, CommandsInv, ResultInv, [CommandsNext]_vars
               PROVE  ResultInv'
    OBVIOUS
  <2>1. CASE UNCHANGED interpreterVars
    BY <2>1 DEF ResultInv, ResultIsLast, Linked, interpreterVars
  <2>2. CASE Step
    BY <2>2, StepKeepsResult
  <2> QED
    BY <2>1, <2>2 DEF CommandsNext, UserStep, vars
<1> QED
  BY <1>1, <1>2, TypeCorrect, OwnCommandsInvariant, CommandsAreModules,
     CommandsInvariant, PTL DEF CommandsSpec

\* A line that is executed to its end leaves in "_" what it means: the result
\* of the last command that serial and repeat executed in it, however deep they
\* nest and whatever modules come and go meanwhile.
THEOREM ResultOfLast == CommandsSpec => []ResultIsLast
<1>1. ResultInv => ResultIsLast
  BY DEF ResultInv
<1> QED
  BY <1>1, ResultInvariant, PTL
=============================================================================

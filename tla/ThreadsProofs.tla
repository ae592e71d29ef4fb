--------------------------- MODULE ThreadsProofs ---------------------------
(***************************************************************************)
(* Theorems about Threads for any sets of threads and of names.            *)
(***************************************************************************)
EXTENDS Threads, TLAPS

USE ThreadsAssumption, WaitAssumption, SuffixAssumption, NoneAssumption

\* The candidates unique_thread_key goes through are keys: the name itself, and
\* the next suffix.
LEMMA Candidates ==
    /\ \A h \in Hints : <<h, 0>> \in Keys
    /\ \A k \in Keys : k[2] < MaxSuffix => <<k[1], k[2] + 1>> \in Keys
<1>1. 0 \in 0..MaxSuffix /\ \A i \in 0..MaxSuffix : i < MaxSuffix => i + 1 \in 0..MaxSuffix
  OBVIOUS
<1>2. \A k \in Keys : k[1] \in Hints /\ k[2] \in 0..MaxSuffix
  BY Z3 DEF Keys
<1>3. QED
  BY <1>1, <1>2, Zenon DEF Keys

\* Every variable keeps its type, whoever starts or interrupts threads.
THEOREM TypeCorrect == Spec => []TypeOK
<1>1. Init => TypeOK
  <2> SUFFICES ASSUME Init PROVE TypeOK
    OBVIOUS
  <2>1. pc \in [Tids -> Labels]
    BY DEF Init, Labels
  <2>2. \A t \in Tids : pc[t] \notin Starting \cup Removing
    BY DEF Init, Starting, Removing
  <2>3. QED
    BY <2>1, <2>2 DEF Init, TypeOK
<1>2. TypeOK /\ [Next]_vars => TypeOK'
  <2> SUFFICES ASSUME TypeOK, [Next]_vars PROVE TypeOK'
    OBVIOUS
  <2> USE DEF TypeOK, Labels, Tids, At, Goto, Abort, locals, shutdown
  <2>1. ASSUME NEW t \in Tids, HasThread(t) PROVE TypeOK'
    BY <2>1 DEF HasThread, Starting, Removing
  <2>2. ASSUME NEW t \in Tids, InterruptPeer(t) PROVE TypeOK'
    BY <2>2 DEF InterruptPeer, Starting, Removing
  <2>3. ASSUME NEW t \in Tids, PeerGone(t) PROVE TypeOK'
    BY <2>3 DEF PeerGone, Starting, Removing
  <2>4. ASSUME NEW t \in Tids, PeerIsCaller(t) PROVE TypeOK'
    BY <2>4 DEF PeerIsCaller, Starting, Removing
  <2>5. ASSUME NEW t \in Tids, Join(t) PROVE TypeOK'
    BY <2>5 DEF Join, Starting, Removing
  <2>6. ASSUME NEW t \in Tids, UniqueKey(t) PROVE TypeOK'
    <3>1. key[t] \in Keys
      BY <2>6 DEF UniqueKey, Starting
    <3>2. key[t][2] < MaxSuffix => <<key[t][1], key[t][2] + 1>> \in Keys
      BY <3>1, Candidates, Zenon
    <3>3. CASE threads[key[t]] = None
      BY <2>6, <3>1, <3>3, ZenonT(30) DEF UniqueKey, Starting, Removing
    <3>4. CASE threads[key[t]] # None
      <4>1. /\ key' = [key EXCEPT ![t] = <<key[t][1], key[t][2] + 1>>]
            /\ <<key[t][1], key[t][2] + 1>> \in Keys
        BY <2>6, <3>2, <3>4 DEF UniqueKey
      <4>2. UNCHANGED <<threads, pc, peer, child, interrupted, todo, waiting, crash>>
        BY <2>6, <3>4 DEF UniqueKey
      <4>3. key' \in [Tids -> Keys \cup {None}]
        BY <4>1, Zenon
      <4>4. \A u \in Tids : key[u] \in Keys => key'[u] \in Keys
        BY <4>1, Zenon
      <4>5. QED
        BY <4>2, <4>3, <4>4, Zenon
    <3>5. QED
      BY <3>3, <3>4
  <2>7. ASSUME NEW t \in Tids, Create(t) PROVE TypeOK'
    <3>1. PICK w \in Workers : /\ pc[w] = "unborn"
                               /\ child' = [child EXCEPT ![t] = w]
                               /\ pc' = [pc EXCEPT ![w] = "init"]
      BY <2>7 DEF Create
    <3>2. UNCHANGED <<threads, key, peer, interrupted, todo, waiting, crash>>
      BY <2>7 DEF Create
    <3>3. QED
      BY <3>1, <3>2 DEF Starting, Removing
  <2>7a. ASSUME NEW t \in Tids, CreateFails(t) PROVE TypeOK'
    BY <2>7a DEF CreateFails
  <2>8. ASSUME NEW t \in Tids, CheckKey(t) PROVE TypeOK'
    BY <2>8 DEF CheckKey, Starting, Removing
  <2>9. ASSUME NEW t \in Tids, Evict(t) PROVE TypeOK'
    <3>1. CASE threads[key[t]] = None
      BY <2>9, <3>1 DEF Evict
    <3>2. CASE threads[key[t]] # None
      <4>1. key[t] \in Keys /\ threads[key[t]] \in Workers
        BY <2>9, <3>2 DEF Evict, Starting, Removing
      <4>2. /\ pc' = [pc EXCEPT ![t] = IF pc[t] = "evict" THEN "put" ELSE "erase"]
            /\ interrupted' = interrupted \cup {threads[key[t]]}
            /\ UNCHANGED <<threads, locals, shutdown, crash>>
        BY <2>9, <3>2 DEF Evict
      <4>3. QED
        BY <4>1, <4>2 DEF Starting, Removing
    <3>3. QED
      BY <3>1, <3>2
  <2>10. ASSUME NEW t \in Tids, Put(t) PROVE TypeOK'
    BY <2>10 DEF Put, Starting, Removing
  <2>11. ASSUME NEW t \in Tids, RunInit(t) PROVE TypeOK'
    BY <2>11 DEF RunInit, Starting, Removing
  <2>12. ASSUME NEW t \in Tids, RunCommand(t) PROVE TypeOK'
    BY <2>12 DEF RunCommand, Starting, Removing
  <2>13. ASSUME NEW t \in Tids, ReadOwnKey(t) PROVE TypeOK'
    <3>1. ASSUME NEW k \in KeysOf(t), key' = [key EXCEPT ![t] = k], Goto(t, "erase")
          PROVE TypeOK'
      BY <2>13, <3>1 DEF ReadOwnKey, KeysOf, Starting, Removing
    <3>2. ASSUME Goto(t, "final"), UNCHANGED key PROVE TypeOK'
      BY <2>13, <3>2 DEF ReadOwnKey, Starting, Removing
    <3>3. QED
      BY <2>13, <3>1, <3>2 DEF ReadOwnKey
  <2>14. ASSUME NEW t \in Tids, Erase(t) PROVE TypeOK'
    BY <2>14 DEF Erase, Starting, Removing
  <2>15. ASSUME NEW t \in Tids, Finish(t) PROVE TypeOK'
    BY <2>15 DEF Finish, Starting, Removing
  <2>16. ASSUME NEW t \in Tids, InterruptedInCommand(t) PROVE TypeOK'
    BY <2>16 DEF InterruptedInCommand, Starting, Removing
  <2>17. ASSUME NEW t \in Tids, InterruptedAtStart(t) PROVE TypeOK'
    BY <2>17 DEF InterruptedAtStart, Starting, Removing
  <2>18. ASSUME NEW t \in Tids, InterruptedInDestructor(t) PROVE TypeOK'
    BY <2>18 DEF InterruptedInDestructor, Starting, Removing
  <2>19. ASSUME NEW t \in Tids, NEW h \in Hints, NEW wait \in WaitModes,
                StartThread(t, h, wait)
         PROVE TypeOK'
    <3>1. <<h, 0>> \in Keys
      BY Candidates, Zenon
    <3>2. QED
      BY <2>19, <3>1 DEF StartThread, Starting, Removing
  <2>20. ASSUME NEW t \in Tids, NEW k \in Keys, Interrupt(t, k) PROVE TypeOK'
    BY <2>20 DEF Interrupt
  <2>21. ASSUME NEW w \in Workers, EndCommand(w) PROVE TypeOK'
    BY <2>21 DEF EndCommand, Starting, Removing
  <2>22. CASE FinalThreads
    BY <2>22 DEF FinalThreads, Starting, Removing
  <2>23. CASE RemoveNext
    <3>1. PICK k \in todo : /\ key' = [key EXCEPT ![Main] = k]
                            /\ todo' = todo \ {k}
      BY <2>23 DEF RemoveNext
    <3>2. k \in Keys
      OBVIOUS
    <3>3. QED
      BY <2>23, <3>1, <3>2 DEF RemoveNext, Starting, Removing
  <2>24. CASE CheckRemove
    BY <2>24 DEF CheckRemove, Starting, Removing
  <2>25. CASE CopyThreads
    BY <2>25 DEF CopyThreads, Starting, Removing
  <2>26. CASE JoinNext
    BY <2>26 DEF JoinNext, Starting, Removing
  <2>27. CASE Exit
    BY <2>27 DEF Exit, Starting, Removing
  <2>28. CASE UNCHANGED vars
    BY <2>28 DEF vars
  <2>29. QED
    BY <2>1, <2>2, <2>3, <2>4, <2>5, <2>6, <2>7, <2>7a, <2>8, <2>9, <2>10, <2>11, <2>12, <2>13, <2>14, <2>15, <2>16, <2>17, <2>18, <2>19, <2>20, <2>21, <2>22, <2>23, <2>24, <2>25, <2>26, <2>27, <2>28 DEF Next, Proceed, Shutdown
<1>3. QED
  BY <1>1, <1>2, PTL DEF Spec

-----------------------------------------------------------------------------
\* Once main is leaving it does nothing else.
LEMMA ExitStays == TypeOK /\ Exiting /\ [Next]_vars => Exiting'
<1> SUFFICES ASSUME TypeOK, Exiting, [Next]_vars PROVE Exiting'
  OBVIOUS
<1> USE DEF TypeOK, Exiting, Removing, At, Goto, Abort, Tids
<1>1. ASSUME NEW t \in Tids, Proceed(t) PROVE Exiting'
  BY <1>1 DEF Proceed, HasThread, InterruptPeer, PeerGone, PeerIsCaller, Join,
     UniqueKey, Create, CreateFails, CheckKey, Evict, Put, RunInit, RunCommand, ReadOwnKey,
     Erase, Finish, InterruptedInCommand, InterruptedAtStart,
     InterruptedInDestructor, Starting
<1>2. ASSUME NEW t \in Tids, NEW h \in Hints, NEW wait \in WaitModes,
             StartThread(t, h, wait)
      PROVE Exiting'
  BY <1>2 DEF StartThread
<1>3. ASSUME NEW t \in Tids, NEW k \in Keys, Interrupt(t, k) PROVE Exiting'
  BY <1>3 DEF Interrupt
<1>4. ASSUME NEW w \in Workers, EndCommand(w) PROVE Exiting'
  BY <1>4 DEF EndCommand
<1>5. CASE FinalThreads
  BY <1>5 DEF FinalThreads
<1>6. CASE Shutdown
  BY <1>6 DEF Shutdown, RemoveNext, CheckRemove, CopyThreads, JoinNext, Exit
<1>7. CASE UNCHANGED vars
  BY <1>7 DEF vars
<1>8. QED
  BY <1>1, <1>2, <1>3, <1>4, <1>5, <1>6, <1>7 DEF Next

\* Only the main thread starts threads, and no thread interrupts one by command.
OneStarter == Starters \subseteq {Main} /\ Interrupters = {}

\* Until main leaves, it is in its command or in start_thread.
Places ==
    /\ pc[Main] \in {"run"} \cup Starting
    /\ \A w \in Workers :
         pc[w] \in {"unborn", "init", "feedback", "run", "leave", "erase", "final", "done"}
    /\ pc[Main] = "run" => child[Main] = None

\* The only living thread that is interrupted is the one main waits for.
Interruptions ==
    /\ \A w \in interrupted : pc[w] = "done" \/ (pc[Main] = "join" /\ peer[Main] = w)
    /\ pc[Main] = "join" =>
         peer[Main] \in Workers /\ threads[key[Main]] \in {None, peer[Main]}

\* The key main is about to write belongs to no living thread.
Free ==
    pc[Main] \in {"chosen", "evict", "put"} =>
        threads[key[Main]] = None \/ pc[threads[key[Main]]] = "done"

\* A thread that is about to erase an entry owns it.
Owners == \A w \in Workers : pc[w] = "erase" => threads[key[w]] = w

\* A thread that runs is in the map, or main is about to enter it.
Covered ==
    \A w \in Workers :
        pc[w] \in {"init", "feedback", "run"} => child[Main] = w \/ Registered(w)

Quiet == ~Exiting => Places /\ Interruptions /\ Free /\ Owners /\ Covered

LEMMA QuietInvariant ==
  ASSUME OneStarter
  PROVE Spec => [](TypeOK /\ Quiet)
<1>1. Init => Quiet
  BY DEF Init, Quiet, Exiting, Tids, Places, Interruptions, Free, Owners, Covered
<1>2. TypeOK /\ TypeOK' /\ Quiet /\ [Next]_vars => Quiet'
  <2> SUFFICES ASSUME TypeOK, TypeOK', [Next]_vars, ~Exiting, ~Exiting',
                      Places, Interruptions, Free, Owners, Covered
               PROVE Places' /\ Interruptions' /\ Free' /\ Owners' /\ Covered'
    BY ExitStays DEF Quiet
  <2>t. /\ threads \in [Keys -> Workers \cup {None}]
        /\ pc \in [Tids -> Labels]
        /\ key \in [Tids -> Keys \cup {None}]
        /\ peer \in [Tids -> Workers \cup {None}]
        /\ child \in [Tids -> Workers \cup {None}]
        /\ interrupted \subseteq Workers
        /\ \A t \in Tids : pc[t] \in Starting \cup Removing => key[t] \in Keys
        /\ None \notin Keys /\ None \notin Workers
    BY DEF TypeOK, Tids
  <2> USE <2>t DEF Tids, Exiting, Starting, Removing, At, Goto, Abort,
                   locals, shutdown, Places
  <2>1. ASSUME NEW t \in Tids, HasThread(t)
         PROVE Places' /\ Interruptions' /\ Free' /\ Owners' /\ Covered'
    <3>1. Places'
      BY <2>1 DEF HasThread
    <3>2. Interruptions'
      BY <2>1 DEF HasThread, Interruptions
    <3>3. Free'
      BY <2>1 DEF HasThread, Free
    <3>4. Owners'
      BY <2>1 DEF HasThread, Owners
    <3>5. Covered'
      BY <2>1 DEF HasThread, Covered, Registered
    <3>6. QED
      BY <3>1, <3>2, <3>3, <3>4, <3>5
  <2>2. ASSUME NEW t \in Tids, InterruptPeer(t)
         PROVE Places' /\ Interruptions' /\ Free' /\ Owners' /\ Covered'
    <3>1. Places'
      BY <2>2 DEF InterruptPeer
    <3>2. Interruptions'
      BY <2>2 DEF InterruptPeer, Interruptions
    <3>3. Free'
      BY <2>2 DEF InterruptPeer, Free
    <3>4. Owners'
      BY <2>2 DEF InterruptPeer, Owners
    <3>5. Covered'
      BY <2>2 DEF InterruptPeer, Covered, Registered
    <3>6. QED
      BY <3>1, <3>2, <3>3, <3>4, <3>5
  <2>3. ASSUME NEW t \in Tids, PeerGone(t)
         PROVE Places' /\ Interruptions' /\ Free' /\ Owners' /\ Covered'
    <3>1. Places'
      BY <2>3 DEF PeerGone
    <3>2. Interruptions'
      BY <2>3 DEF PeerGone, Interruptions
    <3>3. Free'
      BY <2>3 DEF PeerGone, Free
    <3>4. Owners'
      BY <2>3 DEF PeerGone, Owners
    <3>5. Covered'
      BY <2>3 DEF PeerGone, Covered, Registered
    <3>6. QED
      BY <3>1, <3>2, <3>3, <3>4, <3>5
  <2>4. ASSUME NEW t \in Tids, PeerIsCaller(t)
         PROVE Places' /\ Interruptions' /\ Free' /\ Owners' /\ Covered'
    <3>1. Places'
      BY <2>4 DEF PeerIsCaller
    <3>2. Interruptions'
      BY <2>4 DEF PeerIsCaller, Interruptions
    <3>3. Free'
      BY <2>4 DEF PeerIsCaller, Free
    <3>4. Owners'
      BY <2>4 DEF PeerIsCaller, Owners
    <3>5. Covered'
      BY <2>4 DEF PeerIsCaller, Covered, Registered
    <3>6. QED
      BY <3>1, <3>2, <3>3, <3>4, <3>5
  <2>5. ASSUME NEW t \in Tids, Join(t)
         PROVE Places' /\ Interruptions' /\ Free' /\ Owners' /\ Covered'
    <3>1. Places'
      BY <2>5 DEF Join
    <3>2. Interruptions'
      BY <2>5 DEF Join, Interruptions
    <3>3. Free'
      BY <2>5 DEF Join, Interruptions, Free
    <3>4. Owners'
      BY <2>5 DEF Join, Owners
    <3>5. Covered'
      BY <2>5 DEF Join, Covered, Registered
    <3>6. QED
      BY <3>1, <3>2, <3>3, <3>4, <3>5
  <2>6. ASSUME NEW t \in Tids, UniqueKey(t)
         PROVE Places' /\ Interruptions' /\ Free' /\ Owners' /\ Covered'
    <3>1. Places'
      BY <2>6 DEF UniqueKey
    <3>2. Interruptions'
      BY <2>6 DEF UniqueKey, Interruptions
    <3>3. Free'
      BY <2>6 DEF UniqueKey, Free
    <3>4. Owners'
      BY <2>6 DEF UniqueKey, Owners
    <3>5. Covered'
      BY <2>6 DEF UniqueKey, Covered, Registered
    <3>6. QED
      BY <3>1, <3>2, <3>3, <3>4, <3>5
  <2>7. ASSUME NEW t \in Tids, Create(t)
         PROVE Places' /\ Interruptions' /\ Free' /\ Owners' /\ Covered'
    <3>1. PICK w \in Workers : /\ t = Main /\ pc[w] = "unborn"
                               /\ child[Main] = None
                               /\ child' = [child EXCEPT ![Main] = w]
                               /\ pc' = [pc EXCEPT ![w] = "init"]
                               /\ UNCHANGED <<threads, key, peer, interrupted>>
      BY <2>7 DEF Create
    <3>2. Places'
      BY <2>7, <3>1 DEF Create
    <3>3. Interruptions'
      BY <3>1 DEF Interruptions
    <3>4. Free'
      BY <3>1 DEF Free
    <3>5. Owners'
      BY <3>1 DEF Owners
    <3>6. Covered'
      BY <3>1 DEF Covered, Registered
    <3>7. QED
      BY <3>2, <3>3, <3>4, <3>5, <3>6
  <2>7a. ASSUME NEW t \in Tids, CreateFails(t)
         PROVE Places' /\ Interruptions' /\ Free' /\ Owners' /\ Covered'
    BY <2>7a DEF CreateFails
  <2>8. ASSUME NEW t \in Tids, CheckKey(t)
         PROVE Places' /\ Interruptions' /\ Free' /\ Owners' /\ Covered'
    <3>1. Places'
      BY <2>8 DEF CheckKey
    <3>2. Interruptions'
      BY <2>8 DEF CheckKey, Interruptions
    <3>3. Free'
      BY <2>8 DEF CheckKey, Free
    <3>4. Owners'
      BY <2>8 DEF CheckKey, Owners
    <3>5. Covered'
      BY <2>8 DEF CheckKey, Covered, Registered
    <3>6. QED
      BY <3>1, <3>2, <3>3, <3>4, <3>5
  <2>9. ASSUME NEW t \in Tids, Evict(t)
         PROVE Places' /\ Interruptions' /\ Free' /\ Owners' /\ Covered'
    <3>1. Places'
      BY <2>9 DEF Evict
    <3>2. Interruptions'
      <4>1. t = Main /\ pc[Main] = "evict"
        BY <2>9 DEF Evict
      <4>2. UNCHANGED <<threads, key, peer>>
        BY <2>9 DEF Evict
      <4>3. CASE threads[key[Main]] = None
        <5>1. UNCHANGED <<threads, pc, key, peer, interrupted>>
          BY <2>9, <4>1, <4>3 DEF Evict
        <5>2. QED
          BY <5>1 DEF Interruptions
      <4>4. CASE threads[key[Main]] # None
        <5>1. pc' = [pc EXCEPT ![Main] = "put"]
          BY <2>9, <4>1, <4>4 DEF Evict
        <5>2. interrupted' = interrupted \cup {threads[key[Main]]}
          BY <2>9, <4>1, <4>4 DEF Evict
        <5>3. pc[threads[key[Main]]] = "done"
          BY <4>1, <4>4 DEF Free
        <5>4. \A w \in interrupted : pc[w] = "done"
          BY <4>1 DEF Interruptions
        <5>5. QED
          BY <5>1, <5>2, <5>3, <5>4, <4>1, <4>2 DEF Interruptions
      <4>5. QED
        BY <4>3, <4>4
    <3>3. Free'
      <4>1. t = Main /\ pc[Main] = "evict" /\ key[Main] \in Keys
        BY <2>9 DEF Evict
      <4>2. UNCHANGED <<threads, key>>
        BY <2>9 DEF Evict
      <4>3. pc' = pc \/ pc' = [pc EXCEPT ![Main] = "put"]
        BY <2>9, <4>1 DEF Evict
      <4>4. threads[key[Main]] = None \/ pc[threads[key[Main]]] = "done"
        BY <4>1 DEF Free
      <4>5. QED
        BY <4>1, <4>2, <4>3, <4>4 DEF Free
    <3>4. Owners'
      BY <2>9 DEF Evict, Owners
    <3>5. Covered'
      <4>1. t = Main
        BY <2>9 DEF Evict
      <4>2. UNCHANGED <<threads, child>> /\ \A w \in Workers : pc'[w] = pc[w]
        BY <2>9, <4>1 DEF Evict
      <4>3. QED
        BY <4>2 DEF Covered, Registered
    <3>6. QED
      BY <3>1, <3>2, <3>3, <3>4, <3>5
  <2>10. ASSUME NEW t \in Tids, Put(t)
         PROVE Places' /\ Interruptions' /\ Free' /\ Owners' /\ Covered'
    <3>1. Places'
      BY <2>10 DEF Put
    <3>2. Interruptions'
      BY <2>10 DEF Put, Interruptions
    <3>3. Free'
      BY <2>10 DEF Put, Free
    <3> t = Main /\ pc[Main] = "put" /\ key[Main] \in Keys
      BY <2>10 DEF Put
    <3>m. /\ threads' = [threads EXCEPT ![key[Main]] = child[Main]]
          /\ \A w \in Workers : pc'[w] = pc[w] /\ key'[w] = key[w]
      BY <2>10 DEF Put
    <3>4. Owners'
      <4> SUFFICES ASSUME NEW w \in Workers, pc[w] = "erase"
                   PROVE threads'[key[w]] = w
        BY <3>m DEF Owners
      <4>1. threads[key[w]] = w /\ key[w] \in Keys
        BY DEF Owners
      <4>2. key[w] # key[Main]
        BY <4>1 DEF Free
      <4>3. QED
        BY <3>m, <4>1, <4>2
    <3>5. Covered'
      <4> SUFFICES ASSUME NEW w \in Workers, pc[w] \in {"init", "feedback", "run"}
                   PROVE \E k \in Keys : threads'[k] = w
        BY <3>m DEF Covered, Registered
      <4>1. CASE child[Main] = w
        BY <4>1, <3>m
      <4>2. CASE child[Main] # w
        <5>1. PICK k \in Keys : threads[k] = w
          BY <4>2 DEF Covered, Registered
        <5>2. k # key[Main]
          BY <5>1 DEF Free
        <5>3. QED
          BY <5>1, <5>2, <3>m
      <4>3. QED
        BY <4>1, <4>2
    <3>6. QED
      BY <3>1, <3>2, <3>3, <3>4, <3>5
  <2>11. ASSUME NEW t \in Tids, RunInit(t)
         PROVE Places' /\ Interruptions' /\ Free' /\ Owners' /\ Covered'
    <3>1. Places'
      BY <2>11 DEF RunInit
    <3>2. Interruptions'
      BY <2>11 DEF RunInit, Interruptions
    <3>3. Free'
      BY <2>11 DEF RunInit, Free
    <3>4. Owners'
      BY <2>11 DEF RunInit, Owners
    <3>5. Covered'
      BY <2>11 DEF RunInit, Covered, Registered
    <3>6. QED
      BY <3>1, <3>2, <3>3, <3>4, <3>5
  <2>12. ASSUME NEW t \in Tids, RunCommand(t)
         PROVE Places' /\ Interruptions' /\ Free' /\ Owners' /\ Covered'
    <3>1. Places'
      BY <2>12 DEF RunCommand
    <3>2. Interruptions'
      BY <2>12 DEF RunCommand, Interruptions
    <3>3. Free'
      BY <2>12 DEF RunCommand, Free
    <3>4. Owners'
      BY <2>12 DEF RunCommand, Owners
    <3>5. Covered'
      BY <2>12 DEF RunCommand, Covered, Registered
    <3>6. QED
      BY <3>1, <3>2, <3>3, <3>4, <3>5
  <2>13. ASSUME NEW t \in Tids, ReadOwnKey(t)
         PROVE Places' /\ Interruptions' /\ Free' /\ Owners' /\ Covered'
    <3>1. Places'
      BY <2>13 DEF ReadOwnKey, KeysOf
    <3>2. Interruptions'
      BY <2>13 DEF ReadOwnKey, KeysOf, Interruptions
    <3>3. Free'
      BY <2>13 DEF ReadOwnKey, KeysOf, Free
    <3>4. Owners'
      BY <2>13 DEF ReadOwnKey, KeysOf, Owners
    <3>5. Covered'
      BY <2>13 DEF ReadOwnKey, KeysOf, Covered, Registered
    <3>6. QED
      BY <3>1, <3>2, <3>3, <3>4, <3>5
  <2>14. ASSUME NEW t \in Tids, Erase(t)
         PROVE Places' /\ Interruptions' /\ Free' /\ Owners' /\ Covered'
    <3>1. Places'
      BY <2>14 DEF Erase
    <3>2. Interruptions'
      BY <2>14 DEF Erase, Interruptions
    <3>3. Free'
      BY <2>14 DEF Erase, Free
    <3>4. Owners'
      BY <2>14 DEF Erase, Owners
    <3>5. Covered'
      <4>1. t \in Workers /\ threads[key[t]] = t /\ key[t] \in Keys
        BY <2>14 DEF Erase, Owners
      <4>2. threads' = [threads EXCEPT ![key[t]] = None] /\ child' = child
        BY <2>14 DEF Erase
      <4>3. \A w \in Workers : pc'[w] \in {"init", "feedback", "run"} => w # t /\ pc'[w] = pc[w]
        BY <2>14, <4>1 DEF Erase
      <4>4. \A w \in Workers : w # t /\ Registered(w) => Registered(w)'
        BY <4>1, <4>2 DEF Registered
      <4>5. QED
        BY <4>2, <4>3, <4>4 DEF Covered
    <3>6. QED
      BY <3>1, <3>2, <3>3, <3>4, <3>5
  <2>15. ASSUME NEW t \in Tids, Finish(t)
         PROVE Places' /\ Interruptions' /\ Free' /\ Owners' /\ Covered'
    <3>1. Places'
      BY <2>15 DEF Finish
    <3>2. Interruptions'
      BY <2>15 DEF Finish, Interruptions
    <3>3. Free'
      BY <2>15 DEF Finish, Free
    <3>4. Owners'
      BY <2>15 DEF Finish, Owners
    <3>5. Covered'
      BY <2>15 DEF Finish, Covered, Registered
    <3>6. QED
      BY <3>1, <3>2, <3>3, <3>4, <3>5
  <2>16. ASSUME NEW t \in Tids, InterruptedInCommand(t)
         PROVE Places' /\ Interruptions' /\ Free' /\ Owners' /\ Covered'
    <3>1. Places'
      BY <2>16 DEF InterruptedInCommand
    <3>2. Interruptions'
      BY <2>16 DEF InterruptedInCommand, Interruptions
    <3>3. Free'
      BY <2>16 DEF InterruptedInCommand, Free
    <3>4. Owners'
      BY <2>16 DEF InterruptedInCommand, Owners
    <3>5. Covered'
      BY <2>16 DEF InterruptedInCommand, Covered, Registered
    <3>6. QED
      BY <3>1, <3>2, <3>3, <3>4, <3>5
  <2>17. ASSUME NEW t \in Tids, InterruptedAtStart(t)
         PROVE Places' /\ Interruptions' /\ Free' /\ Owners' /\ Covered'
    <3>1. Places'
      BY <2>17 DEF InterruptedAtStart
    <3>2. Interruptions'
      BY <2>17 DEF InterruptedAtStart, Interruptions
    <3>3. Free'
      BY <2>17 DEF InterruptedAtStart, Free
    <3>4. Owners'
      BY <2>17 DEF InterruptedAtStart, Owners
    <3>5. Covered'
      BY <2>17 DEF InterruptedAtStart, Covered, Registered
    <3>6. QED
      BY <3>1, <3>2, <3>3, <3>4, <3>5
  <2>18. ASSUME NEW t \in Tids, InterruptedInDestructor(t)
         PROVE Places' /\ Interruptions' /\ Free' /\ Owners' /\ Covered'
    <3>1. Places'
      BY <2>18 DEF InterruptedInDestructor
    <3>2. Interruptions'
      BY <2>18 DEF InterruptedInDestructor, Interruptions
    <3>3. Free'
      BY <2>18 DEF InterruptedInDestructor, Free
    <3>4. Owners'
      BY <2>18 DEF InterruptedInDestructor, Owners
    <3>5. Covered'
      BY <2>18 DEF InterruptedInDestructor, Covered, Registered
    <3>6. QED
      BY <3>1, <3>2, <3>3, <3>4, <3>5
  <2>19. ASSUME NEW t \in Tids, NEW h \in Hints, NEW wait \in WaitModes,
                StartThread(t, h, wait)
         PROVE Places' /\ Interruptions' /\ Free' /\ Owners' /\ Covered'
    <3>1. Places'
      BY <2>19, OneStarter DEF StartThread, OneStarter
    <3>2. Interruptions'
      BY <2>19, OneStarter DEF StartThread, OneStarter, Interruptions
    <3>3. Free'
      BY <2>19, OneStarter DEF StartThread, OneStarter, Free
    <3>4. Owners'
      BY <2>19, OneStarter DEF StartThread, OneStarter, Owners
    <3>5. Covered'
      BY <2>19, OneStarter DEF StartThread, OneStarter, Covered, Registered
    <3>6. QED
      BY <3>1, <3>2, <3>3, <3>4, <3>5
  <2>20. ASSUME NEW t \in Tids, NEW k \in Keys, Interrupt(t, k)
         PROVE Places' /\ Interruptions' /\ Free' /\ Owners' /\ Covered'
    <3>1. Places'
      BY <2>20, OneStarter DEF Interrupt, OneStarter
    <3>2. Interruptions'
      BY <2>20, OneStarter DEF Interrupt, OneStarter, Interruptions
    <3>3. Free'
      BY <2>20, OneStarter DEF Interrupt, OneStarter, Free
    <3>4. Owners'
      BY <2>20, OneStarter DEF Interrupt, OneStarter, Owners
    <3>5. Covered'
      BY <2>20, OneStarter DEF Interrupt, OneStarter, Covered, Registered
    <3>6. QED
      BY <3>1, <3>2, <3>3, <3>4, <3>5
  <2>21. ASSUME NEW w \in Workers, EndCommand(w)
         PROVE Places' /\ Interruptions' /\ Free' /\ Owners' /\ Covered'
    <3>1. Places'
      BY <2>21 DEF EndCommand
    <3>2. Interruptions'
      BY <2>21 DEF EndCommand, Interruptions
    <3>3. Free'
      BY <2>21 DEF EndCommand, Free
    <3>4. Owners'
      BY <2>21 DEF EndCommand, Owners
    <3>5. Covered'
      BY <2>21 DEF EndCommand, Covered, Registered
    <3>6. QED
      BY <3>1, <3>2, <3>3, <3>4, <3>5
  <2>22. CASE FinalThreads
    BY <2>22 DEF FinalThreads
  <2>23. CASE Shutdown
    BY <2>23 DEF Shutdown, RemoveNext, CheckRemove, CopyThreads, JoinNext, Exit
  <2>24. CASE UNCHANGED vars
    BY <2>24 DEF vars, Interruptions, Free, Owners, Covered, Registered
  <2>25. QED
    BY <2>1, <2>2, <2>3, <2>4, <2>5, <2>6, <2>7, <2>7a, <2>8, <2>9, <2>10, <2>11, <2>12, <2>13, <2>14, <2>15, <2>16, <2>17, <2>18, <2>19, <2>20, <2>21, <2>22, <2>23, <2>24 DEF Next, Proceed
<1>3. QED
  BY <1>1, <1>2, TypeCorrect, PTL DEF Spec

\* start_thread interrupts no living thread but the one it waits for, for any
\* number of threads and names, with or without the wait flag.
THEOREM Undisturbed ==
  ASSUME OneStarter
  PROVE Spec => []UndisturbedUntilExit
<1>1. Quiet => UndisturbedUntilExit
  BY DEF Quiet, Interruptions, UndisturbedUntilExit, Tids
<1>2. QED
  BY <1>1, QuietInvariant, PTL

\* The key that start_thread writes belongs to no living thread.
THEOREM KeyFree ==
  ASSUME OneStarter
  PROVE Spec => [](~Exiting => KeyIsFree)
<1>1. Quiet => (~Exiting => KeyIsFree)
  BY DEF Quiet, Places, Free, KeyIsFree, Tids
<1>2. QED
  BY <1>1, QuietInvariant, PTL

\* A thread whose start_thread has returned is listed while its command runs.
THEOREM Listed ==
  ASSUME OneStarter
  PROVE Spec => []RunningIsListed
<1>1. Quiet => RunningIsListed
  BY DEF Quiet, Covered, RunningIsListed, Tids
<1>2. QED
  BY <1>1, QuietInvariant, PTL

\* The thread whose entry main is about to overwrite is over and keeps its entry:
\* only threads that have not ended erase, and each its own.
Evictable == ~Exiting /\ pc[Main] = "evict" => threads[key[Main]] # None

LEMMA EvictableInvariant ==
  ASSUME OneStarter
  PROVE Spec => []Evictable
<1>1. Init => Evictable
  BY DEF Init, Evictable, Tids
<1>2. TypeOK /\ Quiet /\ Evictable /\ [Next]_vars => Evictable'
  <2> SUFFICES ASSUME TypeOK, Quiet, Evictable, [Next]_vars,
                      ~Exiting', pc'[Main] = "evict"
               PROVE  threads'[key'[Main]] # None
    BY DEF Evictable
  <2>1. ~Exiting /\ Places /\ Free /\ Owners
    BY ExitStays DEF Quiet
  <2>2. /\ threads \in [Keys -> Workers \cup {None}] /\ pc \in [Tids -> Labels]
        /\ key \in [Tids -> Keys \cup {None}] /\ Main \in Tids /\ Main \notin Workers
        /\ \A t \in Tids : pc[t] \in Starting \cup Removing => key[t] \in Keys
        /\ None \notin Keys /\ None \notin Workers
    BY ThreadsAssumption, NoneAssumption DEF TypeOK, Tids
  \* Main finds the entry
  <2>3. ASSUME CheckKey(Main)
        PROVE  threads'[key'[Main]] # None
    BY <2>2, <2>3 DEF CheckKey, Goto, locals
  \* and while it is about to interrupt the thread, the others go on.
  <2>4. ASSUME pc[Main] = "evict", UNCHANGED threads, key'[Main] = key[Main]
        PROVE  threads'[key'[Main]] # None
    BY <2>1, <2>4 DEF Evictable
  <2>5. ASSUME NEW w \in Workers, Erase(w)
        PROVE  threads'[key'[Main]] # None
    <3>1. pc[w] = "erase" /\ w \in Tids
      BY <2>5 DEF Erase, At, Tids
    <3>2. key[w] \in Keys /\ threads[key[w]] = w
      BY <2>1, <2>2, <3>1 DEF Owners, Removing
    <3>3. pc[Main] = "evict" /\ key'[Main] = key[Main] /\ key[Main] \in Keys
      <4>1. pc' = [pc EXCEPT ![w] = "final"] /\ key' = [key EXCEPT ![w] = None]
        BY <2>2, <2>5 DEF Erase, Goto
      <4>2. pc[Main] = "evict" /\ key'[Main] = key[Main]
        BY <2>2, <4>1
      <4> QED
        BY <2>2, <4>2 DEF Starting
    <3>4. threads[key[Main]] # None /\ pc[threads[key[Main]]] = "done"
      BY <2>1, <3>3 DEF Evictable, Free
    <3>5. key[Main] # key[w]
      BY <3>1, <3>2, <3>4
    <3>6. threads' = [threads EXCEPT ![key[w]] = None]
      BY <2>5 DEF Erase
    <3> QED
      BY <2>2, <3>3, <3>4, <3>5, <3>6
  <2>6. ASSUME NEW t \in Tids, Proceed(t), ~CheckKey(t), ~Erase(t)
        PROVE  threads'[key'[Main]] # None
    <3>1. t # Main => pc[t] \notin Starting
      BY <2>1 DEF Places, Starting, Tids
    <3>2. pc[Main] = "evict" /\ UNCHANGED threads /\ key'[Main] = key[Main]
      BY <2>1, <2>2, <2>6, <3>1
         DEF Proceed, HasThread, InterruptPeer, PeerGone, PeerIsCaller, Join, UniqueKey,
             Create, CreateFails, Evict, Put, RunInit, RunCommand, ReadOwnKey,
             Finish, InterruptedInCommand, InterruptedAtStart, InterruptedInDestructor,
             Starting, Places, At, Goto, Abort, locals, Tids
    <3> QED
      BY <2>4, <3>2
  <2>7. ASSUME NEW t \in Tids, Proceed(t)
        PROVE  threads'[key'[Main]] # None
    <3>1. CASE CheckKey(t)
      <4>1. t = Main
        BY <2>1, <3>1 DEF CheckKey, At, Places, Tids
      <4> QED
        BY <2>3, <3>1, <4>1
    <3>2. CASE Erase(t)
      <4>1. t \in Workers
        BY <2>1, <3>2 DEF Erase, At, Places, Starting, Tids
      <4> QED
        BY <2>5, <3>2, <4>1
    <3> QED
      BY <2>6, <2>7, <3>1, <3>2
  <2>8. ASSUME NEW t \in Tids, NEW h \in Hints, NEW wait \in WaitModes,
               StartThread(t, h, wait)
        PROVE  threads'[key'[Main]] # None
    <3>1. pc' = [pc EXCEPT ![t] = IF wait THEN "has" ELSE "unique"] /\ pc[t] = "run"
      BY <2>8 DEF StartThread, At, Goto
    <3>2. t # Main /\ pc[Main] = "evict"
      BY <2>2, <3>1
    <3>3. UNCHANGED threads /\ key'[Main] = key[Main]
      BY <2>2, <2>8, <3>2 DEF StartThread
    <3> QED
      BY <2>4, <3>2, <3>3
  <2>9. ASSUME NEW t \in Tids, NEW k \in Keys, Interrupt(t, k)
        PROVE  threads'[key'[Main]] # None
    BY <2>4, <2>9 DEF Interrupt, locals
  <2>10. ASSUME NEW w \in Workers, EndCommand(w)
         PROVE  threads'[key'[Main]] # None
    <3>1. pc[Main] = "evict" /\ UNCHANGED threads /\ key' = key
      BY <2>2, <2>10 DEF EndCommand, Goto, locals
    <3> QED
      BY <2>4, <3>1
  <2>11. ~FinalThreads /\ ~Shutdown
    BY <2>1, <2>2 DEF FinalThreads, Shutdown, RemoveNext, CheckRemove, CopyThreads,
       JoinNext, Exit, At, Goto, Exiting, Removing
  <2>12. CASE UNCHANGED vars
    BY <2>4, <2>12 DEF vars
  <2> QED
    BY <2>7, <2>8, <2>9, <2>10, <2>11, <2>12 DEF Next
<1> QED
  BY <1>1, <1>2, QuietInvariant, PTL DEF Spec

\* Until main leaves, only a start_thread that waits can end the process: its
\* namesake has left the map since has_thread saw it (threads.h, start_thread),
\* or is interrupted in a destructor (threads.cpp, ~thread_info).  No entry that
\* is about to be overwritten vanishes, no thread joins itself, and no thread is
\* interrupted in a destructor that nobody waits for.
THEOREM OnlyWaitsCrash ==
  ASSUME OneStarter
  PROVE Spec =>
    [][crash' # crash /\ ~Exiting =>
         \/ /\ crash' = "null thread"
            /\ pc[Main] = "peer" /\ threads[key[Main]] = None
         \/ /\ crash' = "destructor"
            /\ pc[Main] = "join"
            /\ peer[Main] \in interrupted /\ pc[peer[Main]] # "done"]_vars
<1> DEFINE Waited ==
      \/ /\ crash' = "null thread"
         /\ pc[Main] = "peer" /\ threads[key[Main]] = None
      \/ /\ crash' = "destructor"
         /\ pc[Main] = "join"
         /\ peer[Main] \in interrupted /\ pc[peer[Main]] # "done"
<1>1. TypeOK /\ Quiet /\ Evictable /\ [Next]_vars =>
        [crash' # crash /\ ~Exiting => Waited]_vars
  <2> SUFFICES ASSUME TypeOK, Quiet, Evictable, [Next]_vars, crash' # crash, ~Exiting
               PROVE  Waited
    OBVIOUS
  <2>1. Places /\ Interruptions
    BY DEF Quiet
  <2>2. \A t \in Tids : t # Main => pc[t] \notin Starting
    BY <2>1 DEF Places, Starting, Tids
  <2>3. PICK t \in Tids :
          PeerGone(t) \/ PeerIsCaller(t) \/ CreateFails(t) \/ Evict(t)
            \/ InterruptedInDestructor(t)
    <3> HIDE DEF Waited
    <3> QED
      BY DEF Next, Proceed, HasThread, InterruptPeer, Join, UniqueKey, Create, CheckKey,
         Put, RunInit, RunCommand, ReadOwnKey, Erase, Finish, InterruptedInCommand,
         InterruptedAtStart, StartThread, Interrupt, EndCommand, FinalThreads, Shutdown,
         RemoveNext, CheckRemove, CopyThreads, JoinNext, Exit, vars
  <2>4. CASE PeerGone(t)
    <3>1. t = Main
      BY <2>2, <2>4 DEF PeerGone, At, Starting
    <3> QED
      BY <2>4, <3>1 DEF PeerGone, At, Abort
  <2>5. ~PeerIsCaller(t)
    <3> SUFFICES ASSUME PeerIsCaller(t)
                 PROVE  FALSE
      OBVIOUS
    <3>1. t = Main /\ pc[Main] = "peer" /\ threads[key[Main]] = Main
      BY <2>2 DEF PeerIsCaller, At, Starting
    <3>2. key[Main] \in Keys /\ Main \notin Workers \cup {None}
      BY <3>1, ThreadsAssumption, NoneAssumption DEF TypeOK, Tids, Starting
    <3> QED
      BY <3>1, <3>2 DEF TypeOK
  <2>6. ~CreateFails(t)
    BY <2>2 DEF CreateFails, Starting
  <2>7. ~Evict(t)
    <3> SUFFICES ASSUME Evict(t)
                 PROVE  FALSE
      OBVIOUS
    <3>1. pc[t] # "interrupt"
      BY <2>1 DEF Places, Starting, Tids
    <3>2. t = Main /\ pc[Main] = "evict"
      BY <2>2, <3>1 DEF Evict, Starting
    <3>3. threads[key[t]] # None
      BY <3>2 DEF Evictable
    <3> QED
      BY <3>3 DEF Evict
  <2>8. CASE InterruptedInDestructor(t)
    <3>1. t \in interrupted /\ pc[t] # "done" /\ crash' = "destructor"
      BY <2>8 DEF InterruptedInDestructor, Abort
    <3>2. pc[Main] = "join" /\ peer[Main] = t
      BY <2>1, <3>1 DEF Interruptions
    <3> QED
      BY <3>1, <3>2
  <2> QED
    BY <2>3, <2>4, <2>5, <2>6, <2>7, <2>8
<1> QED
  BY <1>1, QuietInvariant, EvictableInvariant, PTL DEF Spec
=============================================================================

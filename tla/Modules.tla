------------------------------ MODULE Modules ------------------------------
(***************************************************************************)
(* src/mkt/modules.cpp and the command map of src/mkt/commands.cpp: the    *)
(* threads that import and expunge modules.  Each region under             *)
(* _modules_mutex or _commands_lock is one action, so is each call of the  *)
(* dynamic linker, and the init and final functions of a module, which are *)
(* not under a lock, register or remove its commands.                      *)
(*                                                                         *)
(* A module here is like the repository's own, xch: its init function adds *)
(* commands and its final function removes the same ones.  Either may end  *)
(* by an exception, having done a part of that.                            *)
(***************************************************************************)
EXTENDS Integers

CONSTANTS
    Threads,        \* threads that import and expunge modules
    ModuleNames,    \* names of modules
    ManagedBy,      \* ManagedBy[t]: the modules t imports and expunges
    CommandsOf,     \* CommandsOf[m]: the commands m registers
    System,         \* the program itself, in which the other commands are
    SystemCommands, \* the commands init_commands and the other inits register
    None,           \* no entry in a map, no module
    MaxLost         \* bound: how often the final function of a module throws

ASSUME NamesAssumption == System \notin ModuleNames /\ None \notin ModuleNames \cup {System}
ASSUME ManagedByAssumption == ManagedBy \in [Threads -> SUBSET ModuleNames]
ASSUME CommandsAssumption ==
    /\ \A m \in ModuleNames : CommandsOf[m] \cap SystemCommands = {}
    /\ \A m, n \in ModuleNames : m # n => CommandsOf[m] \cap CommandsOf[n] = {}

VARIABLES
    commands,     \* _commands: command name -> where its function is
    module_map,   \* the keys of _module_map
    handles,      \* handles[m]: the times the linker has m open
    lost,         \* lost[m]: those left so by a final function that threw
    pc,           \* where each thread is
    arg,          \* the module it imports or expunges
    exited,       \* _modules_cleanup has run
    crashed       \* code that is not there has been called

moduleVars == <<commands, module_map, handles, lost, pc, arg, exited, crashed>>

CommandNames == SystemCommands \cup UNION {CommandsOf[m] : m \in ModuleNames}

TypeOK ==
    /\ commands \in [CommandNames -> ModuleNames \cup {System, None}]
    /\ module_map \subseteq ModuleNames
    /\ handles \in [ModuleNames -> Nat]
    /\ lost \in [ModuleNames -> Nat]
    /\ pc \in [Threads -> {"idle", "search", "opened", "enter", "init", "erase",
                           "final", "nofinal", "close"}]
    /\ arg \in [Threads -> ModuleNames \cup {None}]
    /\ \A t \in Threads : pc[t] # "idle" => arg[t] \in ManagedBy[t]
    /\ exited \in BOOLEAN
    /\ crashed \in BOOLEAN

Init ==
    /\ commands = [c \in CommandNames |-> IF c \in SystemCommands THEN System ELSE None]
    /\ module_map = {}
    /\ handles = [m \in ModuleNames |-> 0]
    /\ lost = [m \in ModuleNames |-> 0]
    /\ pc = [t \in Threads |-> "idle"]
    /\ arg = [t \in Threads |-> None]
    /\ exited = FALSE
    /\ crashed = FALSE

Goto(t, label) == pc' = [pc EXCEPT ![t] = label]
Return(t) == Goto(t, "idle") /\ arg' = [arg EXCEPT ![t] = None]

\* dlclose; of a library that is not open it is an error.
Closed(m) == [handles EXCEPT ![m] = IF @ = 0 THEN 0 ELSE @ - 1]

\* import_module throws "Already loaded", or goes on to look for the file.
Import(t, m) ==
    /\ pc[t] = "idle"
    /\ m \notin module_map
    /\ Goto(t, "search")
    /\ arg' = [arg EXCEPT ![t] = m]
    /\ UNCHANGED <<commands, module_map, handles, lost, exited, crashed>>

\* "Could not find module", or the linker cannot open the file.
NotFound(t) ==
    /\ pc[t] = "search"
    /\ Return(t)
    /\ UNCHANGED <<commands, module_map, handles, lost, exited, crashed>>

\* dlopen.
Open(t) ==
    /\ pc[t] = "search"
    /\ handles' = [handles EXCEPT ![arg[t]] = @ + 1]
    /\ Goto(t, "opened")
    /\ UNCHANGED <<commands, module_map, lost, arg, exited, crashed>>

\* dlsym finds both functions of the module.
Resolve(t) ==
    /\ pc[t] = "opened"
    /\ Goto(t, "enter")
    /\ UNCHANGED <<commands, module_map, handles, lost, arg, exited, crashed>>

\* A mutation: the library of a module without its functions stays open.
NoSymbolLeak(t) ==
    /\ pc[t] = "opened"
    /\ Return(t)
    /\ UNCHANGED <<commands, module_map, handles, lost, exited, crashed>>

\* "Could not load function": the library is closed before the exception.
NoSymbol(t) ==
    /\ pc[t] = "opened"
    /\ handles' = Closed(arg[t])
    /\ Return(t)
    /\ UNCHANGED <<commands, module_map, lost, exited, crashed>>

\* The module is entered, whatever another thread has entered meanwhile.
Enter(t) ==
    /\ pc[t] = "enter"
    /\ module_map' = module_map \cup {arg[t]}
    /\ Goto(t, "init")
    /\ UNCHANGED <<commands, handles, lost, arg, exited, crashed>>

Crash == crashed' = TRUE /\ UNCHANGED <<commands, module_map, handles, lost, pc, arg, exited>>

\* The module's init function: add_command for its commands.
ModuleInit(t) ==
    LET m == arg[t] IN
    /\ pc[t] = "init"
    /\ IF handles[m] = 0 THEN Crash
       ELSE /\ commands' = [c \in CommandNames |->
                              IF c \in CommandsOf[m] THEN m ELSE commands[c]]
            /\ Return(t)
            /\ UNCHANGED <<module_map, handles, lost, exited, crashed>>

\* The init function throws when it has added some of its commands: the
\* exception leaves import_module, the module stays in the map.
ModuleInitThrows(t) ==
    LET m == arg[t] IN
    /\ pc[t] = "init"
    /\ handles[m] > 0
    /\ \E added \in SUBSET CommandsOf[m] :
         commands' = [c \in CommandNames |-> IF c \in added THEN m ELSE commands[c]]
    /\ Return(t)
    /\ UNCHANGED <<module_map, handles, lost, exited, crashed>>

\* expunge_module throws "No such module", or goes on.
Expunge(t, m) ==
    /\ pc[t] = "idle"
    /\ m \in module_map
    /\ Goto(t, "erase")
    /\ arg' = [arg EXCEPT ![t] = m]
    /\ UNCHANGED <<commands, module_map, handles, lost, exited, crashed>>

\* The entry is copied and erased; when another thread has erased it since,
\* operator[] makes one without functions.
Erase(t) ==
    /\ pc[t] = "erase"
    /\ module_map' = module_map \ {arg[t]}
    /\ Goto(t, IF arg[t] \in module_map THEN "final" ELSE "nofinal")
    /\ UNCHANGED <<commands, handles, lost, arg, exited, crashed>>

\* A mutation: the final function is not called.
ModuleNoFinal(t) ==
    /\ pc[t] \in {"final", "nofinal"}
    /\ Goto(t, "close")
    /\ UNCHANGED <<commands, module_map, handles, lost, arg, exited, crashed>>

\* The module's final function: remove_command for its commands.
ModuleFinal(t) ==
    LET m == arg[t] IN
    /\ pc[t] \in {"final", "nofinal"}
    /\ IF pc[t] = "nofinal" \/ handles[m] = 0 THEN Crash
       ELSE /\ commands' = [c \in CommandNames |->
                              IF c \in CommandsOf[m] THEN None ELSE commands[c]]
            /\ Goto(t, "close")
            /\ UNCHANGED <<module_map, handles, lost, arg, exited, crashed>>

\* The final function throws when it has removed some of its commands: the
\* exception leaves expunge_module, where the entry of the module has been
\* erased, and nobody closes the library any more.
ModuleFinalThrows(t) ==
    LET m == arg[t] IN
    /\ pc[t] = "final"
    /\ handles[m] > 0
    /\ lost[m] < MaxLost
    /\ lost' = [lost EXCEPT ![m] = @ + 1]
    /\ \E removed \in SUBSET CommandsOf[m] :
         commands' = [c \in CommandNames |->
                        IF c \in removed THEN None ELSE commands[c]]
    /\ Return(t)
    /\ UNCHANGED <<module_map, handles, exited, crashed>>

\* dlclose.
Close(t) ==
    /\ pc[t] = "close"
    /\ handles' = Closed(arg[t])
    /\ Return(t)
    /\ UNCHANGED <<commands, module_map, lost, exited, crashed>>

\* _modules_cleanup at exit, when the other threads are gone: every module
\* that is left is finalised and closed.
Cleanup ==
    /\ ~exited
    /\ exited' = TRUE
    /\ \A t \in Threads : pc[t] = "idle"
    /\ IF \E m \in module_map : handles[m] = 0
       THEN crashed' = TRUE /\ UNCHANGED <<commands, handles>>
       ELSE /\ commands' = [c \in CommandNames |->
                 IF \E m \in module_map : c \in CommandsOf[m] THEN None ELSE commands[c]]
            /\ handles' = [m \in ModuleNames |->
                 IF m \in module_map THEN handles[m] - 1 ELSE handles[m]]
            /\ UNCHANGED crashed
    /\ module_map' = {}
    /\ UNCHANGED <<lost, pc, arg>>

\* A final function throws there: an exception that leaves a function of
\* atexit() ends the process.
CleanupThrows ==
    /\ ~exited
    /\ module_map # {}
    /\ \A t \in Threads : pc[t] = "idle"
    /\ Crash

\* Some thread is inside a function of a module that is closed meanwhile.
CallOfClosed ==
    /\ \E m \in ModuleNames : handles[m] = 0
    /\ Crash

ModuleStep(t) ==
    \/ \E m \in ManagedBy[t] : Import(t, m) \/ Expunge(t, m)
    \/ NotFound(t)
    \/ Open(t)
    \/ Resolve(t)
    \/ NoSymbol(t)
    \/ Enter(t)
    \/ ModuleInit(t)
    \/ ModuleInitThrows(t)
    \/ Erase(t)
    \/ ModuleFinal(t)
    \/ ModuleFinalThrows(t)
    \/ Close(t)

Next ==
    /\ ~crashed
    /\ ~exited
    /\ (\E t \in Threads : ModuleStep(t)) \/ Cleanup \/ CleanupThrows \/ CallOfClosed

Spec == Init /\ [][Next]_moduleVars

-----------------------------------------------------------------------------
\* No module is imported or expunged by two threads.
OneManager ==
    \A t, u \in Threads : t # u => ManagedBy[t] \cap ManagedBy[u] = {}

\* Whatever steps of an import or an expunge fail, and while they are under
\* way, a command that can be looked up is in a library that is open.
CommandsAreMapped ==
    \A c \in CommandNames : commands[c] \in ModuleNames => handles[commands[c]] > 0

\* Between calls the linker has a module open once if it is in the map, and
\* once more for each final function of it that threw, which leaves its library
\* open for good: no other failure leaks a handle, no expunge closes one twice,
\* and the exit closes all that are left.
HandlesMatchMap ==
    \A m \in ModuleNames :
      (\A t \in Threads : arg[t] # m) =>
        handles[m] = IF m \in module_map THEN lost[m] + 1 ELSE lost[m]
=============================================================================

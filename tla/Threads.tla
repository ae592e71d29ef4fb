------------------------------ MODULE Threads ------------------------------
(***************************************************************************)
(* src/mkt/threads.cpp, inc/mkt/threads.h and the shutdown of              *)
(* src/mkt/app.cpp: the map of named threads, start_thread(), the life of  *)
(* the threads it starts, boost's interruption of them, and the exit of    *)
(* the main thread.                                                        *)
(*                                                                         *)
(* Each region under _threads_mutex is one action.  boost delivers an      *)
(* interruption at an interruption point; every call of the thread API     *)
(* starts with one, so a thread whose flag is up cannot take an action     *)
(* that begins with such a call.  The thread_info and progress maps and    *)
(* the signals' arguments are left out.                                    *)
(***************************************************************************)
EXTENDS Integers

CONSTANTS
    Main,           \* the main thread
    Workers,        \* bound: the threads there can be, started once each
    Hints,          \* names start_thread is called with
    Starters,       \* threads whose commands call start_thread
    WaitModes,      \* values of its wait argument
    Interrupters,   \* threads that run the interrupt command
    MaxSuffix,      \* bound: the largest i in "name__i__"
    None            \* no entry, no thread, no key

ASSUME ThreadsAssumption ==
    /\ Main \notin Workers
    /\ Starters \subseteq Workers \cup {Main}
    /\ Interrupters \subseteq Workers \cup {Main}
ASSUME WaitAssumption == WaitModes \subseteq BOOLEAN
ASSUME SuffixAssumption == MaxSuffix \in Nat

Tids == Workers \cup {Main}
Keys == Hints \X (0..MaxSuffix)   \* <<h, 0>> is "h", <<h, i>> is "h__i__"

ASSUME NoneAssumption == None \notin Tids \cup Keys

VARIABLES
    threads,       \* the map _threads, without the null entry of the main thread
    pc,            \* where each thread is
    key,           \* the key of the call a thread is in
    peer,          \* the thread a waiting start_thread joins
    child,         \* the thread start_thread has created and not yet entered
    interrupted,   \* threads whose interruption is requested
    todo,          \* final_threads: keys still to remove
    waiting,       \* wait_for_threads: threads still to join
    crash          \* what ended the process early, if anything did

vars == <<threads, pc, key, peer, child, interrupted, todo, waiting, crash>>
locals == <<key, peer, child>>
shutdown == <<todo, waiting>>

Starting == {"has", "peer", "join", "unique", "chosen", "evict", "put"}
Removing == {"check", "interrupt", "erase"}

Labels == {"unborn", "init", "feedback", "run", "leave", "final", "done",
           "finalizing", "waiting", "exited"} \cup Starting \cup Removing

TypeOK ==
    /\ threads \in [Keys -> Workers \cup {None}]
    /\ pc \in [Tids -> Labels]
    /\ key \in [Tids -> Keys \cup {None}]
    /\ peer \in [Tids -> Workers \cup {None}]
    /\ child \in [Tids -> Workers \cup {None}]
    /\ interrupted \subseteq Workers
    /\ todo \subseteq Keys
    /\ waiting \subseteq Workers
    /\ crash \in {None, "null thread", "joins itself", "destructor", "no thread"}
    /\ \A t \in Tids : pc[t] \in Starting \cup Removing => key[t] \in Keys

Init ==
    /\ threads = [k \in Keys |-> None]
    /\ pc = [t \in Tids |-> IF t = Main THEN "run" ELSE "unborn"]
    /\ key = [t \in Tids |-> None]
    /\ peer = [t \in Tids |-> None]
    /\ child = [t \in Tids |-> None]
    /\ interrupted = {}
    /\ todo = {}
    /\ waiting = {}
    /\ crash = None

\* The process runs: it neither crashed nor returned from main().
Alive == crash = None /\ pc[Main] # "exited"

\* The destructor of mkt::app has reached final_threads().
Exiting == pc[Main] \in {"finalizing", "waiting", "exited"} \cup Removing

\* t is at this point of the code, and the process still runs.
At(t, label) == Alive /\ pc[t] = label

Goto(t, label) == pc' = [pc EXCEPT ![t] = label]

Registered(w) == \E k \in Keys : threads[k] = w
KeysOf(w) == {k \in Keys : threads[k] = w}

\* A call of the thread API begins with an interruption point.
MayCall(t) == t \notin interrupted

\* A null thread_ptr is dereferenced, or an exception leaves a thread or a
\* destructor: std::terminate, or worse.
Abort(cause) ==
    /\ crash' = cause
    /\ UNCHANGED <<threads, pc, locals, interrupted, shutdown>>

-----------------------------------------------------------------------------
\* start_thread

NoThreadLeft == \A w \in Workers : pc[w] # "unborn"

\* Called with the name h.
StartThread(t, h, wait) ==
    /\ t \in Starters
    /\ At(t, "run")
    /\ key' = [key EXCEPT ![t] = <<h, 0>>]
    /\ Goto(t, IF wait THEN "has" ELSE "unique")
    /\ UNCHANGED <<threads, peer, child, interrupted, shutdown, crash>>

\* has_thread(key)
HasThread(t) ==
    /\ At(t, "has")
    /\ MayCall(t)
    /\ Goto(t, IF threads[key[t]] # None THEN "peer" ELSE "chosen")
    /\ UNCHANGED <<threads, locals, interrupted, shutdown, crash>>

\* A mutation: start_thread joins its peer without interrupting it.
FindPeer(t) ==
    /\ At(t, "peer")
    /\ MayCall(t)
    /\ threads[key[t]] \notin {None, t}
    /\ peer' = [peer EXCEPT ![t] = threads[key[t]]]
    /\ Goto(t, "join")
    /\ UNCHANGED <<threads, key, child, interrupted, shutdown, crash>>

\* tptr = threads(key); tptr->interrupt()
InterruptPeer(t) ==
    /\ At(t, "peer")
    /\ MayCall(t)
    /\ threads[key[t]] \notin {None, t}
    /\ peer' = [peer EXCEPT ![t] = threads[key[t]]]
    /\ interrupted' = interrupted \cup {threads[key[t]]}
    /\ Goto(t, "join")
    /\ UNCHANGED <<threads, key, child, shutdown, crash>>

\* The entry has gone since has_thread saw it, and the pointer is null.
PeerGone(t) ==
    /\ At(t, "peer")
    /\ MayCall(t)
    /\ threads[key[t]] = None
    /\ Abort("null thread")

\* The entry is the caller's own: join() throws, and nothing catches it.
PeerIsCaller(t) ==
    /\ At(t, "peer")
    /\ MayCall(t)
    /\ threads[key[t]] = t
    /\ Abort("joins itself")

\* A mutation: start_thread interrupts its peer and does not wait for it.
DoNotJoin(t) ==
    /\ At(t, "join")
    /\ MayCall(t)
    /\ peer' = [peer EXCEPT ![t] = None]
    /\ Goto(t, "chosen")
    /\ UNCHANGED <<threads, key, child, interrupted, shutdown, crash>>

\* tptr->join() returns.
Join(t) ==
    /\ At(t, "join")
    /\ MayCall(t)
    /\ pc[peer[t]] = "done"
    /\ peer' = [peer EXCEPT ![t] = None]
    /\ Goto(t, "chosen")
    /\ UNCHANGED <<threads, key, child, interrupted, shutdown, crash>>

\* A mutation: the name is used as it is.
PlainKey(t) ==
    /\ At(t, "unique")
    /\ MayCall(t)
    /\ Goto(t, "chosen")
    /\ UNCHANGED <<threads, locals, interrupted, shutdown, crash>>

\* unique_thread_key: one round of its loop.
UniqueKey(t) ==
    /\ At(t, "unique")
    /\ MayCall(t)
    /\ IF threads[key[t]] = None
       THEN Goto(t, "chosen") /\ UNCHANGED key
       ELSE /\ key[t][2] < MaxSuffix
            /\ key' = [key EXCEPT ![t] = <<@[1], @[2] + 1>>]
            /\ UNCHANGED pc
    /\ UNCHANGED <<threads, peer, child, interrupted, shutdown, crash>>

\* new boost::thread: the arguments of threads(key, val) may be evaluated in
\* either order, so the thread may run before its key is chosen.
Create(t) ==
    /\ Alive /\ pc[t] \in {"unique", "chosen"}
    /\ MayCall(t)
    /\ child[t] = None
    /\ \E w \in Workers :
         /\ pc[w] = "unborn"
         /\ child' = [child EXCEPT ![t] = w]
         /\ Goto(w, "init")
    /\ UNCHANGED <<threads, key, peer, interrupted, shutdown, crash>>

\* new boost::thread throws thread_resource_error, which main() catches and
\* init_thread does not.
CreateFails(t) ==
    /\ Alive /\ pc[t] \in {"unique", "chosen"}
    /\ MayCall(t)
    /\ child[t] = None
    /\ NoThreadLeft
    /\ t # Main
    /\ Abort("no thread")

\* threads(key, val): has_thread(key) && threads(key)
CheckKey(t) ==
    /\ At(t, "chosen")
    /\ MayCall(t)
    /\ child[t] # None
    /\ Goto(t, IF threads[key[t]] # None THEN "evict" ELSE "put")
    /\ UNCHANGED <<threads, locals, interrupted, shutdown, crash>>

\* threads(key)->interrupt(), in threads(key, val) and in remove_thread(key)
Evict(t) ==
    /\ Alive /\ pc[t] \in {"evict", "interrupt"}
    /\ MayCall(t)
    /\ IF threads[key[t]] = None
       THEN Abort("null thread")
       ELSE /\ interrupted' = interrupted \cup {threads[key[t]]}
            /\ Goto(t, IF pc[t] = "evict" THEN "put" ELSE "erase")
            /\ UNCHANGED <<threads, locals, shutdown, crash>>

\* threads(key, val): the entry is written, and start_thread returns.
Put(t) ==
    /\ At(t, "put")
    /\ threads' = [threads EXCEPT ![key[t]] = child[t]]
    /\ key' = [key EXCEPT ![t] = None]
    /\ child' = [child EXCEPT ![t] = None]
    /\ Goto(t, "run")
    /\ UNCHANGED <<peer, interrupted, shutdown, crash>>

-----------------------------------------------------------------------------
\* The life of a started thread: init_thread::operator()

\* thread_initialized is emitted.
RunInit(w) ==
    /\ At(w, "init")
    /\ MayCall(w)
    /\ Goto(w, "feedback")
    /\ UNCHANGED <<threads, locals, interrupted, shutdown, crash>>

\* thread_feedback is constructed, and the command starts.
RunCommand(w) ==
    /\ At(w, "feedback")
    /\ MayCall(w)
    /\ Goto(w, "run")
    /\ UNCHANGED <<threads, locals, interrupted, shutdown, crash>>

\* The command returns, or throws an mkt::exception that is caught.
EndCommand(w) ==
    /\ w \in Workers
    /\ At(w, "run")
    /\ Goto(w, "leave")
    /\ UNCHANGED <<threads, locals, interrupted, shutdown, crash>>

\* ~thread_feedback: thread_key(), read before remove_thread takes the lock.
\* A thread that is not in the map yet is "unknown", and removes nothing.
ReadOwnKey(w) ==
    /\ At(w, "leave")
    /\ MayCall(w)
    /\ \/ \E k \in KeysOf(w) : key' = [key EXCEPT ![w] = k] /\ Goto(w, "erase")
       \/ ~Registered(w) /\ Goto(w, "final") /\ UNCHANGED key
    /\ UNCHANGED <<threads, peer, child, interrupted, shutdown, crash>>

\* A mutation: the entry of the plain name is erased.
ErasePlain(t) ==
    /\ At(t, "erase")
    /\ t = Main \/ MayCall(t)
    /\ threads' = [threads EXCEPT ![<<key[t][1], 0>>] = None]
    /\ key' = [key EXCEPT ![t] = None]
    /\ Goto(t, IF t = Main THEN "finalizing" ELSE "final")
    /\ UNCHANGED <<peer, child, interrupted, shutdown, crash>>

\* remove_thread: the entry is erased, whoever holds it by now.
Erase(t) ==
    /\ At(t, "erase")
    /\ t = Main \/ MayCall(t)
    /\ threads' = [threads EXCEPT ![key[t]] = None]
    /\ key' = [key EXCEPT ![t] = None]
    /\ Goto(t, IF t = Main THEN "finalizing" ELSE "final")
    /\ UNCHANGED <<peer, child, interrupted, shutdown, crash>>

\* ~thread_signals: thread_finalized is emitted.  Once main has disconnected
\* the slots of vars.cpp and log.cpp there is no interruption point in it.
Finish(w) ==
    /\ At(w, "final")
    /\ MayCall(w) \/ Exiting
    /\ Goto(w, "done")
    /\ UNCHANGED <<threads, locals, interrupted, shutdown, crash>>

-----------------------------------------------------------------------------
\* Interruption

\* The interrupt command, for a key that leads to a thread.
Interrupt(t, k) ==
    /\ t \in Interrupters
    /\ At(t, "run")
    /\ MayCall(t)
    /\ threads[k] # None
    /\ interrupted' = interrupted \cup {threads[k]}
    /\ UNCHANGED <<threads, pc, locals, shutdown, crash>>

\* An interruption point throws inside the command: the stack unwinds, out of
\* start_thread too, and what start_thread created stays unregistered.
InterruptedInCommand(w) ==
    /\ w \in interrupted
    /\ Alive /\ pc[w] \in {"run"} \cup (Starting \ {"put"})
    /\ interrupted' = interrupted \ {w}
    /\ key' = [key EXCEPT ![w] = None]
    /\ peer' = [peer EXCEPT ![w] = None]
    /\ child' = [child EXCEPT ![w] = None]
    /\ Goto(w, "leave")
    /\ UNCHANGED <<threads, shutdown, crash>>

\* It throws before there is a thread_feedback, whose destructor would have
\* removed the entry; before thread_signals, nothing is finalized either.
InterruptedAtStart(w) ==
    /\ w \in interrupted
    /\ Alive /\ pc[w] \in {"init", "feedback"}
    /\ interrupted' = interrupted \ {w}
    /\ Goto(w, IF pc[w] = "init" THEN "done" ELSE "final")
    /\ UNCHANGED <<threads, locals, shutdown, crash>>

\* It throws in ~thread_info, ~thread_feedback or ~thread_signals, which are
\* noexcept: std::terminate.
InterruptedInDestructor(w) ==
    /\ w \in interrupted
    /\ Alive /\ pc[w] \in {"run", "leave", "erase", "final"}
    /\ Abort("destructor")

-----------------------------------------------------------------------------
\* The exit of the main thread

\* ~app, after the last command or an exception of start_thread: finalize()
\* calls final_threads(), which lists the keys.
FinalThreads ==
    /\ \/ At(Main, "run")
       \/ /\ Alive /\ pc[Main] \in {"unique", "chosen"}
          /\ child[Main] = None
          /\ NoThreadLeft
    /\ todo' = {k \in Keys : threads[k] # None}
    /\ Goto(Main, "finalizing")
    /\ UNCHANGED <<threads, locals, interrupted, waiting, crash>>

\* A mutation: the key that was removed is not crossed off.
RemoveAgain ==
    /\ At(Main, "finalizing")
    /\ \E k \in todo : key' = [key EXCEPT ![Main] = k]
    /\ Goto(Main, "check")
    /\ UNCHANGED <<threads, peer, child, interrupted, shutdown, crash>>

\* final_threads: remove_thread(key) for the next key.
RemoveNext ==
    /\ At(Main, "finalizing")
    /\ \E k \in todo :
         /\ key' = [key EXCEPT ![Main] = k]
         /\ todo' = todo \ {k}
    /\ Goto(Main, "check")
    /\ UNCHANGED <<threads, peer, child, interrupted, waiting, crash>>

\* remove_thread: has_thread(key) && threads(key)
CheckRemove ==
    /\ At(Main, "check")
    /\ Goto(Main, IF threads[key[Main]] # None THEN "interrupt" ELSE "erase")
    /\ UNCHANGED <<threads, locals, interrupted, shutdown, crash>>

\* ~wait_for_threads, after finalize(): wait() copies the map.
CopyThreads ==
    /\ At(Main, "finalizing")
    /\ todo = {}
    /\ waiting' = {w \in Workers : Registered(w)}
    /\ Goto(Main, "waiting")
    /\ UNCHANGED <<threads, locals, interrupted, todo, crash>>

\* wait() joins one of the threads it found.
JoinNext ==
    /\ At(Main, "waiting")
    /\ \E w \in waiting : pc[w] = "done" /\ waiting' = waiting \ {w}
    /\ UNCHANGED <<threads, pc, locals, interrupted, todo, crash>>

\* main() returns.
Exit ==
    /\ At(Main, "waiting")
    /\ waiting = {}
    /\ Goto(Main, "exited")
    /\ UNCHANGED <<threads, locals, interrupted, shutdown, crash>>

-----------------------------------------------------------------------------
\* What a thread does without being asked to.
Proceed(t) ==
    \/ HasThread(t)
    \/ InterruptPeer(t)
    \/ PeerGone(t)
    \/ PeerIsCaller(t)
    \/ Join(t)
    \/ UniqueKey(t)
    \/ Create(t)
    \/ CreateFails(t)
    \/ CheckKey(t)
    \/ Evict(t)
    \/ Put(t)
    \/ RunInit(t)
    \/ RunCommand(t)
    \/ ReadOwnKey(t)
    \/ Erase(t)
    \/ Finish(t)
    \/ InterruptedInCommand(t)
    \/ InterruptedAtStart(t)
    \/ InterruptedInDestructor(t)

Shutdown ==
    \/ RemoveNext
    \/ CheckRemove
    \/ CopyThreads
    \/ JoinNext
    \/ Exit

Next ==
    \/ \E t \in Tids :
         \/ Proceed(t)
         \/ \E h \in Hints, wait \in WaitModes : StartThread(t, h, wait)
         \/ \E k \in Keys : Interrupt(t, k)
    \/ \E w \in Workers : EndCommand(w)
    \/ FinalThreads
    \/ Shutdown

\* Threads are scheduled, and commands end; nobody has to start a thread, to
\* interrupt one, or to leave the program.
Fairness ==
    /\ \A t \in Tids : WF_vars(Proceed(t))
    /\ \A w \in Workers : WF_vars(EndCommand(w))
    /\ WF_vars(Shutdown)

Spec == Init /\ [][Next]_vars
FairSpec == Spec /\ Fairness

-----------------------------------------------------------------------------
\* Until main leaves, start_thread interrupts no living thread but the one it
\* was told to wait for ("Else just use a unique key").
UndisturbedUntilExit ==
    ~Exiting => \A w \in interrupted :
        pc[w] = "done" \/ \E t \in Tids : pc[t] = "join" /\ peer[t] = w

\* The key that a start_thread will write belongs to no thread still living:
\* a command that was to wait for its namesake has waited.
KeyIsFree ==
    \A t \in Tids :
        pc[t] \in {"chosen", "evict", "put"} =>
            threads[key[t]] = None \/ pc[threads[key[t]]] = "done"

\* Until main leaves, a thread whose start_thread has returned can be found
\* by name as long as its command runs.
RunningIsListed ==
    ~Exiting => \A w \in Workers :
        pc[w] = "run" /\ (\A t \in Tids : child[t] # w) => Registered(w)

\* A start_thread that waits for a thread gets through or is interrupted
\* itself: no circle of threads that wait for each other lasts.
WaitingEnds == \A t \in Tids : pc[t] = "join" ~> (pc[t] # "join" \/ ~Alive)

\* Once main leaves, the process ends.
ExitEnds == Exiting ~> ~Alive
=============================================================================

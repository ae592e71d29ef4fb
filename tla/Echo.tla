-------------------------------- MODULE Echo --------------------------------
(***************************************************************************)
(* src/mkt/echo.cpp: the map of echo functions and the threads that echo,  *)
(* composed with the log, which has a slot for echo_function_registered    *)
(* and for the commands do_remote_echo executes.  A function is called     *)
(* under _echo_map_mutex, which is not recursive; it writes its string in  *)
(* two pieces here, so that an overlap would be seen.  An exception of a   *)
(* function leaves echo() through the destructor of out, which is noexcept *)
(* in C++11: the process ends.                                             *)
(***************************************************************************)
EXTENDS Log, Sequences

CONSTANTS
    Echoers,       \* threads that echo
    SysEcho,       \* sys_echo_functions, a sequence of ids
    Registered,    \* ids that are registered, unregistered and echoed to alone
    Remote,        \* the id of do_remote_echo
    EchoBack,      \* ids of functions that echo: none of init_echo's, a client's
    QuietValues,   \* what sys_echo_quiet can be: "true", "false", "neither"
    RemoteHosts,   \* bound: hosts in sys_remote_echo
    MaxCalls       \* bound: echoes and registrations started in a behaviour

NoThread == "nobody"
Ids == {SysEcho[i] : i \in 1..Len(SysEcho)} \cup Registered

ASSUME IdsAssumption ==
    SysEcho \in Seq(Nat) /\ SysEcho # <<>> /\ Registered \subseteq Nat /\ Remote \notin EchoBack
ASSUME EchoersAssumption == NoThread \notin Echoers
ASSUME SlotsAssumption ==
    {"echo_function_registered", "command_pre_exec"} \subseteq Signals
ASSUME NumbersAssumption == {RemoteHosts, MaxCalls} \subseteq Nat

VARIABLES
    functions,   \* the ids that lead to a function that is not empty
    holder,      \* who holds _echo_map_mutex, or NoThread
    todo,        \* todo[t]: ids t's echo has still to call; the first is next
    at,          \* where t's echo is
    hosts,       \* hosts[t]: hosts t has still to echo to
    written,     \* the pieces written, each with its thread and its number
    ended,       \* an exception has ended the process
    calls        \* calls started

echoVars == <<functions, holder, todo, at, hosts, written, ended, calls>>
vars == <<logVars, echoVars>>

\* "back": the function has called echo() itself, under the lock.
InFunction == {"inside", "half", "hosts", "back"}

EchoTypeOK ==
    /\ LogTypeOK
    /\ functions \subseteq Ids
    /\ holder \in Echoers \cup {NoThread}
    /\ \A t \in Echoers : todo[t] \in Seq(Ids) /\ (at[t] # "idle" => todo[t] # <<>>)
    /\ \A t \in Echoers : at[t] \in InFunction => holder = t
    /\ \A t \in Echoers : hosts[t] \in 0..RemoteHosts
    /\ ended \in BOOLEAN
    /\ calls \in 0..MaxCalls

\* init_log and init_echo have run, and clients have registered theirs.
Init ==
    /\ LogInit
    /\ functions = Ids
    /\ holder = NoThread
    /\ todo = [t \in Echoers |-> <<>>]
    /\ at = [t \in Echoers |-> "idle"]
    /\ hosts = [t \in Echoers |-> 0]
    /\ written = <<>>
    /\ ended = FALSE
    /\ calls = 0

Idle(t) == at[t] = "idle" /\ calls < MaxCalls /\ calls' = calls + 1

\* echo_register: the function is entered, then the signal is emitted.
Register(t, id) ==
    /\ Idle(t)
    /\ holder = NoThread
    /\ functions' = functions \cup {id}
    /\ Emit("echo_function_registered")
    /\ UNCHANGED <<now, connected, get, holder, todo, at, hosts, written, ended>>

\* echo_unregister: an empty function takes its place.  Its signal has no slot.
Unregister(t, id) ==
    /\ Idle(t)
    /\ holder = NoThread
    /\ functions' = functions \ {id}
    /\ UNCHANGED <<logVars, holder, todo, at, hosts, written, ended>>

\* ~out, or a command: echo(id, str), or echo(str) for each of
\* sys_echo_functions, which is read once.
EchoStarts(t, ids) ==
    /\ Idle(t)
    /\ todo' = [todo EXCEPT ![t] = ids]
    /\ at' = [at EXCEPT ![t] = "lock"]
    /\ UNCHANGED <<logVars, functions, holder, hosts, written, ended>>

\* A mutation: the lock is entered whoever holds it.
EchoEnters(t) ==
    /\ at[t] = "lock"
    /\ holder' = t
    /\ at' = [at EXCEPT ![t] = "inside"]
    /\ UNCHANGED <<logVars, functions, todo, hosts, written, ended, calls>>

\* A mutation: the lock is not taken.
EchoNoLock(t) ==
    /\ at[t] = "lock"
    /\ at' = [at EXCEPT ![t] = "inside"]
    /\ UNCHANGED <<logVars, functions, holder, todo, hosts, written, ended, calls>>

\* The lock is taken, and the function is called unless it is empty.
EchoLocks(t) ==
    /\ at[t] = "lock"
    /\ holder = NoThread
    /\ holder' = t
    /\ at' = [at EXCEPT ![t] = "inside"]
    /\ UNCHANGED <<logVars, functions, todo, hosts, written, ended, calls>>

Called(t) == Head(todo[t])

\* A mutation: the lock is kept when there is no function.
EchoEndKeeps(t) ==
    /\ holder' = IF Called(t) \in functions THEN NoThread ELSE holder
    /\ todo' = [todo EXCEPT ![t] = Tail(@)]
    /\ at' = [at EXCEPT ![t] = IF Tail(todo[t]) = <<>> THEN "idle" ELSE "lock"]

\* The function returns, the lock is released and the next id's turn comes.
EchoEnd(t) ==
    /\ holder' = NoThread
    /\ todo' = [todo EXCEPT ![t] = Tail(@)]
    /\ at' = [at EXCEPT ![t] = IF Tail(todo[t]) = <<>> THEN "idle" ELSE "lock"]

EchoEmpty(t) ==
    /\ at[t] = "inside"
    /\ Called(t) \notin functions
    /\ EchoEnd(t)
    /\ UNCHANGED <<logVars, functions, hosts, written, ended, calls>>

\* The functions that are left are not called; nothing runs any more.
Terminates(t) ==
    /\ ended' = TRUE
    /\ UNCHANGED <<now, connected, get, functions, holder, todo, at, hosts, written, calls>>

DoEcho(t) == at[t] = "inside" /\ Called(t) \in functions \ ({Remote} \cup EchoBack)

\* do_echo, when sys_echo_quiet is false,
WriteFirst(t) ==
    /\ DoEcho(t)
    /\ "false" \in QuietValues
    /\ written' = Append(written, <<t, 1>>)
    /\ at' = [at EXCEPT ![t] = "half"]
    /\ UNCHANGED <<logVars, functions, holder, todo, hosts, ended, calls>>

WriteRest(t) ==
    /\ at[t] = "half"
    /\ written' = Append(written, <<t, 2>>)
    /\ EchoEnd(t)
    /\ UNCHANGED <<logVars, functions, hosts, ended, calls>>

\* when it is true,
StayQuiet(t) ==
    /\ DoEcho(t)
    /\ "true" \in QuietValues
    /\ EchoEnd(t)
    /\ UNCHANGED <<logVars, functions, hosts, written, ended, calls>>

\* and when it can be read as neither: get_var<bool> throws.
QuietThrows(t) ==
    /\ DoEcho(t)
    /\ "neither" \in QuietValues
    /\ Terminates(t)
    /\ UNCHANGED entries

\* do_remote_echo reads sys_remote_echo;
RemoteStarts(t) ==
    /\ at[t] = "inside"
    /\ Called(t) = Remote /\ Remote \in functions
    /\ \E n \in 0..RemoteHosts : hosts' = [hosts EXCEPT ![t] = n]
    /\ at' = [at EXCEPT ![t] = "hosts"]
    /\ UNCHANGED <<logVars, functions, holder, todo, written, ended, calls>>

\* for each host a command is executed that starts a thread to echo there: the
\* signal before it is logged;
RemoteExecutes(t) ==
    /\ at[t] = "hosts" /\ hosts[t] > 0
    /\ hosts' = [hosts EXCEPT ![t] = @ - 1]
    /\ Emit("command_pre_exec")
    /\ UNCHANGED <<now, connected, get, functions, holder, todo, at, written, ended, calls>>

\* the host's port is not a number, or the command throws;
RemoteThrows(t) ==
    /\ at[t] = "hosts" /\ hosts[t] > 0
    /\ Terminates(t)
    /\ UNCHANGED entries \/ Emit("command_pre_exec")

RemoteReturns(t) ==
    /\ at[t] = "hosts" /\ hosts[t] = 0
    /\ EchoEnd(t)
    /\ UNCHANGED <<logVars, functions, hosts, written, ended, calls>>

\* A function that echoes waits for the lock its own thread holds.
CallsBack(t) ==
    /\ at[t] = "inside"
    /\ Called(t) \in functions \cap EchoBack
    /\ at' = [at EXCEPT ![t] = "back"]
    /\ UNCHANGED <<logVars, functions, holder, todo, hosts, written, ended, calls>>

EchoStep(t) ==
    /\ ~ended
    /\ \/ EchoLocks(t) \/ EchoEmpty(t) \/ WriteFirst(t) \/ WriteRest(t)
       \/ StayQuiet(t) \/ QuietThrows(t) \/ CallsBack(t)
       \/ RemoteStarts(t) \/ RemoteExecutes(t) \/ RemoteThrows(t) \/ RemoteReturns(t)

Call(t) ==
    \/ EchoStarts(t, SysEcho)
    \/ \E id \in Registered : Register(t, id) \/ Unregister(t, id) \/ EchoStarts(t, <<id>>)

Next ==
    /\ ~ended
    /\ \/ LogNext /\ UNCHANGED echoVars
       \/ \E t \in Echoers : Call(t) \/ EchoStep(t)

Spec == Init /\ [][Next]_vars

\* A thread that waits for the lock gets it.
FairSpec == Spec /\ \A t \in Echoers : SF_vars(EchoStep(t))

-----------------------------------------------------------------------------
\* Strings that two threads echo at once are not mixed: what a function has
\* begun to write it finishes before another writes.
OutputIsWhole ==
    \A i \in 1..Len(written) :
      written[i][2] = 2 => i > 1 /\ written[i - 1] = <<written[i][1], 1>>

\* Every echo returns, whatever the other threads echo, register and log and
\* however many hosts there are, unless an exception of a function has ended
\* the process or a function echoes: then its thread waits for itself, and all
\* that echo later for it.
EchoReturns ==
    \A t \in Echoers :
      at[t] = "lock" ~> at[t] = "idle" \/ ended \/ \E u \in Echoers : at[u] = "back"
=============================================================================

------------------------------ MODULE Commands ------------------------------
(***************************************************************************)
(* src/mkt/commands.cpp: a thread that executes command lines, with serial *)
(* and repeat, which execute others, while other threads import and        *)
(* expunge the modules some commands are in.  A line is the sequence of    *)
(* its words.  The stack holds a frame for each exec() that has not        *)
(* returned.  Of the commands that do not execute others one sets the      *)
(* return value (version), one does not (echo), and one is in a module.    *)
(*                                                                         *)
(* The clock is the microsecond clock: it advances while exec() takes the  *)
(* command from the map, and need not advance elsewhere.                   *)
(***************************************************************************)
EXTENDS Modules, Sequences, SequencesExt

CONSTANTS
    Lines,     \* the lines that may be executed
    Numbers    \* the words lexical_cast reads as numbers, and their values

VARIABLES
    clock,     \* microsec_clock::universal_time()
    ret,       \* the variable "_": its value and the time it was modified
    before,    \* its value when the line began
    stack,     \* the calls of exec, the innermost first
    line,      \* the line that is executed, or was last
    outcome    \* what became of it

interpreterVars == <<clock, ret, before, stack, line, outcome>>
vars == <<moduleVars, interpreterVars>>

Missing == "missing"   \* there is no "_" in the thread's map
Stale == "stale"       \* a text no command leaves there

\* What may be in "_" before a line: what earlier lines have left, if any.
Results == {Missing, Stale, "", "version", "module", "invalid"}

CommandsTypeOK ==
    /\ TypeOK
    /\ clock \in Nat
    /\ ret.time \in 0..clock
    /\ outcome \in {"ready", "running", "done", "thrown", "ended"}
    /\ \A i \in 1..Len(stack) : stack[i].pre \in 0..clock
    /\ outcome = "running" <=> stack # <<>>

CommandsInit ==
    /\ Init
    /\ clock = 1
    /\ before \in Results
    /\ ret = [val |-> before, time |-> 0]
    /\ stack = <<>>
    /\ line = <<>>
    /\ outcome = "ready"

NewFrame(args) == [args |-> args, at |-> "look", code |-> None, pre |-> 0, todo |-> <<>>]

\* The innermost call.
Top == Head(stack)
At(label) == stack # <<>> /\ Top.at = label
SetTop(frame) == stack' = <<frame>> \o Tail(stack)

\* ret_val: set_var returns early, and leaves the time alone, if "_" has the
\* value already.
SetRet(val) == ret' = IF ret.val = val THEN ret ELSE [val |-> val, time |-> clock]

\* An exception leaves every exec() there is; the prompt's loop puts its text
\* in "_".
Throw(message) ==
    /\ stack' = <<>>
    /\ outcome' = "thrown"
    /\ SetRet(message)
    /\ UNCHANGED <<clock, line, before>>

\* ex: nothing is done for an empty line or a comment.
Ex(args) ==
    /\ outcome = "ready"
    /\ line' = args
    /\ IF args = <<>>
       THEN outcome' = "done" /\ UNCHANGED stack
       ELSE outcome' = "running" /\ stack' = <<NewFrame(args)>>
    /\ before' = ret.val
    /\ UNCHANGED <<clock, ret>>

\* A mutation: the time before the call is not taken.
LookUpNoTime ==
    LET c == Head(Top.args) IN
    /\ At("look")
    /\ Top.args # <<>>
    /\ c \in CommandNames /\ commands[c] # None
    /\ SetTop([Top EXCEPT !.at = "call", !.code = commands[c]])
    /\ clock' = clock + 1
    /\ UNCHANGED <<ret, line, before, outcome>>

\* A mutation: the time is taken of what is about to happen.
LookUpFuture ==
    LET c == Head(Top.args) IN
    /\ At("look")
    /\ Top.args # <<>>
    /\ c \in CommandNames /\ commands[c] # None
    /\ SetTop([Top EXCEPT !.at = "call", !.code = commands[c], !.pre = clock + 1])
    /\ UNCHANGED <<clock, ret, line, before, outcome>>

\* exec: the command is copied from the map, under the lock, and the time
\* before the call is taken.
LookUp ==
    LET c == Head(Top.args) IN
    /\ At("look")
    /\ Top.args # <<>>
    /\ c \in CommandNames /\ commands[c] # None
    /\ SetTop([Top EXCEPT !.at = "call", !.code = commands[c], !.pre = clock + 1])
    /\ clock' = clock + 1
    /\ UNCHANGED <<ret, line, before, outcome>>

\* A mutation: exec does not expect an empty command.
LookUpThrowsInvalid ==
    /\ At("look")
    /\ \E i \in 1..Len(Top.args) :
         i = 1 /\ Top.args[i] \notin {c \in CommandNames : commands[c] # None}
    /\ Throw("invalid")

\* exec throws "Missing command string" or "Invalid command".
LookUpThrows ==
    /\ At("look")
    /\ \A i \in 1..Len(Top.args) :
         i = 1 => Top.args[i] \notin {c \in CommandNames : commands[c] # None}
    /\ Throw("invalid")

Calls(c) == At("call") /\ Head(Top.args) = c

\* serial: the words between "then"s are commands; the last of them counts
\* only if it is not empty.
Split(words) ==
    LET step(parts, word) ==
          IF word # "then" THEN [parts EXCEPT !.cur = Append(@, word)]
          ELSE [done |-> Append(parts.done, parts.cur), cur |-> <<>>]
        parts == FoldLeft(step, [done |-> <<>>, cur |-> <<>>], words)
    IN IF parts.cur = <<>> THEN parts.done ELSE Append(parts.done, parts.cur)

\* serial throws if there is nothing to execute.
Serial ==
    LET parts == Split(Tail(Top.args)) IN
    /\ Calls("serial")
    /\ IF parts = <<>> THEN Throw("nothing")
       ELSE /\ SetTop([Top EXCEPT !.at = "sub", !.todo = parts])
            /\ UNCHANGED <<clock, ret, line, before, outcome>>

\* repeat throws if words are missing or the number is not one.
Repeat ==
    LET args == Top.args IN
    /\ Calls("repeat")
    /\ IF Len(args) < 3 \/ args[2] \notin DOMAIN Numbers THEN Throw("arguments")
       ELSE /\ SetTop([Top EXCEPT !.at = "sub",
                         !.todo = [i \in 1..Numbers[args[2]] |-> Tail(Tail(args))]])
            /\ UNCHANGED <<clock, ret, line, before, outcome>>

\* A command that sets the return value to something of its own.
Version ==
    /\ Calls("version")
    /\ SetTop([Top EXCEPT !.at = "after"])
    /\ SetRet("version")
    /\ UNCHANGED <<clock, line, before, outcome>>

\* A command that leaves the return value alone.
Echo ==
    /\ Calls("echo")
    /\ SetTop([Top EXCEPT !.at = "after"])
    /\ UNCHANGED <<clock, ret, line, before, outcome>>

\* A command in a module that is still there.
ModuleCommand ==
    /\ At("call")
    /\ Top.code \in ModuleNames
    /\ handles[Top.code] > 0
    /\ SetTop([Top EXCEPT !.at = "after"])
    /\ SetRet("module")
    /\ UNCHANGED <<clock, line, before, outcome>>

\* serial and repeat execute the next of their commands.
SubCommand ==
    /\ At("sub")
    /\ Top.todo # <<>>
    /\ stack' = <<NewFrame(Head(Top.todo)), [Top EXCEPT !.todo = Tail(@)]>> \o Tail(stack)
    /\ UNCHANGED <<clock, ret, line, before, outcome>>

SubCommandsEnd ==
    /\ At("sub")
    /\ Top.todo = <<>>
    /\ SetTop([Top EXCEPT !.at = "after"])
    /\ UNCHANGED <<clock, ret, line, before, outcome>>

\* exec: a return value that was not modified by the command is reset.
Reset ==
    /\ At("after")
    /\ ret.val # Missing
    /\ IF Top.pre > ret.time THEN SetRet("") ELSE UNCHANGED ret
    /\ stack' = Tail(stack)
    /\ outcome' = IF Tail(stack) = <<>> THEN "done" ELSE "running"
    /\ UNCHANGED <<clock, line, before>>

\* get_var_mod_time finds no "_", as no command has set one in this thread
\* yet, and throws; the text it gives to boost::format is refused, so that
\* what is thrown is no mkt::exception, and leaves the prompt's loop as well.
ResetThrows ==
    /\ At("after")
    /\ ret.val = Missing
    /\ stack' = <<>>
    /\ outcome' = "ended"
    /\ UNCHANGED <<clock, ret, line, before>>

Step ==
    \/ \E args \in Lines : Ex(args)
    \/ LookUp
    \/ LookUpThrows
    \/ Serial
    \/ Repeat
    \/ Version
    \/ Echo
    \/ ModuleCommand
    \/ SubCommand
    \/ SubCommandsEnd
    \/ Reset
    \/ ResetThrows

\* The command that is called is in a module that has been closed since it
\* was looked up.
ModuleCommandGone ==
    /\ At("call")
    /\ Top.code \in ModuleNames
    /\ handles[Top.code] = 0
    /\ CallOfClosed

UserStep ==
    \/ Step /\ UNCHANGED moduleVars
    \/ ModuleCommandGone /\ UNCHANGED interpreterVars

CommandsNext ==
    /\ ~crashed
    /\ ~exited
    /\ \/ /\ (\E t \in Threads : ModuleStep(t)) \/ Cleanup \/ CleanupThrows
          /\ UNCHANGED interpreterVars
       \/ UserStep

CommandsSpec == CommandsInit /\ [][CommandsNext]_vars

\* The scheduler runs the thread that executes the line.
FairCommandsSpec ==
    CommandsSpec /\ WF_vars(~crashed /\ ~exited /\ stack # <<>> /\ UserStep)
=============================================================================

-------------------------------- MODULE Log --------------------------------
(***************************************************************************)
(* src/mkt/log.cpp: the log queues, the slots through which the signals of *)
(* the other modules are logged, and the threads that log and read it.     *)
(* Each region under _log_mutex is one action.  get_logs takes the lock    *)
(* once for the names of the queues and once more for each queue.          *)
(*                                                                         *)
(* An entry is its serial number, its queue and its time; the queues and   *)
(* the serial map hold the same entries, and a queue is made with its      *)
(* first one.  The text of an entry is left out.                           *)
(***************************************************************************)
EXTENDS Integers, FiniteSets

CONSTANTS
    Readers,       \* threads that read the log
    SignalQueues,  \* the queues of init_log's slots: signal -> queue
    UserQueues,    \* queues the log command is given
    Matches,       \* queues a regular expression may match
    MaxEntries,    \* bound: entries there are when one more is logged
    MaxTime        \* bound: the clock

ASSUME BoundsAssumption == MaxEntries \in Nat /\ MaxTime \in Nat

VARIABLES
    now,        \* microsec_clock::universal_time()
    entries,    \* _log_entry_queues and _log_entry_serial_map
    connected,  \* init_log's slots are connected
    get         \* get[t]: the call of get_logs t is in

logVars == <<now, entries, connected, get>>

Signals == DOMAIN SignalQueues
Queues == UserQueues \cup {SignalQueues[s] : s \in Signals}
Entries == [serial: Nat, queue: Queues, time: 0..MaxTime]
NoCall == [at |-> "idle", match |-> {}, from |-> 0, to |-> 0,
           left |-> {}, result |-> {}, asked |-> 0]

LogTypeOK ==
    /\ now \in 0..MaxTime
    /\ entries \subseteq Entries
    /\ connected \in BOOLEAN
    /\ \A t \in Readers :
         /\ get[t].at \in {"idle", "queues", "read"}
         /\ get[t].left \subseteq get[t].match
         /\ get[t].result \subseteq entries

\* init_log has connected the slots.
LogInit ==
    /\ now = 0
    /\ entries = {}
    /\ connected = TRUE
    /\ get = [t \in Readers |-> NoCall]

\* Time passes.
Tick ==
    /\ now < MaxTime
    /\ now' = now + 1
    /\ UNCHANGED <<entries, connected, get>>

\* A mutation: the time of an entry is taken before the lock.
NewEntryEarly(q) ==
    \E time \in 0..now :
      entries' = entries \cup {[serial |-> Cardinality(entries), queue |-> q, time |-> time]}

\* log: the time and the serial number of an entry are taken under the lock.
NewEntry(q) ==
    entries' = entries \cup {[serial |-> Cardinality(entries), queue |-> q, time |-> now]}

\* log, and the log command.
LogMessage(q) ==
    /\ Cardinality(entries) < MaxEntries
    /\ NewEntry(q)
    /\ UNCHANGED <<now, connected, get>>

\* A signal is emitted: the slot logs it, if it is connected.
Emit(s) ==
    IF connected THEN NewEntry(SignalQueues[s]) ELSE UNCHANGED entries

\* A signal of a module that is not modelled here.
Signalled(s) ==
    /\ connected
    /\ Cardinality(entries) < MaxEntries
    /\ Emit(s)
    /\ UNCHANGED <<now, connected, get>>

\* final_log disconnects the slots init_log connected.
FinalLog == connected /\ connected' = FALSE /\ UNCHANGED <<now, entries, get>>

InRange(e, call) == e.queue \in call.match /\ call.from <= e.time /\ e.time <= call.to

\* get_logs is called; asked is the serial number of the next entry then.
GetLogs(t, match, from, to) ==
    /\ get[t].at = "idle"
    /\ get' = [get EXCEPT ![t] =
         [at |-> "queues", match |-> match, from |-> from, to |-> to,
          left |-> {}, result |-> {}, asked |-> Cardinality(entries)]]
    /\ UNCHANGED <<now, entries, connected>>

\* get_log_queues.
ListQueues(t) ==
    /\ get[t].at = "queues"
    /\ get' = [get EXCEPT ![t].at = "read",
                          ![t].left = {e.queue : e \in entries} \cap get[t].match]
    /\ UNCHANGED <<now, entries, connected>>

\* A mutation: the earliest entry of the range is left out.
ReadQueueExclusive(t) ==
    \E q \in get[t].left :
      /\ get[t].at = "read"
      /\ get' = [get EXCEPT ![t].left = @ \ {q},
           ![t].result = @ \cup {e \in entries : e.queue = q /\ InRange(e, get[t])
                                                  /\ e.time > get[t].from}]
      /\ UNCHANGED <<now, entries, connected>>

\* The entries of one queue between begin and end, both included.
ReadQueue(t) ==
    \E q \in get[t].left :
      /\ get[t].at = "read"
      /\ get' = [get EXCEPT ![t].left = @ \ {q},
           ![t].result = @ \cup {e \in entries : e.queue = q /\ InRange(e, get[t])}]
      /\ UNCHANGED <<now, entries, connected>>

GetLogsReturns(t) ==
    /\ get[t].at = "read"
    /\ get[t].left = {}
    /\ get' = [get EXCEPT ![t] = NoCall]
    /\ UNCHANGED <<now, entries, connected>>

\* get_logs with its arguments; the end it is called with by default is now.
Read(t) ==
    \/ \E match \in Matches, from \in {0, now} : GetLogs(t, match, from, now)
    \/ ListQueues(t)
    \/ ReadQueue(t)
    \/ GetLogsReturns(t)

LogNext ==
    \/ Tick \/ FinalLog
    \/ \E q \in UserQueues : LogMessage(q)
    \/ \E s \in Signals : Signalled(s)
    \/ \E t \in Readers : Read(t)

LogSpec == LogInit /\ [][LogNext]_logVars

-----------------------------------------------------------------------------
\* The order of the serial numbers is the order of the times, whatever threads
\* log at once, so that get_log's numbers and get_logs' ranges agree.
TimesFollowSerials ==
    \A e, f \in entries : e.serial < f.serial => e.time <= f.time

\* A call of get_logs as a question to the book; the queues it has listed and
\* read so far are nobody's business.
Question(t) ==
    [open |-> get[t].at # "idle", match |-> get[t].match,
     from |-> get[t].from, to |-> get[t].to,
     before |-> get[t].asked, answer |-> get[t].result]
Book == INSTANCE LogBook WITH
          clock <- now, book <- entries, next <- Cardinality(entries),
          asked <- [t \in Readers |-> Question(t)]

\* The log is a LogBook: every entry has a number of its own with none left out,
\* and get_logs returns "all logs between begin time and end time" that were
\* there when it was called, and nothing else, although it lists and reads the
\* queues one after another while others are written and made.
ImplementsLogBook == Book!Spec
=============================================================================

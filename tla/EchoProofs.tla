----------------------------- MODULE EchoProofs -----------------------------
(***************************************************************************)
(* Proofs about Echo and the log it is composed with: for any threads,     *)
(* queues, functions and bounds.                                           *)
(***************************************************************************)
EXTENDS Echo, FiniteSetTheorems, TLAPS

\* A call of get_logs.
GetCall == [at: {"idle", "queues", "read"}, match: SUBSET UNION Matches,
            from: 0..MaxTime, to: 0..MaxTime, left: SUBSET UNION Matches,
            result: SUBSET Entries, asked: Nat]

\* The serial numbers are given out upwards, and no entry is later than now.
Numbered ==
    /\ IsFiniteSet(entries)
    /\ \A e \in entries : e.serial < Cardinality(entries) /\ e.time <= now

\* What was logged before get_logs was called, and is asked for, it has
\* collected already or its queue is still to be read.
Collecting ==
    \A t \in Readers :
      /\ get[t].asked <= Cardinality(entries)
      /\ get[t].at = "read" =>
           \A e \in entries :
             e.serial < get[t].asked /\ InRange(e, get[t]) =>
               e.queue \in get[t].left \/ e \in get[t].result

LogInv ==
    /\ LogTypeOK /\ get \in [Readers -> GetCall]
    /\ Numbered /\ TimesFollowSerials /\ Collecting

LEMMA CardinalityOfEntries ==
    ASSUME LogInv
    PROVE  Cardinality(entries) \in Nat
  BY FS_CardinalityType DEF LogInv, Numbered

\* A step that only logs: what is new has the numbers that are next, and the
\* time it is.
Logs(new) ==
    /\ entries' = entries \cup new
    /\ new \subseteq Entries
    /\ IsFiniteSet(entries')
    /\ \A e \in new : /\ Cardinality(entries) <= e.serial
                      /\ e.serial < Cardinality(entries')
                      /\ e.time = now
    /\ \A e, f \in new : e.serial = f.serial => e = f
    /\ Cardinality(entries)..(Cardinality(entries') - 1) \subseteq {e.serial : e \in new}
    /\ UNCHANGED <<now, get>>

LEMMA LogsKeeps ==
    ASSUME LogInv, NEW new, Logs(new), connected' \in BOOLEAN
    PROVE  LogInv'
<1>1. /\ Cardinality(entries) \in Nat /\ Cardinality(entries') \in Nat
      /\ Cardinality(entries) <= Cardinality(entries')
  BY FS_CardinalityType, FS_Subset DEF LogInv, Numbered, Logs
<1>2. /\ now \in Int /\ entries \subseteq Entries
      /\ \A e \in Entries : e.serial \in Nat /\ e.time \in Int
  BY BoundsAssumption DEF LogInv, LogTypeOK, Entries
<1>3. LogTypeOK' /\ (get \in [Readers -> GetCall])'
  BY DEF LogInv, LogTypeOK, Logs
<1>4. Numbered'
  <2>1. ASSUME NEW e \in entries
        PROVE  e.serial < Cardinality(entries') /\ e.time <= now'
    <3>1. e.serial \in Nat /\ e.serial < Cardinality(entries) /\ e.time <= now
      BY <1>2 DEF LogInv, Numbered
    <3> QED
      BY <1>1, <3>1 DEF Logs
  <2>2. ASSUME NEW e \in new
        PROVE  e.serial < Cardinality(entries') /\ e.time <= now'
    <3>1. e.serial < Cardinality(entries') /\ e.time = now /\ now' = now
      BY DEF Logs
    <3>2. now <= now
      BY <1>2
    <3> QED
      BY <3>1, <3>2
  <2> QED
    BY <2>1, <2>2 DEF Numbered, Logs
<1>5. TimesFollowSerials'
  BY <1>1, <1>2 DEF LogInv, Numbered, TimesFollowSerials, Logs
<1>6. Collecting'
  <2> SUFFICES ASSUME NEW t \in Readers
               PROVE  (/\ get[t].asked <= Cardinality(entries)
                       /\ get[t].at = "read" =>
                            \A e \in entries :
                              e.serial < get[t].asked /\ InRange(e, get[t]) =>
                                e.queue \in get[t].left \/ e \in get[t].result)'
    BY DEF Collecting
  <2>1. get[t].asked \in Nat /\ get[t].asked <= Cardinality(entries)
    BY DEF LogInv, GetCall, Collecting
  <2>2. \A e \in new : ~(e.serial < get[t].asked)
    BY <1>1, <1>2, <2>1 DEF Logs
  <2> QED
    BY <1>1, <2>1, <2>2 DEF LogInv, Collecting, Logs, InRange
<1> QED
  BY <1>3, <1>4, <1>5, <1>6 DEF LogInv

\* log() does so with one entry.
LEMMA NewEntryLogs ==
    ASSUME LogInv, NEW q \in Queues, NewEntry(q), UNCHANGED <<now, get>>
    PROVE  \E new : Logs(new)
<1> DEFINE e == [serial |-> Cardinality(entries), queue |-> q, time |-> now]
<1>1. Cardinality(entries) \in Nat
  BY CardinalityOfEntries
<1>2. entries' = entries \cup {e}
  BY DEF NewEntry
<1>3. e \notin entries
  BY <1>1 DEF LogInv, Numbered
<1>4. IsFiniteSet(entries') /\ Cardinality(entries') = Cardinality(entries) + 1
  BY <1>2, <1>3, FS_AddElement DEF LogInv, Numbered
<1>5. e \in Entries
  BY <1>1 DEF LogInv, LogTypeOK, Entries
<1>6. Cardinality(entries)..(Cardinality(entries') - 1) = {e.serial}
  BY <1>1, <1>4
<1>7. Logs({e})
  BY <1>1, <1>2, <1>4, <1>5, <1>6 DEF Logs
<1> QED
  BY <1>7

-----------------------------------------------------------------------------
\* The steps of get_logs, which change nothing but the caller's call.
LEMMA ReadKeeps ==
    ASSUME LogInv, NEW t \in Readers, Read(t)
    PROVE  LogInv'
<1>1. /\ Cardinality(entries) \in Nat /\ 0 \in 0..MaxTime
      /\ now \in 0..MaxTime /\ entries \subseteq Entries
  BY CardinalityOfEntries, BoundsAssumption DEF LogInv, LogTypeOK
<1>2. UNCHANGED <<now, entries, connected>>
  BY DEF Read, GetLogs, ListQueues, ReadQueue, GetLogsReturns
<1>3. Numbered' /\ TimesFollowSerials'
  BY <1>2 DEF LogInv, Numbered, TimesFollowSerials
<1>4. SUFFICES LogTypeOK' /\ (get \in [Readers -> GetCall])' /\ Collecting'
  BY <1>3 DEF LogInv
<1> DEFINE Kept(u) ==
      /\ get'[u] \in GetCall
      /\ get'[u].left \subseteq get'[u].match
      /\ get'[u].result \subseteq entries
      /\ get'[u].asked <= Cardinality(entries)
      /\ get'[u].at = "read" =>
           \A e \in entries :
             e.serial < get'[u].asked /\ InRange(e, get'[u]) =>
               e.queue \in get'[u].left \/ e \in get'[u].result
<1>5. SUFFICES get' = [get EXCEPT ![t] = get'[t]] /\ Kept(t)
  <2>1. ASSUME NEW u \in Readers, u # t
        PROVE  get'[u] = get[u] => Kept(u)
    BY DEF LogInv, LogTypeOK, Collecting, GetCall
  <2>2. \A u \in Readers : Kept(u)
    BY <1>5, <2>1 DEF LogInv
  <2>3. (get \in [Readers -> GetCall])'
    BY <1>5, <2>2 DEF LogInv
  <2> QED
    BY <1>2, <2>2, <2>3 DEF LogInv, LogTypeOK, Collecting, GetCall
<1>6. get[t] \in GetCall /\ get \in [Readers -> GetCall]
  BY DEF LogInv
<1>7. ASSUME NEW match \in Matches, NEW from \in {0, now}, GetLogs(t, match, from, now)
      PROVE  get' = [get EXCEPT ![t] = get'[t]] /\ Kept(t)
  <2>1. get' = [get EXCEPT ![t] =
          [at |-> "queues", match |-> match, from |-> from, to |-> now,
           left |-> {}, result |-> {}, asked |-> Cardinality(entries)]]
    BY <1>7 DEF GetLogs
  <2> QED
    BY <1>1, <1>6, <2>1 DEF GetCall
<1>8. CASE ListQueues(t)
  <2>1. get' = [get EXCEPT ![t] = [get[t] EXCEPT !.at = "read",
                  !.left = {e.queue : e \in entries} \cap get[t].match]]
    BY <1>6, <1>8 DEF ListQueues, GetCall
  <2>2. get[t].asked <= Cardinality(entries) /\ get[t].result \subseteq entries
    BY DEF LogInv, LogTypeOK, Collecting
  <2> QED
    BY <1>6, <2>1, <2>2 DEF GetCall, InRange
<1>9. CASE ReadQueue(t)
  <2>1. PICK q \in get[t].left :
          /\ get[t].at = "read"
          /\ get' = [get EXCEPT ![t] = [get[t] EXCEPT !.left = @ \ {q},
               !.result = @ \cup {e \in entries : e.queue = q /\ InRange(e, get[t])}]]
    BY <1>6, <1>9, ZenonT(30) DEF ReadQueue, GetCall
  <2>2. /\ get[t].asked <= Cardinality(entries) /\ get[t].result \subseteq entries
        /\ get[t].left \subseteq get[t].match
        /\ \A e \in entries : e.serial < get[t].asked /\ InRange(e, get[t]) =>
             e.queue \in get[t].left \/ e \in get[t].result
    BY <2>1 DEF LogInv, LogTypeOK, Collecting
  <2> QED
    BY <1>1, <1>6, <2>1, <2>2 DEF GetCall, InRange
<1>10. CASE GetLogsReturns(t)
  <2>1. get' = [get EXCEPT ![t] = NoCall]
    BY <1>10 DEF GetLogsReturns
  <2> QED
    BY <1>1, <1>6, <2>1 DEF GetCall, NoCall
<1> QED
  BY <1>7, <1>8, <1>9, <1>10 DEF Read

\* The invariant of the log, whoever writes it: log(), the slots, and the
\* echoes, which are logged.
LEMMA LogInvariant == Spec => []LogInv
<1>1. Init => LogInv
  <2> SUFFICES ASSUME Init
               PROVE  LogInv
    OBVIOUS
  <2>1. entries = {} /\ now = 0 /\ connected = TRUE /\ get = [t \in Readers |-> NoCall]
    BY DEF Init, LogInit
  <2>2. 0 \in 0..MaxTime /\ Cardinality({}) = 0 /\ IsFiniteSet({})
    BY BoundsAssumption, FS_EmptySet
  <2>3. NoCall \in GetCall
    BY <2>2 DEF NoCall, GetCall
  <2> QED
    BY <2>1, <2>2, <2>3 DEF LogInv, LogTypeOK, Numbered, TimesFollowSerials,
       Collecting, NoCall
<1>2. LogInv /\ [Next]_vars => LogInv'
  <2> SUFFICES ASSUME LogInv, [Next]_vars
               PROVE  LogInv'
    OBVIOUS
  <2>1. connected \in BOOLEAN
    BY DEF LogInv, LogTypeOK
  <2>2. ASSUME NEW q \in UserQueues, LogMessage(q)
        PROVE  LogInv'
    <3>1. NewEntry(q) /\ q \in Queues /\ UNCHANGED <<now, connected, get>>
      BY <2>2 DEF LogMessage, Queues
    <3> QED
      BY <2>1, <3>1, NewEntryLogs, LogsKeeps
  <2>3. ASSUME NEW s \in Signals, Emit(s), UNCHANGED <<now, connected, get>>
        PROVE  LogInv'
    <3>1. CASE connected
      <4>1. NewEntry(SignalQueues[s]) /\ SignalQueues[s] \in Queues
        BY <2>3, <3>1 DEF Emit, Queues
      <4> QED
        BY <2>1, <2>3, <4>1, NewEntryLogs, LogsKeeps
    <3>2. CASE ~connected
      BY <2>3, <3>2 DEF Emit, LogInv, LogTypeOK, Numbered, TimesFollowSerials,
         Collecting
    <3> QED
      BY <3>1, <3>2
  <2>4. ASSUME NEW s \in Signals, Signalled(s)
        PROVE  LogInv'
    BY <2>3, <2>4 DEF Signalled
  <2>5. ASSUME NEW t \in Echoers, NEW id \in Registered, Register(t, id)
        PROVE  LogInv'
    BY <2>3, <2>5, SlotsAssumption DEF Register
  <2>6. CASE UNCHANGED <<now, entries, get>> /\ connected' \in BOOLEAN
    BY <2>6 DEF LogInv, LogTypeOK, Numbered, TimesFollowSerials, Collecting
  <2>7. ASSUME NEW t \in Echoers, RemoteExecutes(t) \/ RemoteThrows(t)
        PROVE  LogInv'
    <3>1. UNCHANGED <<now, connected, get>> /\ (UNCHANGED entries \/ Emit("command_pre_exec"))
      BY <2>7 DEF RemoteExecutes, RemoteThrows, Terminates
    <3> QED
      BY <2>1, <2>3, <2>6, <3>1, SlotsAssumption
  <2>8. ASSUME NEW t \in Readers, Read(t)
        PROVE  LogInv'
    BY <2>8, ReadKeeps
  <2>9. CASE Tick
    <3>1. now \in Nat /\ now' = now + 1 /\ now' \in 0..MaxTime
      BY <2>9, BoundsAssumption DEF Tick, LogInv, LogTypeOK
    <3>2. UNCHANGED <<entries, connected, get>>
      BY <2>9 DEF Tick
    <3>3. Numbered'
      <4> SUFFICES ASSUME NEW e \in entries
                   PROVE  e.time <= now'
        BY <3>2 DEF LogInv, Numbered
      <4>1. e.time \in Nat /\ e.time <= now
        BY BoundsAssumption DEF LogInv, LogTypeOK, Numbered, Entries
      <4> QED
        BY <3>1, <4>1
    <3> QED
      BY <3>1, <3>2, <3>3 DEF LogInv, LogTypeOK, TimesFollowSerials, Collecting
  <2>10. CASE LogNext
    BY <2>2, <2>4, <2>8, <2>9, <2>6, <2>10 DEF LogNext, FinalLog
  <2>11. CASE UNCHANGED vars
    BY <2>1, <2>6, <2>11 DEF vars, logVars
  <2>12. ASSUME NEW t \in Echoers, EchoStep(t) \/ EchoStarts(t, SysEcho)
         PROVE  LogInv'
    BY <2>1, <2>7, <2>6, <2>12 DEF EchoStep, EchoStarts, EchoLocks, EchoEmpty,
       WriteFirst, WriteRest, StayQuiet, QuietThrows, Terminates, CallsBack,
       RemoteStarts, RemoteReturns, logVars
  <2>13. ASSUME NEW t \in Echoers, NEW id \in Registered,
                Unregister(t, id) \/ EchoStarts(t, <<id>>)
         PROVE  LogInv'
    BY <2>1, <2>6, <2>13 DEF Unregister, EchoStarts, logVars
  <2> QED
    BY <2>5, <2>10, <2>11, <2>12, <2>13 DEF Next, Call
<1> QED
  BY <1>1, <1>2, PTL DEF Spec

\* The serial numbers of the log follow its times, however many threads log and
\* echo at once (log.cpp, log()).
THEOREM TimesFollow == Spec => []TimesFollowSerials
<1>1. LogInv => TimesFollowSerials
  BY DEF LogInv
<1> QED
  BY <1>1, LogInvariant, PTL

\* Whenever get_logs returns, it has every entry it was asked for that was
\* there when it was called (log.cpp, get_logs).
LogsAreComplete ==
    [][\A t \in Readers :
         get[t].at = "read" /\ get'[t].at = "idle" =>
           \A e \in entries :
             e.serial < get[t].asked /\ InRange(e, get[t]) => e \in get[t].result]_logVars

THEOREM LogsComplete == Spec => LogsAreComplete
<1> DEFINE Complete ==
      \A t \in Readers :
        get[t].at = "read" /\ get'[t].at = "idle" =>
          \A e \in entries :
            e.serial < get[t].asked /\ InRange(e, get[t]) => e \in get[t].result
<1>1. LogInv /\ [Next]_vars => [Complete]_logVars
  <2> SUFFICES ASSUME LogInv, [Next]_vars, NEW t \in Readers,
                      get[t].at = "read", get'[t].at = "idle"
               PROVE  get[t].left = {}
    BY DEF LogInv, Collecting
  <2>1. get[t] \in GetCall /\ get \in [Readers -> GetCall]
    BY DEF LogInv
  <2>2. get' # get
    OBVIOUS
  <2>3. PICK u \in Readers : Read(u)
    BY <2>2 DEF Next, LogNext, Tick, FinalLog, LogMessage, Signalled, EchoStep,
       EchoLocks, EchoEmpty, WriteFirst, WriteRest, StayQuiet, QuietThrows, Terminates,
       CallsBack, RemoteStarts, RemoteExecutes, RemoteThrows, RemoteReturns, EchoStarts,
       Call, Register, Unregister, vars, logVars
  <2>4. CASE u # t
    <3>1. get'[t] = get[t]
      BY <2>1, <2>3, <2>4 DEF Read, GetLogs, ListQueues, ReadQueue, GetLogsReturns
    <3> QED
      BY <3>1
  <2>5. CASE u = t
    <3>1. CASE \E match \in Matches, from \in {0, now} : GetLogs(t, match, from, now)
      BY <3>1 DEF GetLogs
    <3>2. CASE ListQueues(t)
      BY <3>2 DEF ListQueues
    <3>3. CASE ReadQueue(t)
      <4>1. get'[t].at = get[t].at
        BY <2>1, <3>3 DEF ReadQueue, GetCall
      <4> QED
        BY <4>1
    <3>4. CASE GetLogsReturns(t)
      BY <3>4 DEF GetLogsReturns
    <3> QED
      BY <2>3, <2>5, <3>1, <3>2, <3>3, <3>4 DEF Read
  <2> QED
    BY <2>4, <2>5
<1>2. Spec => [][Complete]_logVars
  BY <1>1, LogInvariant, PTL DEF Spec
<1> QED
  BY <1>2 DEF LogsAreComplete

-----------------------------------------------------------------------------
\* What logs is a Write of the book,
LEMMA LogsWrites ==
    ASSUME LogInv, NEW new, Logs(new)
    PROVE  Book!Write
<1>1. Cardinality(entries) \in Nat /\ Cardinality(entries') \in Nat
  BY CardinalityOfEntries, FS_CardinalityType DEF Logs
<1>2. \A e \in entries : e.serial < Cardinality(entries) /\ e.serial \in Nat
  BY DEF LogInv, LogTypeOK, Numbered, Entries
<1>3. entries' \ entries = new /\ entries \subseteq entries'
  BY <1>1, <1>2 DEF Logs, Entries
<1>4. \A e \in new : e.queue \in Queues /\ e.time = now
  BY DEF Logs, Entries
<1>5. {e.serial : e \in new} = Cardinality(entries)..(Cardinality(entries') - 1)
  <2>1. \A e \in new : e.serial \in Cardinality(entries)..(Cardinality(entries') - 1)
    BY <1>1 DEF Logs, Entries
  <2> QED
    BY <2>1 DEF Logs
<1>6. [t \in Readers |-> Question(t)]' = [t \in Readers |-> Question(t)]
  BY DEF Logs, Question
<1>7. Cardinality(entries) <= Cardinality(entries')
  BY <1>3, FS_Subset DEF Logs
<1> QED
  BY <1>3, <1>4, <1>5, <1>6, <1>7 DEF Book!Write, Logs

\* and a step of get_logs is one of the question it stands for.
LEMMA ReadAsks ==
    ASSUME LogInv, NEW t \in Readers, Read(t)
    PROVE  Book!Ask(t) \/ Book!Find(t) \/ Book!Answer(t)
<1> DEFINE asked == [u \in Readers |-> Question(u)]
<1>1. UNCHANGED <<now, entries>>
  BY DEF Read, GetLogs, ListQueues, ReadQueue, GetLogsReturns
<1>2. get \in [Readers -> GetCall] /\ now \in 0..MaxTime /\ 0 \in 0..MaxTime
  BY BoundsAssumption DEF LogInv, LogTypeOK
<1>3. asked[t] = Question(t)
  OBVIOUS
<1>4. ASSUME NEW question, Question(t)' = question,
             \A u \in Readers \ {t} : get'[u] = get[u]
      PROVE  asked' = [asked EXCEPT ![t] = question]
  BY <1>4 DEF Question
<1>5. Book!EntriesFor(Question(t)) = {e \in entries : InRange(e, get[t])}
  BY DEF Book!EntriesFor, Question, InRange
<1>6. ASSUME NEW match \in Matches, NEW from \in {0, now}, GetLogs(t, match, from, now)
      PROVE  Book!Ask(t)
  <2>1. Question(t)' = [open |-> TRUE, match |-> match, from |-> from, to |-> now,
                        before |-> Cardinality(entries), answer |-> {}]
    BY <1>2, <1>6 DEF GetLogs, Question
  <2>2. \A u \in Readers \ {t} : get'[u] = get[u]
    BY <1>2, <1>6 DEF GetLogs
  <2>3. asked' = [asked EXCEPT ![t] =
          [open |-> TRUE, match |-> match, from |-> from, to |-> now,
           before |-> Cardinality(entries), answer |-> {}]]
    BY <1>4, <2>1, <2>2
  <2>4. ~asked[t].open
    BY <1>3, <1>6 DEF GetLogs, Question
  <2> HIDE DEF asked
  <2>5. from \in 0..MaxTime /\ now \in 0..MaxTime
    BY <1>2
  <2> QED
    BY <1>1, <2>3, <2>4, <2>5 DEF Book!Ask, asked
<1>7. CASE ListQueues(t)
  <2>1. Question(t)' = Question(t) /\ \A u \in Readers \ {t} : get'[u] = get[u]
    BY <1>2, <1>7 DEF ListQueues, Question, GetCall
  <2>2. [asked[t] EXCEPT !.answer = @ \cup {}] = Question(t)
    BY <1>3 DEF Question
  <2>3. asked' = [asked EXCEPT ![t].answer = @ \cup {}]
    BY <1>3, <1>4, <2>1, <2>2
  <2>4. asked[t].open
    BY <1>3, <1>7 DEF ListQueues, Question
  <2>5. {} \in SUBSET Book!EntriesFor(asked[t])
    OBVIOUS
  <2> QED
    BY <1>1, <2>3, <2>4, <2>5 DEF Book!Find
<1>8. CASE ReadQueue(t)
  <2>1. PICK q \in get[t].left :
          get' = [get EXCEPT ![t].left = @ \ {q},
                   ![t].result = @ \cup {e \in entries : e.queue = q /\ InRange(e, get[t])}]
    BY <1>8 DEF ReadQueue
  <2> DEFINE found == {e \in entries : e.queue = q /\ InRange(e, get[t])}
  <2>2. found \in SUBSET Book!EntriesFor(asked[t])
    BY <1>3, <1>5
  <2>3. \A u \in Readers \ {t} : get'[u] = get[u]
    BY <1>2, <2>1
  <2> HIDE DEF found
  <2>4. get'[t] = [get[t] EXCEPT !.left = @ \ {q}, !.result = @ \cup found]
    BY <1>2, <2>1 DEF found
  <2>5. get[t] \in GetCall
    BY <1>2
  <2>6. /\ get'[t].at = get[t].at /\ get'[t].match = get[t].match
        /\ get'[t].from = get[t].from /\ get'[t].to = get[t].to
        /\ get'[t].asked = get[t].asked /\ get'[t].result = get[t].result \cup found
    BY <2>4, <2>5 DEF GetCall
  <2>7. Question(t)' = [Question(t) EXCEPT !.answer = @ \cup found]
    BY <2>6 DEF Question
  <2>8. asked' = [asked EXCEPT ![t].answer = @ \cup found]
    BY <1>3, <1>4, <2>7, <2>3
  <2>9. asked[t].open
    BY <1>3, <1>8 DEF ReadQueue, Question
  <2> QED
    BY <1>1, <2>2, <2>8, <2>9 DEF Book!Find
<1>9. CASE GetLogsReturns(t)
  <2>1. get[t].left = {} /\ get[t].at = "read" /\ get' = [get EXCEPT ![t] = NoCall]
    BY <1>9 DEF GetLogsReturns
  <2>2. Question(t)' = Book!NoQuestion /\ \A u \in Readers \ {t} : get'[u] = get[u]
    BY <1>2, <2>1 DEF Question, NoCall, Book!NoQuestion
  <2>3. asked' = [asked EXCEPT ![t] = Book!NoQuestion]
    BY <1>4, <2>2
  <2>4. asked[t].open /\ asked[t].before = get[t].asked /\ asked[t].answer = get[t].result
    BY <1>3, <2>1 DEF Question
  <2>5. \A e \in Book!EntriesFor(asked[t]) :
           e.serial < asked[t].before => e \in asked[t].answer
    BY <1>3, <1>5, <2>1, <2>4 DEF LogInv, Collecting
  <2> QED
    BY <1>1, <2>3, <2>4, <2>5 DEF Book!Answer
<1> QED
  BY <1>6, <1>7, <1>8, <1>9 DEF Read

\* The log, read and written by any threads while others echo, is a LogBook
\* (log.cpp, log() and get_logs; xmlrpc.cpp, do_remote_echo).
THEOREM LogBookImplemented == Spec => ImplementsLogBook
<1> DEFINE asked == [t \in Readers |-> Question(t)]
<1>1. Init => Book!Init
  <2> SUFFICES ASSUME Init
               PROVE  Book!Init
    OBVIOUS
  <2>1. now = 0 /\ entries = {} /\ Cardinality(entries) = 0
    BY FS_EmptySet DEF Init, LogInit
  <2>2. \A t \in Readers : Question(t) = Book!NoQuestion
    BY DEF Init, LogInit, Question, NoCall, Book!NoQuestion
  <2> QED
    BY <2>1, <2>2 DEF Book!Init
<1>2. LogInv /\ [Next]_vars => [Book!Next]_(Book!bookVars)
  <2> SUFFICES ASSUME LogInv, [Next]_vars
               PROVE  Book!Next \/ UNCHANGED <<now, entries, asked>>
    BY DEF Book!bookVars
  <2>1. ASSUME NEW q \in UserQueues, LogMessage(q)
        PROVE  Book!Next
    <3>1. NewEntry(q) /\ q \in Queues /\ UNCHANGED <<now, get>>
      BY <2>1 DEF LogMessage, Queues
    <3> QED
      BY <3>1, NewEntryLogs, LogsWrites DEF Book!Next
  <2>2. ASSUME NEW s \in Signals, Emit(s), UNCHANGED <<now, get>>
        PROVE  Book!Next \/ UNCHANGED <<now, entries, asked>>
    <3>1. CASE connected
      <4>1. NewEntry(SignalQueues[s]) /\ SignalQueues[s] \in Queues
        BY <2>2, <3>1 DEF Emit, Queues
      <4> QED
        BY <2>2, <4>1, NewEntryLogs, LogsWrites DEF Book!Next
    <3>2. CASE ~connected
      BY <2>2, <3>2 DEF Emit, Question
    <3> QED
      BY <3>1, <3>2
  <2>3. ASSUME NEW t \in Echoers, RemoteExecutes(t) \/ RemoteThrows(t)
        PROVE  Book!Next \/ UNCHANGED <<now, entries, asked>>
    <3>1. UNCHANGED <<now, get>> /\ (UNCHANGED entries \/ Emit("command_pre_exec"))
      BY <2>3 DEF RemoteExecutes, RemoteThrows, Terminates
    <3> QED
      BY <2>2, <3>1, SlotsAssumption DEF Question
  <2>4. ASSUME NEW t \in Readers, Read(t)
        PROVE  Book!Next
    BY <2>4, ReadAsks DEF Book!Next
  <2>5. CASE Tick
    <3>1. asked' = asked /\ now' = now + 1 /\ entries' = entries
      BY <2>5 DEF Tick, Question
    <3> QED
      BY <3>1 DEF Book!Next, Book!Tick
  <2>6. CASE UNCHANGED <<now, entries, get>>
    BY <2>6 DEF Question
  <2>7. CASE LogNext
    BY <2>1, <2>2, <2>4, <2>5, <2>6, <2>7 DEF LogNext, FinalLog, Signalled
  <2>8. ASSUME NEW t \in Echoers, NEW id \in Registered, Register(t, id)
        PROVE  Book!Next \/ UNCHANGED <<now, entries, asked>>
    BY <2>2, <2>8, SlotsAssumption DEF Register
  <2>9. ASSUME NEW t \in Echoers, EchoStep(t) \/ EchoStarts(t, SysEcho)
        PROVE  Book!Next \/ UNCHANGED <<now, entries, asked>>
    BY <2>3, <2>6, <2>9 DEF EchoStep, EchoStarts, EchoLocks, EchoEmpty,
       WriteFirst, WriteRest, StayQuiet, QuietThrows, Terminates, CallsBack,
       RemoteStarts, RemoteReturns, logVars
  <2>10. ASSUME NEW t \in Echoers, NEW id \in Registered,
                Unregister(t, id) \/ EchoStarts(t, <<id>>)
         PROVE  UNCHANGED <<now, entries, asked>>
    BY <2>6, <2>10 DEF Unregister, EchoStarts, logVars, Question
  <2>11. CASE UNCHANGED vars
    BY <2>6, <2>11 DEF vars, logVars
  <2> QED
    BY <2>7, <2>8, <2>9, <2>10, <2>11 DEF Next, Call
<1> QED
  BY <1>1, <1>2, LogInvariant, PTL DEF Spec, ImplementsLogBook, Book!Spec

-----------------------------------------------------------------------------
\* The pieces written, and the thread that is between its two.
Pieces == Seq(Echoers \X {1, 2})

\* Whoever is in a function holds the lock, so that only one thread is; and
\* what a thread has half written is what was written last.
Excluded ==
    /\ functions \subseteq Ids
    /\ holder \in Echoers \cup {NoThread}
    /\ todo \in [Echoers -> Seq(Ids)]
    /\ at \in [Echoers -> {"idle", "lock"} \cup InFunction]
    /\ hosts \in [Echoers -> 0..RemoteHosts]
    /\ ended \in BOOLEAN
    /\ calls \in 0..MaxCalls
    /\ \A t \in Echoers : at[t] # "idle" => todo[t] # <<>>
    /\ \A t \in Echoers : at[t] \in InFunction => holder = t

Halves ==
    /\ written \in Pieces
    /\ \A t \in Echoers : at[t] = "half" =>
         Len(written) > 0 /\ written[Len(written)] = <<t, 1>>

EchoInv == Excluded /\ Halves /\ OutputIsWhole

LEMMA SysEchoIds == SysEcho \in Seq(Ids)
  BY IdsAssumption DEF Ids

\* The function returns: the lock is free again.
LEMMA EndKeeps ==
    ASSUME Excluded, NEW t \in Echoers, at[t] \in InFunction, EchoEnd(t),
           UNCHANGED <<functions, hosts, ended, calls>>
    PROVE  Excluded' /\ \A u \in Echoers : at'[u] # "half"
<1>1. todo[t] \in Seq(Ids) /\ todo[t] # <<>>
  BY DEF Excluded, InFunction
<1>2. Tail(todo[t]) \in Seq(Ids)
  BY <1>1
<1>3. \A u \in Echoers : u # t => at[u] \notin InFunction
  BY Zenon DEF Excluded
<1> QED
  BY <1>2, <1>3 DEF Excluded, EchoEnd, InFunction

LEMMA EchoInvariant == Spec => []EchoInv
<1>1. Init => EchoInv
  <2>1. 0 \in 0..MaxCalls /\ 0 \in 0..RemoteHosts
    BY NumbersAssumption
  <2> SUFFICES ASSUME Init
               PROVE  EchoInv
    OBVIOUS
  <2>2. /\ functions = Ids /\ holder = NoThread /\ calls = 0 /\ ended = FALSE
        /\ todo = [t \in Echoers |-> <<>>] /\ at = [t \in Echoers |-> "idle"]
        /\ hosts = [t \in Echoers |-> 0] /\ written = <<>>
    BY DEF Init
  <2>3. /\ hosts \in [Echoers -> 0..RemoteHosts] /\ calls \in 0..MaxCalls
        /\ todo \in [Echoers -> Seq(Ids)]
    BY <2>1, <2>2
  <2>4. \A t \in Echoers : at[t] = "idle" /\ at[t] \notin InFunction
    BY <2>2 DEF InFunction
  <2>5. Excluded
    BY <2>2, <2>3, <2>4 DEF Excluded
  <2>6. Halves /\ OutputIsWhole
    BY <2>2 DEF Halves, Pieces, OutputIsWhole
  <2> QED
    BY <2>5, <2>6 DEF EchoInv
<1>2. EchoInv /\ [Next]_vars => EchoInv'
  <2> SUFFICES ASSUME EchoInv, [Next]_vars
               PROVE  EchoInv'
    OBVIOUS
  <2> USE DEF EchoInv
  <2>1. CASE UNCHANGED echoVars
    BY <2>1 DEF echoVars, Excluded, Halves, OutputIsWhole
  <2>2. ASSUME NEW t \in Echoers, Idle(t)
        PROVE  calls' \in 0..MaxCalls
    <3>1. calls \in Nat /\ calls <= MaxCalls /\ calls < MaxCalls /\ calls' = calls + 1
      BY <2>2, NumbersAssumption DEF Idle, Excluded
    <3> QED
      BY <3>1, NumbersAssumption
  <2>3. ASSUME NEW t \in Echoers, NEW id \in Registered,
               Register(t, id) \/ Unregister(t, id)
        PROVE  EchoInv'
    <3>1. functions' \subseteq Ids /\ calls' \in 0..MaxCalls
      BY <2>2, <2>3 DEF Register, Unregister, Excluded, Ids
    <3>2. UNCHANGED <<holder, todo, at, hosts, written, ended>>
      BY <2>3 DEF Register, Unregister
    <3> QED
      BY <3>1, <3>2 DEF Excluded, Halves, OutputIsWhole
  <2>4. ASSUME NEW t \in Echoers, NEW ids \in Seq(Ids), ids # <<>>, EchoStarts(t, ids)
        PROVE  EchoInv'
    <3>1. calls' \in 0..MaxCalls
      BY <2>2, <2>4 DEF EchoStarts
    <3>2. /\ at[t] = "idle" /\ at' = [at EXCEPT ![t] = "lock"]
          /\ todo' = [todo EXCEPT ![t] = ids] /\ UNCHANGED <<functions, holder, hosts, written, ended>>
      BY <2>4 DEF EchoStarts, Idle
    <3> QED
      BY <2>4, <3>1, <3>2 DEF Excluded, InFunction, Halves, OutputIsWhole
  <2>5. ASSUME NEW t \in Echoers, EchoLocks(t)
        PROVE  EchoInv'
    BY <2>5, EchoersAssumption DEF EchoLocks, Excluded, InFunction, Halves, OutputIsWhole
  <2>6. ASSUME NEW t \in Echoers, EchoEmpty(t) \/ StayQuiet(t) \/ RemoteReturns(t)
        PROVE  EchoInv'
    <3>1. /\ at[t] \in InFunction /\ EchoEnd(t)
          /\ UNCHANGED <<functions, hosts, written, ended, calls>>
      BY <2>6 DEF EchoEmpty, StayQuiet, DoEcho, RemoteReturns, InFunction
    <3> QED
      BY <3>1, EndKeeps DEF Halves, OutputIsWhole
  <2>7. ASSUME NEW t \in Echoers, WriteFirst(t)
        PROVE  EchoInv'
    <3>1. /\ at[t] = "inside" /\ at' = [at EXCEPT ![t] = "half"]
          /\ written' = Append(written, <<t, 1>>)
          /\ UNCHANGED <<functions, holder, todo, hosts, ended, calls>>
      BY <2>7 DEF WriteFirst, DoEcho
    <3>2. \A u \in Echoers : u # t => at'[u] # "half"
      BY <3>1 DEF Excluded, InFunction
    <3>3. /\ written' \in Pieces /\ Len(written') = Len(written) + 1
          /\ written'[Len(written')] = <<t, 1>>
          /\ \A i \in 1..Len(written) : written'[i] = written[i]
      BY <3>1 DEF Halves, Pieces
    <3>4. Excluded'
      BY <3>1 DEF Excluded, InFunction
    <3>5. Halves'
      BY <3>1, <3>2, <3>3 DEF Halves, Pieces
    <3>6. OutputIsWhole'
      <4> SUFFICES ASSUME NEW i \in 1..Len(written'), written'[i][2] = 2
                   PROVE  i > 1 /\ written'[i - 1] = <<written'[i][1], 1>>
        BY DEF OutputIsWhole
      <4>1. i # Len(written')
        BY <3>3
      <4>2. Len(written) \in Nat /\ i \in 1..Len(written)
        BY <3>3, <4>1 DEF Halves, Pieces
      <4>3. i > 1 /\ written[i - 1] = <<written[i][1], 1>>
        BY <3>3, <4>2 DEF OutputIsWhole
      <4> QED
        BY <3>3, <4>2, <4>3
    <3> QED
      BY <3>4, <3>5, <3>6
  <2>8. ASSUME NEW t \in Echoers, WriteRest(t)
        PROVE  EchoInv'
    <3>1. /\ at[t] = "half" /\ EchoEnd(t) /\ UNCHANGED <<functions, hosts, ended, calls>>
          /\ written' = Append(written, <<t, 2>>)
      BY <2>8 DEF WriteRest
    <3>2. Excluded' /\ \A u \in Echoers : at'[u] # "half"
      BY <3>1, EndKeeps DEF InFunction
    <3>3. /\ written' \in Pieces /\ Len(written') = Len(written) + 1
          /\ written'[Len(written')] = <<t, 2>>
          /\ \A i \in 1..Len(written) : written'[i] = written[i]
      BY <3>1 DEF Halves, Pieces
    <3>4. Len(written) \in Nat /\ Len(written) > 0 /\ written[Len(written)] = <<t, 1>>
      BY <3>1 DEF Halves, Pieces
    <3>5. Halves'
      BY <3>2, <3>3 DEF Halves
    <3>6. OutputIsWhole'
      <4> SUFFICES ASSUME NEW i \in 1..Len(written'), written'[i][2] = 2
                   PROVE  i > 1 /\ written'[i - 1] = <<written'[i][1], 1>>
        BY DEF OutputIsWhole
      <4>1. CASE i = Len(written')
        <5>1. i - 1 = Len(written) /\ i > 1 /\ Len(written) \in 1..Len(written)
          BY <3>3, <3>4, <4>1
        <5>2. written'[i - 1] = <<t, 1>> /\ written'[i] = <<t, 2>>
          BY <3>3, <3>4, <4>1, <5>1
        <5> QED
          BY <5>1, <5>2
      <4>2. CASE i # Len(written')
        <5>1. i \in 1..Len(written)
          BY <3>3, <3>4, <4>2
        <5>2. i > 1 /\ written[i - 1] = <<written[i][1], 1>>
          BY <3>3, <5>1 DEF OutputIsWhole
        <5> QED
          BY <3>3, <3>4, <5>1, <5>2
      <4> QED
        BY <4>1, <4>2
    <3> QED
      BY <3>2, <3>5, <3>6
  <2>9. SysEcho \in Seq(Ids) /\ SysEcho # <<>>
    BY SysEchoIds, IdsAssumption
  <2>10. \A id \in Registered : <<id>> \in Seq(Ids) /\ <<id>> # <<>>
    BY DEF Ids
  <2>11. ASSUME NEW t \in Echoers, QuietThrows(t) \/ RemoteThrows(t)
         PROVE  EchoInv'
    <3>1. ended' = TRUE /\ UNCHANGED <<functions, holder, todo, at, hosts, written, calls>>
      BY <2>11 DEF QuietThrows, RemoteThrows, Terminates
    <3> QED
      BY <3>1 DEF Excluded, Halves, OutputIsWhole
  <2>12. ASSUME NEW t \in Echoers, RemoteStarts(t) \/ RemoteExecutes(t) \/ CallsBack(t)
         PROVE  EchoInv'
    <3>1. /\ at[t] \in {"inside", "hosts"}
          /\ \/ at' = [at EXCEPT ![t] = "hosts"]
             \/ at' = [at EXCEPT ![t] = "back"]
             \/ at' = at
          /\ UNCHANGED <<functions, holder, todo, written, ended, calls>>
      BY <2>12 DEF RemoteStarts, RemoteExecutes, CallsBack
    <3>2. hosts' \in [Echoers -> 0..RemoteHosts]
      <4>1. CASE RemoteStarts(t)
        BY <4>1 DEF RemoteStarts, Excluded
      <4>2. CASE RemoteExecutes(t)
        <5>1. hosts[t] \in 0..RemoteHosts /\ hosts[t] > 0 /\ hosts' = [hosts EXCEPT ![t] = @ - 1]
          BY <4>2 DEF RemoteExecutes, Excluded
        <5>2. hosts[t] - 1 \in 0..RemoteHosts
          BY <5>1, NumbersAssumption
        <5> QED
          BY <5>1, <5>2 DEF Excluded
      <4>3. CASE CallsBack(t)
        BY <4>3 DEF CallsBack, Excluded
      <4> QED
        BY <2>12, <4>1, <4>2, <4>3
    <3>3. at' \in [Echoers -> {"idle", "lock"} \cup InFunction]
      BY <3>1 DEF Excluded, InFunction
    <3>4. /\ \A u \in Echoers : at'[u] # "idle" => at[u] # "idle"
          /\ \A u \in Echoers : at'[u] \in InFunction => at[u] \in InFunction
          /\ \A u \in Echoers : at'[u] = "half" => at[u] = "half"
      BY <3>1 DEF Excluded, InFunction
    <3> QED
      BY <3>1, <3>2, <3>3, <3>4 DEF Excluded, Halves, OutputIsWhole
  <2>13. ASSUME NEW t \in Echoers, EchoStep(t)
         PROVE  EchoInv'
    BY <2>5, <2>6, <2>7, <2>8, <2>11, <2>12, <2>13 DEF EchoStep
  <2>14. ASSUME NEW t \in Echoers, Call(t)
         PROVE  EchoInv'
    BY <2>3, <2>4, <2>9, <2>10, <2>14 DEF Call
  <2> QED
    BY <2>1, <2>13, <2>14 DEF Next, vars, echoVars
<1> QED
  BY <1>1, <1>2, PTL DEF Spec

\* What one thread echoes is never mixed with what another does, although they
\* only share the map and its lock (echo.cpp, echo()).
THEOREM Whole == Spec => []OutputIsWhole
<1>1. EchoInv => OutputIsWhole
  BY DEF EchoInv
<1> QED
  BY <1>1, EchoInvariant, PTL

\* The variables of Echo and of Log keep their types; a thread in an echo
\* function holds _echo_map_mutex.
THEOREM TypeCorrect == Spec => []EchoTypeOK
<1>1. EchoInv /\ LogInv => EchoTypeOK
  BY DEF EchoInv, Excluded, LogInv, EchoTypeOK
<1> QED
  BY <1>1, EchoInvariant, LogInvariant, PTL
=============================================================================

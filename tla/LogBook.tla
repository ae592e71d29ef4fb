------------------------------ MODULE LogBook ------------------------------
(***************************************************************************)
(* What the log promises to those who write and read it: a book without    *)
(* queues to be listed or locks to be taken.  What is entered gets the     *)
(* next numbers and the time it is, and an answer has every entry of the   *)
(* range asked for that was in the book before the question, and none      *)
(* that is out of range or was never entered.  Log and Echo implement it.  *)
(***************************************************************************)
EXTENDS Integers

CONSTANTS
    Readers,   \* who asks
    Queues,    \* the queues an entry may be in
    Matches,   \* sets of queues that may be asked for
    MaxTime    \* bound: the clock

VARIABLES
    clock,
    book,      \* the entries
    next,      \* the number the next entry gets
    asked      \* asked[t]: the question of t, or NoQuestion

bookVars == <<clock, book, next, asked>>

NoQuestion == [open |-> FALSE, match |-> {}, from |-> 0, to |-> 0, before |-> 0, answer |-> {}]

Init ==
    /\ clock = 0
    /\ book = {}
    /\ next = 0
    /\ asked = [t \in Readers |-> NoQuestion]

Tick == clock' = clock + 1 /\ UNCHANGED <<book, next, asked>>

\* Entries are made, at once, with the numbers that are next, each its own.
Write ==
    LET new == book' \ book IN
    /\ book \subseteq book'
    /\ \A e \in new : e.queue \in Queues /\ e.time = clock
    /\ \A e, f \in new : e.serial = f.serial => e = f
    /\ next <= next' /\ {e.serial : e \in new} = next..(next' - 1)
    /\ UNCHANGED <<clock, asked>>

\* The entries in the range of a question.
EntriesFor(question) ==
    {e \in book : /\ e.queue \in question.match
                  /\ question.from <= e.time /\ e.time <= question.to}

Ask(t) ==
    /\ ~asked[t].open
    /\ \E match \in Matches, from \in 0..MaxTime, to \in 0..MaxTime :
         asked' = [asked EXCEPT ![t] =
           [open |-> TRUE, match |-> match, from |-> from, to |-> to,
            before |-> next, answer |-> {}]]
    /\ UNCHANGED <<clock, book, next>>

\* Some of the entries are found, in any order.
Find(t) ==
    /\ asked[t].open
    /\ \E found \in SUBSET EntriesFor(asked[t]) :
         asked' = [asked EXCEPT ![t].answer = @ \cup found]
    /\ UNCHANGED <<clock, book, next>>

\* The answer is given when it has all that was in the book before the question.
Answer(t) ==
    /\ asked[t].open
    /\ \A e \in EntriesFor(asked[t]) : e.serial < asked[t].before => e \in asked[t].answer
    /\ asked' = [asked EXCEPT ![t] = NoQuestion]
    /\ UNCHANGED <<clock, book, next>>

Next ==
    \/ Tick \/ Write
    \/ \E t \in Readers : Ask(t) \/ Find(t) \/ Answer(t)

Spec == Init /\ [][Next]_bookVars
=============================================================================

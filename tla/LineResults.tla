---------------------------- MODULE LineResults ----------------------------
(***************************************************************************)
(* What a line is to leave in "_": the meaning of a line without clock,    *)
(* stack or other threads.  A meaning is any operator that satisfies the   *)
(* equations below, one for each kind of command; there is one for every   *)
(* set of lines, by recursion over their words.                            *)
(***************************************************************************)
EXTENDS Commands

CONSTANTS
    Phrases,        \* the lines, and what serial and repeat execute of them
    Value(_, _),    \* what a phrase leaves in "_", given what was there
    Values(_, _)    \* what a sequence of phrases leaves there

\* The phrases that execute others without an exception of their own, and what
\* they execute.
Compound ==
    {p \in Phrases \ {<<>>} :
        \/ Head(p) = "serial" /\ Split(Tail(p)) # <<>>
        \/ Head(p) = "repeat" /\ Len(p) >= 3 /\ p[2] \in DOMAIN Numbers}
Parts(p) ==
    IF Head(p) = "serial" THEN Split(Tail(p))
    ELSE [i \in 1..Numbers[p[2]] |-> Tail(Tail(p))]

\* What is left of the parts of a phrase once some have been executed.
Programs ==
    {<<>>} \cup UNION {{SubSeq(Parts(p), i, Len(Parts(p))) : i \in 1..Len(Parts(p))} :
                         p \in Compound}

\* What is left of a result that a command sets when "_" was was: the second
\* of two equal results in a row counts as none, and is reset.
Set(result, was) == IF was = result THEN "" ELSE result

ASSUME PhrasesAssumption ==
    /\ Lines \subseteq Phrases
    /\ \A p \in Compound : Parts(p) \in Seq(Phrases)

ASSUME ValueAssumption ==
    \A p \in Phrases \ {<<>>}, was \in Results :
      /\ Head(p) = "version" => Value(p, was) = Set("version", was)
      /\ Head(p) = "echo" => Value(p, was) = ""
      /\ (\E m \in ModuleNames : Head(p) \in CommandsOf[m]) =>
           Value(p, was) = Set("module", was)
      /\ p \in Compound =>
           Value(p, was) = IF Parts(p) = <<>> THEN "" ELSE Values(Parts(p), was)

ASSUME ValuesAssumption ==
    \A was \in Results :
      /\ Values(<<>>, was) = was
      /\ \A ps \in Programs \ {<<>>} :
           Values(ps, was) = Values(Tail(ps), Value(Head(ps), was))

-----------------------------------------------------------------------------
\* A line that is executed to its end leaves the result of the last command in
\* it, and never what an earlier command or line had left, by the rule "If the
\* return value was not modified in the last command, reset it": a command with
\* no result, and one whose result is what "_" held already, leave it empty.
ResultIsLast ==
    outcome = "done" /\ line # <<>> => ret.val = Value(line, before)
=============================================================================

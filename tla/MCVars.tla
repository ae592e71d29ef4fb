------------------------------- MODULE MCVars -------------------------------
(***************************************************************************)
(* Instances of Vars for TLC.                                              *)
(***************************************************************************)
EXTENDS Vars

CONSTANTS w1, w2, k1, k2, x, y, empty, one

TwoValues == {empty, one}

\* Each thread under a name of its own.
OwnKeys == [w \in Workers |-> IF w = w1 THEN k1 ELSE k2]

\* The first thread sets the locals, and passes on the globals of the others.
OneSetsLocals ==
    [t \in Threads |-> IF t = w1 THEN Locals ELSE Globals]
=============================================================================

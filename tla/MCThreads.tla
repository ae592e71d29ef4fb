----------------------------- MODULE MCThreads -----------------------------
(***************************************************************************)
(* Instances of Threads for TLC.                                           *)
(***************************************************************************)
EXTENDS Threads, TLC

CONSTANTS w1, w2, w3, h1, h2

\* The threads that are started are interchangeable.
Symmetry == Permutations(Workers)

AllThreads == Workers \cup {Main}
OnlyMain == {Main}
=============================================================================

------------------------------ MODULE MCAssets ------------------------------
(***************************************************************************)
(* Instances of Assets for TLC: two threads, three names, ids -1 to 2.     *)
(***************************************************************************)
EXTENDS Assets, TLC

CONSTANTS t1, t2, gold, silver, usd

AllNames == {gold, silver, usd, Null, Empty}
AllIds   == -1..2

\* Every thread registers and removes assets of its own, one of them under id 0,
\* and looks up all of them.
OwnNames == (t1 :> {gold, silver}) @@ (t2 :> {usd})
OwnIds   == (t1 :> {0, 1}) @@ (t2 :> {2})
=============================================================================

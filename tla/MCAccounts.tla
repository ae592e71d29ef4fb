----------------------------- MODULE MCAccounts -----------------------------
(***************************************************************************)
(* Instances of Accounts for TLC: two threads, two accounts.               *)
(***************************************************************************)
EXTENDS Accounts

LOCAL INSTANCE TLC

CONSTANTS t1, t2, a1, a2, s1, s2

\* One account is opened by the first thread alone, the other id may be named, or
\* drawn, by both: rand() is seeded with the second it is called in.
OneSharedId == (t1 :> {a1, a2}) @@ (t2 :> {a2})

PositiveAmounts == {1, 2}
=============================================================================

------------------------------ MODULE MCMarket ------------------------------
(***************************************************************************)
(* Instances of Market for TLC: two clients with an account each.          *)
(***************************************************************************)
EXTENDS Market, TLC

CONSTANTS t1, t2, a1, a2, s1, s2

Ask(account, price) == [type |-> "ASK", account |-> account, price |-> price, volume |-> 1000]
Bid(account, price) == [type |-> "BID", account |-> account, price |-> price, volume |-> 1000]

\* One client sells and cancels, the other buys, cleans up and resets.  At the
\* lower price it buys for the account of the seller, which is refused.
SomeOrders == (t1 :> {Ask(a1, 1), Ask(a1, 2)}) @@ (t2 :> {Bid(a1, 1), Bid(a2, 1), Bid(a2, 2)})
SomeCalls == (t1 :> {"cancel"}) @@ (t2 :> {"remove", "set asset"})
=============================================================================

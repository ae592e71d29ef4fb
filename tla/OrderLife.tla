----------------------------- MODULE OrderLife -----------------------------
(***************************************************************************)
(* What a market promises about its orders: an order is opened once, on    *)
(* terms that never change; once it is closed, by a fill, a cancellation   *)
(* or its removal, it is never open again; and once it is taken off the    *)
(* book it never comes back.  An order is closed only by clients that have *)
(* found it open.  Several may have, and each of them closes it, also      *)
(* after it was removed.  Market.tla is the detailed specification that    *)
(* implements it.                                                          *)
(***************************************************************************)
CONSTANTS
    OrderIds,   \* every order id
    Clients,    \* who may close an order
    Terms,      \* what an order may say: type, account, price, volume
    NoTerms,    \* the terms of an order that has not been opened
    NoOrder     \* no order id

VARIABLES
    status,     \* of each order
    looking,    \* looking[c]: the order c has found open and will close
    terms       \* of each order

lifeVars == <<status, looking, terms>>

Init ==
    /\ status = [o \in OrderIds |-> "none"]
    /\ looking = [c \in Clients |-> NoOrder]
    /\ terms = [o \in OrderIds |-> NoTerms]

\* add_order puts an order on the book.
Open(o) ==
    /\ status[o] = "none"
    /\ status' = [status EXCEPT ![o] = "open"]
    /\ \E t \in Terms : terms' = [terms EXCEPT ![o] = t]
    /\ UNCHANGED looking

\* close() finds the order open,
Look(c, o) ==
    /\ looking[c] = NoOrder
    /\ status[o] = "open"
    /\ looking' = [looking EXCEPT ![c] = o]
    /\ UNCHANGED <<status, terms>>

\* and closes it, whoever has closed it since.
Close(c) ==
    /\ looking[c] # NoOrder
    /\ status' = [status EXCEPT ![looking[c]] = IF @ = "open" THEN "closed" ELSE @]
    /\ looking' = [looking EXCEPT ![c] = NoOrder]
    /\ UNCHANGED terms

\* remove_order takes an order off the book, closing it if it was open.
Remove(o) ==
    /\ \/ status[o] = "closed" /\ UNCHANGED looking
       \/ \E c \in Clients :
            /\ status[o] \in {"open", "closed"}
            /\ looking[c] = o
            /\ looking' = [looking EXCEPT ![c] = NoOrder]
    /\ status' = [status EXCEPT ![o] = "removed"]
    /\ UNCHANGED terms

Next ==
    \/ \E o \in OrderIds : Open(o) \/ Remove(o)
    \/ \E c \in Clients : Close(c) \/ \E o \in OrderIds : Look(c, o)

Spec == Init /\ [][Next]_lifeVars
=============================================================================

------------------------------- MODULE Ledger -------------------------------
(***************************************************************************)
(* What the accounts submodule promises to its callers: accounts are       *)
(* opened once and empty, and afterwards a balance only ever moves by a    *)
(* transaction that is posted, under an id of its own, in the same step.   *)
(* Only an account whose id two callers were given may be opened again,    *)
(* which empties it.                                                       *)
(* Accounts.tla is the detailed specification that implements it.          *)
(***************************************************************************)
EXTENDS Integers

CONSTANTS
    AccountIds,   \* account ids a caller may name (the non-negative int64s)
    AssetIds,     \* asset ids a caller may name
    SharedIds,    \* account ids that two callers of init_account may be given
    System        \* any negative from_account_id: money from nothing

VARIABLES
    accounts,     \* the keys of _account_map
    balance,      \* _account_map[account][asset]; a missing entry reads 0.0
    history       \* every transaction ever recorded

ledgerVars == <<accounts, balance, history>>

\* What a transaction does to the balance of asset s in account a.
Effect(tx, a, s) ==
    IF tx.asset # s THEN 0
    ELSE (IF tx.to = a THEN tx.amount ELSE 0)
         - (IF tx.from = a THEN tx.amount ELSE 0)

FreshIds(new) ==
    /\ \A tx \in new, old \in history : tx.id # old.id
    /\ \A t1, t2 \in new : t1.id = t2.id => t1 = t2

Init ==
    /\ accounts = {}
    /\ balance = [a \in AccountIds |-> [s \in AssetIds |-> 0]]
    /\ history = {}

\* An account is opened, empty; the records of its opening move no money.  Only
\* a shared id is opened again, which empties the balances that are recorded.
Open(id) ==
    LET new == history' \ history IN
    /\ id \in accounts => id \in SharedIds
    /\ accounts' = accounts \cup {id}
    /\ history \subseteq history'
    /\ FreshIds(new)
    /\ \A tx \in new : tx.to = id /\ tx.from = System /\ tx.amount = 0
    /\ balance' = [balance EXCEPT ![id] = [s \in AssetIds |->
                     IF \E tx \in new : tx.asset = s THEN 0 ELSE @[s]]]
    /\ id \notin accounts => \A s \in AssetIds : balance'[id][s] = 0

\* One transaction between open accounts (or from System) is posted and moves
\* exactly its amount; the paying account could afford it.
Post(tx) ==
    /\ history' = history \cup {tx}
    /\ FreshIds({tx})
    /\ tx.to \in accounts
    /\ tx.from \in accounts \cup {System}
    /\ tx.from # tx.to
    /\ tx.from # System => balance[tx.from][tx.asset] >= tx.amount
    /\ balance' = [a \in AccountIds |-> [s \in AssetIds |->
                        balance[a][s] + Effect(tx, a, s)]]
    /\ UNCHANGED accounts

Next ==
    \/ \E id \in AccountIds : Open(id)
    \/ \E tx \in history' \ history : Post(tx)

Spec == Init /\ [][Next]_ledgerVars
=============================================================================

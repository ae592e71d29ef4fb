------------------------------ MODULE Accounts ------------------------------
(***************************************************************************)
(* src/xch/accounts.cpp: the account map, the transaction history and the  *)
(* threads that call into them.  Every region under _account_map_mutex is  *)
(* one action, except balance(), whose shared region is entered and left   *)
(* so that two readers overlap.  init_account() is three actions, because  *)
(* has_account() and get_assets() run before it takes the lock.            *)
(*                                                                         *)
(* Amounts are integers (the code's are doubles).  The time stamp of a     *)
(* transaction is left out: both containers of transactions are the set    *)
(* history, which their unique ids index.                                  *)
(***************************************************************************)
EXTENDS Integers, FiniteSets

CONSTANTS
    Threads,          \* threads that call the accounts API
    AccountIds,       \* account ids a caller may name
    AssetIds,         \* asset ids a caller may name
    System,           \* any negative account id
    Amounts,          \* amounts a caller may pass to exec_transaction
    InitIds,          \* InitIds[t]: the ids t's init_account calls can get
    InitialAssets,    \* assets registered before the threads start
    LateAssets,       \* assets that may come and go while they run
    MaxTransactions   \* bound: transactions recorded in a behaviour

ASSUME SystemAssumption == System \notin AccountIds
ASSUME AmountsAssumption == Amounts \subseteq Int
ASSUME AssetsAssumption ==
    /\ IsFiniteSet(AssetIds)
    /\ InitialAssets \subseteq AssetIds
    /\ LateAssets \subseteq AssetIds
ASSUME InitIdsAssumption == InitIds \in [Threads -> SUBSET AccountIds]
ASSUME BoundAssumption == MaxTransactions \in Nat

VARIABLES
    accounts,   \* the keys of _account_map
    balance,    \* _account_map[account][asset]; a missing entry reads 0.0
    entries,    \* <<account, asset>> pairs that have an entry in the map
    history,    \* _transaction_history and _transactions
    next_id,    \* the static counter of get_next_transaction_id()
    assets,     \* ids in the asset map of assets.cpp
    pc,         \* where each thread is
    arg,        \* the account id each thread works on
    known       \* per thread: the copy of the asset map in init_account,
                \* or the asset balance() was asked for, as a set

vars == <<accounts, balance, entries, history, next_id, assets, pc, arg, known>>

Transactions == [id: Nat, to: AccountIds, from: AccountIds \cup {System},
                 asset: AssetIds, amount: Int]

TypeOK ==
    /\ accounts \subseteq AccountIds
    /\ balance \in [AccountIds -> [AssetIds -> Int]]
    /\ entries \subseteq accounts \X AssetIds
    /\ history \subseteq Transactions
    /\ next_id \in Nat
    /\ assets \subseteq AssetIds
    /\ pc \in [Threads -> {"idle", "drawn", "checked", "copied", "reading"}]
    /\ arg \in [Threads -> AccountIds \cup {System}]
    /\ known \in [Threads -> SUBSET AssetIds]
    /\ \A t \in Threads : pc[t] # "idle" => arg[t] \in AccountIds
    /\ \A t \in Threads : pc[t] = "reading" => arg[t] \in accounts

Init ==
    /\ accounts = {}
    /\ balance = [a \in AccountIds |-> [s \in AssetIds |-> 0]]
    /\ entries = {}
    /\ history = {}
    /\ next_id = 0
    /\ assets = InitialAssets
    /\ pc = [t \in Threads |-> "idle"]
    /\ arg = [t \in Threads |-> System]
    /\ known = [t \in Threads |-> {}]

\* unique_lock waits until nobody is inside a shared region.
NoReader == \A t \in Threads : pc[t] # "reading"

\* The thread is back in its caller; its locals are gone.
Return(t) ==
    /\ pc' = [pc EXCEPT ![t] = "idle"]
    /\ arg' = [arg EXCEPT ![t] = System]
    /\ known' = [known EXCEPT ![t] = {}]

\* The account a transaction takes from can pay; a negative id pays from nothing.
AffordsAnything(from, s, amount) == TRUE
Affords(from, s, amount) == from # System => balance[from][s] >= amount

\* The balances after a transaction.
CreditOnly(to, from, s, amount) ==
    [balance EXCEPT ![to][s] = @ + amount]
Transfer(to, from, s, amount) ==
    [a \in AccountIds |->
       [balance[a] EXCEPT ![s] = @ + (IF a = to THEN amount ELSE 0)
                                   - (IF a = from THEN amount ELSE 0)]]

\* exec_transaction, all of it under the lock.  Each record takes two ids:
\* one for the transaction, one for the value _transactions[id] constructs
\* before it is assigned.
ExecTransaction(t, to, from, s, amount) ==
    /\ pc[t] = "idle"
    /\ NoReader
    /\ Cardinality(history) < MaxTransactions
    /\ from \in accounts \cup {System}
    /\ to \in accounts
    /\ from # to
    /\ Affords(from, s, amount)
    /\ balance' = Transfer(to, from, s, amount)
    /\ entries' = entries \cup (({from, to} \ {System}) \X {s})
    /\ history' = history \cup
                    {[id |-> next_id, to |-> to, from |-> from,
                      asset |-> s, amount |-> amount]}
    /\ next_id' = next_id + 2
    /\ UNCHANGED <<accounts, assets, pc, arg, known>>

\* exec_transaction that throws "not enough funds": by then operator[] has
\* made an entry for the asset in both accounts.
ExecRefused(t, to, from, s, amount) ==
    /\ pc[t] = "idle"
    /\ NoReader
    /\ from \in accounts
    /\ to \in accounts
    /\ from # to
    /\ ~Affords(from, s, amount)
    /\ entries' = entries \cup ({from, to} \X {s})
    /\ UNCHANGED <<accounts, balance, history, next_id, assets, pc, arg, known>>

\* get_unique_account_id: draws until has_account says no.
DrawAccountId(t, id) ==
    /\ pc[t] = "idle"
    /\ id \notin accounts
    /\ pc' = [pc EXCEPT ![t] = "drawn"]
    /\ arg' = [arg EXCEPT ![t] = id]
    /\ UNCHANGED <<accounts, balance, entries, history, next_id, assets, known>>

\* init_account(id): has_account(id), under a shared lock of its own.
InitAccount(t, id) ==
    /\ \/ pc[t] = "idle"
       \/ pc[t] = "drawn" /\ arg[t] = id
    /\ id \notin accounts
    /\ pc' = [pc EXCEPT ![t] = "checked"]
    /\ arg' = [arg EXCEPT ![t] = id]
    /\ UNCHANGED <<accounts, balance, entries, history, next_id, assets, known>>

\* init_account throws "Account %1% already exists." for a drawn id.
InitRefused(t) ==
    /\ pc[t] = "drawn"
    /\ arg[t] \in accounts
    /\ Return(t)
    /\ UNCHANGED <<accounts, balance, entries, history, next_id, assets>>

\* init_account: get_assets() copies the asset map, without a lock.
InitCopyAssets(t) ==
    /\ pc[t] = "checked"
    /\ assets # {}
    /\ known' = [known EXCEPT ![t] = assets]
    /\ pc' = [pc EXCEPT ![t] = "copied"]
    /\ UNCHANGED <<accounts, balance, entries, history, next_id, assets, arg>>

\* init_account throws "No assets have been registered."
InitNoAssets(t) ==
    /\ pc[t] = "checked"
    /\ assets = {}
    /\ Return(t)
    /\ UNCHANGED <<accounts, balance, entries, history, next_id, assets>>

\* init_account: under the lock, every copied asset is set to 0.0 and
\* recorded, in the order of the asset map (any order here).
InitWrite(t) ==
    /\ pc[t] = "copied"
    /\ NoReader
    /\ Cardinality(history) + Cardinality(known[t]) <= MaxTransactions
    /\ accounts' = accounts \cup {arg[t]}
    /\ balance' = [balance EXCEPT ![arg[t]] =
                     [s \in AssetIds |-> IF s \in known[t] THEN 0 ELSE @[s]]]
    /\ entries' = entries \cup ({arg[t]} \X known[t])
    /\ \E rank \in [known[t] -> 0..(Cardinality(known[t]) - 1)] :
         /\ \A s1, s2 \in known[t] : rank[s1] = rank[s2] => s1 = s2
         /\ history' = history \cup
              {[id |-> next_id + 2 * rank[s], to |-> arg[t], from |-> System,
                asset |-> s, amount |-> 0] : s \in known[t]}
    /\ next_id' = next_id + 2 * Cardinality(known[t])
    /\ Return(t)
    /\ UNCHANGED assets

\* A mutation: balance() does not look for the account.
BalanceOfAny(t, a, s) ==
    /\ pc[t] = "idle"
    /\ pc' = [pc EXCEPT ![t] = "reading"]
    /\ arg' = [arg EXCEPT ![t] = a]
    /\ known' = [known EXCEPT ![t] = {s}]
    /\ UNCHANGED <<accounts, balance, entries, history, next_id, assets>>

\* balance(): the shared lock is taken and the account found.  The asset is not
\* looked for: any id may be asked for.
BalanceEnter(t, a, s) ==
    /\ pc[t] = "idle"
    /\ a \in accounts
    /\ pc' = [pc EXCEPT ![t] = "reading"]
    /\ arg' = [arg EXCEPT ![t] = a]
    /\ known' = [known EXCEPT ![t] = {s}]
    /\ UNCHANGED <<accounts, balance, entries, history, next_id, assets>>

\* The entries t's operator[] will insert into the map of its account.
Inserts(t) ==
    IF pc[t] = "reading" THEN ({arg[t]} \X known[t]) \ entries ELSE {}

\* Two readers are inside the map of one account, one of them inserting.
Racing(t, u) ==
    /\ t # u
    /\ pc[t] = "reading" /\ pc[u] = "reading"
    /\ arg[t] = arg[u]
    /\ Inserts(t) # {}

\* balance(): operator[] reads the entry, inserting it when it is missing,
\* and the lock is released.  When two readers race the insertion is lost or
\* not (of the outcomes of the race, the ones that leave a map behind).
BalanceLeave(t) ==
    /\ pc[t] = "reading"
    /\ \/ entries' = entries \cup Inserts(t)
       \/ (\E u \in Threads : Racing(t, u)) /\ entries' = entries
    /\ Return(t)
    /\ UNCHANGED <<accounts, balance, history, next_id, assets>>

\* The assets submodule registers or removes assets meanwhile.
AssetsChange ==
    /\ \E late \in SUBSET LateAssets : assets' = InitialAssets \cup late
    /\ assets' # assets
    /\ UNCHANGED <<accounts, balance, entries, history, next_id, pc, arg, known>>

Next ==
    \/ \E t \in Threads :
         \/ \E to \in AccountIds, from \in AccountIds \cup {System},
               s \in AssetIds, amount \in Amounts :
              \/ ExecTransaction(t, to, from, s, amount)
              \/ ExecRefused(t, to, from, s, amount)
         \/ \E id \in InitIds[t] : DrawAccountId(t, id) \/ InitAccount(t, id)
         \/ InitRefused(t)
         \/ InitCopyAssets(t)
         \/ InitNoAssets(t)
         \/ InitWrite(t)
         \/ \E a \in AccountIds, s \in AssetIds : BalanceEnter(t, a, s)
         \/ BalanceLeave(t)
    \/ AssetsChange

Spec == Init /\ [][Next]_vars

-----------------------------------------------------------------------------
\* Account ids that two threads can give to init_account.
SharedIds ==
    {id \in AccountIds : \E t, u \in Threads :
       t # u /\ id \in InitIds[t] /\ id \in InitIds[u]}

Abstract == INSTANCE Ledger WITH
              accounts <- accounts, balance <- balance, history <- history,
              SharedIds <- SharedIds

\* No balance is ever negative, whatever init_account calls race with the
\* transfers ("do not support negative balances", exec_transaction).
NonNegativeBalances ==
    \A a \in AccountIds, s \in AssetIds : balance[a][s] >= 0

\* The accounts submodule is a ledger, whatever init_account calls and changes of
\* the assets race: every balance moves exactly with the transactions recorded,
\* each under a new id, and accounts open empty, once when no other thread can
\* be given their id.
ImplementsLedger == Abstract!Spec
=============================================================================

--------------------------- MODULE AccountsProofs ---------------------------
(***************************************************************************)
(* Proofs about Accounts, for every set of threads, accounts and assets.   *)
(***************************************************************************)
EXTENDS Accounts, FiniteSetTheorems, TLAPS

\* A set of copied assets can be numbered: its cardinality is a number.
LEMMA KnownCardinality ==
    ASSUME TypeOK, NEW t \in Threads
    PROVE  Cardinality(known[t]) \in Nat
<1>1. known[t] \subseteq AssetIds
  BY DEF TypeOK
<1>2. IsFiniteSet(known[t])
  BY <1>1, AssetsAssumption, FS_Subset
<1> QED
  BY <1>2, FS_CardinalityType

\* The state stays of its type under every action.
THEOREM TypeCorrect == Spec => []TypeOK
<1>1. Init => TypeOK
  BY AssetsAssumption DEF Init, TypeOK
<1>2. TypeOK /\ [Next]_vars => TypeOK'
  <2> SUFFICES ASSUME TypeOK, [Next]_vars
               PROVE  TypeOK'
    OBVIOUS
  <2> USE DEF TypeOK
  <2>1. ASSUME NEW t \in Threads, NEW to \in AccountIds,
               NEW from \in AccountIds \cup {System}, NEW s \in AssetIds,
               NEW amount \in Amounts, ExecTransaction(t, to, from, s, amount)
        PROVE  TypeOK'
    <3>1. amount \in Int
      BY AmountsAssumption
    <3>2. balance' \in [AccountIds -> [AssetIds -> Int]]
      BY <2>1, <3>1 DEF ExecTransaction, Affords, Transfer
    <3>3. entries' \subseteq accounts' \X AssetIds
      BY <2>1 DEF ExecTransaction, Affords, Transfer
    <3>4. history' \subseteq Transactions /\ next_id' \in Nat
      BY <2>1, <3>1 DEF ExecTransaction, Affords, Transfer, Transactions
    <3> QED
      BY <2>1, <3>2, <3>3, <3>4 DEF ExecTransaction, Affords, Transfer
  <2>2. ASSUME NEW t \in Threads, NEW to \in AccountIds,
               NEW from \in AccountIds \cup {System}, NEW s \in AssetIds,
               NEW amount \in Amounts, ExecRefused(t, to, from, s, amount)
        PROVE  TypeOK'
    BY <2>2 DEF ExecRefused, Affords
  <2>3. ASSUME NEW t \in Threads, NEW id \in InitIds[t], DrawAccountId(t, id)
        PROVE  TypeOK'
    BY <2>3, InitIdsAssumption DEF DrawAccountId
  <2>4. ASSUME NEW t \in Threads, NEW id \in InitIds[t], InitAccount(t, id)
        PROVE  TypeOK'
    BY <2>4, InitIdsAssumption DEF InitAccount
  <2>5. ASSUME NEW t \in Threads, InitRefused(t)
        PROVE  TypeOK'
    BY <2>5 DEF InitRefused, Return
  <2>6. ASSUME NEW t \in Threads, InitCopyAssets(t)
        PROVE  TypeOK'
    BY <2>6 DEF InitCopyAssets
  <2>7. ASSUME NEW t \in Threads, InitNoAssets(t)
        PROVE  TypeOK'
    BY <2>7 DEF InitNoAssets, Return
  <2>8. ASSUME NEW t \in Threads, InitWrite(t)
        PROVE  TypeOK'
    <3>1. Cardinality(known[t]) \in Nat
      BY KnownCardinality
    <3>2. arg[t] \in AccountIds
      BY <2>8 DEF InitWrite
    <3>3. balance' \in [AccountIds -> [AssetIds -> Int]]
      BY <2>8, <3>2 DEF InitWrite
    <3>4. history' \subseteq Transactions
      <4>1. PICK rank \in [known[t] -> 0..(Cardinality(known[t]) - 1)] :
              history' = history \cup
                {[id |-> next_id + 2 * rank[s], to |-> arg[t], from |-> System,
                  asset |-> s, amount |-> 0] : s \in known[t]}
        BY <2>8 DEF InitWrite
      <4>2. \A s \in known[t] : next_id + 2 * rank[s] \in Nat /\ s \in AssetIds
        BY <3>1
      <4> QED
        BY <4>1, <4>2, <3>2 DEF Transactions
    <3>5. next_id' \in Nat
      BY <2>8, <3>1 DEF InitWrite
    <3>6. accounts' \subseteq AccountIds /\ entries' \subseteq accounts' \X AssetIds
      BY <2>8, <3>2 DEF InitWrite
    <3> QED
      BY <2>8, <3>3, <3>4, <3>5, <3>6 DEF InitWrite, Return
  <2>9. ASSUME NEW t \in Threads, NEW a \in AccountIds, NEW s \in AssetIds,
               BalanceEnter(t, a, s)
        PROVE  TypeOK'
    BY <2>9 DEF BalanceEnter
  <2>10. ASSUME NEW t \in Threads, BalanceLeave(t)
         PROVE  TypeOK'
    <3>1. Inserts(t) \subseteq accounts \X AssetIds
      BY <2>10 DEF BalanceLeave, Inserts
    <3>2. entries' \subseteq accounts \X AssetIds
      BY <2>10, <3>1 DEF BalanceLeave
    <3> QED
      BY <2>10, <3>2 DEF BalanceLeave, Return
  <2>11. ASSUME AssetsChange
         PROVE  TypeOK'
    BY <2>11, AssetsAssumption DEF AssetsChange
  <2>12. ASSUME UNCHANGED vars
         PROVE  TypeOK'
    BY <2>12 DEF vars
  <2> QED
    BY <2>1, <2>2, <2>3, <2>4, <2>5, <2>6, <2>7, <2>8, <2>9, <2>10, <2>11, <2>12
       DEF Next
<1> QED
  BY <1>1, <1>2, PTL DEF Spec

-----------------------------------------------------------------------------
\* If callers pass no negative amounts, no balance is ever negative, even when
\* init_account calls for the same id race.
THEOREM NonNegative ==
    ASSUME \A amount \in Amounts : amount >= 0
    PROVE  Spec => []NonNegativeBalances
<1>1. Init => NonNegativeBalances
  BY DEF Init, NonNegativeBalances
<1>2. TypeOK /\ NonNegativeBalances /\ [Next]_vars => NonNegativeBalances'
  <2> SUFFICES ASSUME TypeOK, NonNegativeBalances, [Next]_vars
               PROVE  NonNegativeBalances'
    OBVIOUS
  <2>1. ASSUME NEW t \in Threads, NEW to \in AccountIds,
               NEW from \in AccountIds \cup {System}, NEW s \in AssetIds,
               NEW amount \in Amounts, ExecTransaction(t, to, from, s, amount)
        PROVE  NonNegativeBalances'
    <3>1. amount \in Int /\ amount >= 0
      BY AmountsAssumption
    <3> SUFFICES ASSUME NEW a \in AccountIds, NEW z \in AssetIds
                 PROVE  balance'[a][z] >= 0
      BY DEF NonNegativeBalances
    <3>2. CASE z # s
      BY <2>1, <3>2 DEF ExecTransaction, Affords, Transfer, TypeOK, NonNegativeBalances
    <3>3. CASE z = s /\ a = from
      <4>1. from # System
        BY <3>3, SystemAssumption
      <4> QED
        BY <2>1, <3>1, <3>3, <4>1 DEF ExecTransaction, Affords, Transfer, TypeOK
    <3>4. CASE z = s /\ a # from
      BY <2>1, <3>1, <3>4 DEF ExecTransaction, Affords, Transfer, TypeOK, NonNegativeBalances
    <3> QED
      BY <3>2, <3>3, <3>4
  <2>2. ASSUME NEW t \in Threads, InitWrite(t)
        PROVE  NonNegativeBalances'
    <3>1. arg[t] \in AccountIds
      BY <2>2 DEF InitWrite, TypeOK
    <3> QED
      BY <2>2, <3>1 DEF InitWrite, TypeOK, NonNegativeBalances
  <2>3. CASE UNCHANGED balance
    BY <2>3 DEF NonNegativeBalances
  <2> QED
    BY <2>1, <2>2, <2>3 DEF Next, vars, ExecRefused, DrawAccountId, InitAccount,
       InitRefused, InitCopyAssets, InitNoAssets, BalanceEnter, BalanceLeave,
       AssetsChange
<1> QED
  BY <1>1, <1>2, TypeCorrect, PTL DEF Spec

-----------------------------------------------------------------------------
\* An account is empty until it is opened.
Unopened ==
    \A a \in AccountIds \ accounts : \A s \in AssetIds : balance[a][s] = 0

\* The id that init_account has checked is one of the ids of the thread, and
\* unless another thread may have it too nobody has opened the account since.
Claims ==
    \A t \in Threads : pc[t] \in {"drawn", "checked", "copied"} =>
        /\ arg[t] \in InitIds[t]
        /\ arg[t] \in accounts => arg[t] \in SharedIds

\* Transaction ids are drawn upwards.
IdsDrawn == \A tx \in history : tx.id < next_id

LedgerInv == TypeOK /\ Unopened /\ Claims /\ IdsDrawn

\* The invariant the theorem below rests on.
LEMMA LedgerInvariant == Spec => []LedgerInv
<1>1. Init => LedgerInv
  <2>1. Init => Unopened /\ Claims /\ IdsDrawn
    BY DEF Init, Unopened, Claims, IdsDrawn
  <2>2. Init => TypeOK
    BY AssetsAssumption DEF Init, TypeOK
  <2> QED
    BY <2>1, <2>2 DEF LedgerInv
<1>2. LedgerInv /\ TypeOK' /\ [Next]_vars => LedgerInv'
  <2> SUFFICES ASSUME LedgerInv, TypeOK', [Next]_vars
               PROVE  Unopened' /\ Claims' /\ IdsDrawn'
    BY DEF LedgerInv
  <2> USE DEF LedgerInv
  <2>1. ASSUME NEW t \in Threads, NEW to \in AccountIds,
               NEW from \in AccountIds \cup {System}, NEW s \in AssetIds,
               NEW amount \in Amounts, ExecTransaction(t, to, from, s, amount)
        PROVE  Unopened' /\ Claims' /\ IdsDrawn'
    <3>1. Unopened'
      BY <2>1, SystemAssumption DEF ExecTransaction, Affords, Transfer, Unopened, TypeOK
    <3>2. Claims'
      BY <2>1 DEF ExecTransaction, Affords, Transfer, Claims
    <3>3. IdsDrawn'
      BY <2>1 DEF ExecTransaction, Affords, Transfer, IdsDrawn, TypeOK, Transactions
    <3> QED
      BY <3>1, <3>2, <3>3
  <2>2. ASSUME NEW t \in Threads, InitWrite(t)
        PROVE  Unopened' /\ Claims' /\ IdsDrawn'
    <3>1. arg[t] \in AccountIds /\ arg[t] \in InitIds[t]
      BY <2>2 DEF InitWrite, TypeOK, Claims
    <3>2. Unopened'
      BY <2>2, <3>1 DEF InitWrite, Unopened, TypeOK
    <3>3. Claims'
      <4> SUFFICES ASSUME NEW u \in Threads,
                          pc'[u] \in {"drawn", "checked", "copied"}
                   PROVE  /\ arg'[u] \in InitIds[u]
                          /\ arg'[u] \in accounts' => arg'[u] \in SharedIds
        BY DEF Claims
      <4>1. u # t /\ pc'[u] = pc[u] /\ arg'[u] = arg[u]
        BY <2>2 DEF InitWrite, Return, TypeOK
      <4>2. arg[u] \in InitIds[u] /\ (arg[u] \in accounts => arg[u] \in SharedIds)
        BY <4>1 DEF Claims
      <4>3. arg[u] = arg[t] => arg[u] \in SharedIds
        BY <3>1, <4>1, <4>2 DEF SharedIds
      <4> QED
        BY <2>2, <4>1, <4>2, <4>3 DEF InitWrite
    <3>4. IdsDrawn'
      <4>1. Cardinality(known[t]) \in Nat
        BY KnownCardinality
      <4>2. PICK rank \in [known[t] -> 0..(Cardinality(known[t]) - 1)] :
              history' = history \cup
                {[id |-> next_id + 2 * rank[s], to |-> arg[t], from |-> System,
                  asset |-> s, amount |-> 0] : s \in known[t]}
        BY <2>2 DEF InitWrite
      <4>3. next_id' = next_id + 2 * Cardinality(known[t]) /\ next_id \in Nat
        BY <2>2 DEF InitWrite, TypeOK
      <4>4. ASSUME NEW tx \in history
            PROVE  tx.id < next_id'
        <5>1. tx.id \in Nat /\ tx.id < next_id
          BY DEF IdsDrawn, TypeOK, Transactions
        <5> QED
          BY <4>1, <4>3, <5>1
      <4>5. ASSUME NEW s \in known[t]
            PROVE  next_id + 2 * rank[s] < next_id'
        BY <4>1, <4>3
      <4> QED
        BY <4>2, <4>4, <4>5 DEF IdsDrawn
    <3> QED
      BY <3>2, <3>3, <3>4
  <2>3. ASSUME NEW t \in Threads, NEW id \in InitIds[t],
               DrawAccountId(t, id) \/ InitAccount(t, id)
        PROVE  Unopened' /\ Claims' /\ IdsDrawn'
    BY <2>3 DEF DrawAccountId, InitAccount, Unopened, Claims, IdsDrawn, TypeOK
  <2>4. ASSUME NEW t \in Threads,
               \/ InitRefused(t) \/ InitCopyAssets(t) \/ InitNoAssets(t)
               \/ BalanceLeave(t)
        PROVE  Unopened' /\ Claims' /\ IdsDrawn'
    BY <2>4 DEF InitRefused, InitCopyAssets, InitNoAssets, BalanceLeave, Return,
       Unopened, Claims, IdsDrawn, TypeOK
  <2>5. ASSUME NEW t \in Threads, NEW a \in AccountIds, NEW s \in AssetIds,
               BalanceEnter(t, a, s)
        PROVE  Unopened' /\ Claims' /\ IdsDrawn'
    BY <2>5 DEF BalanceEnter, Unopened, Claims, IdsDrawn, TypeOK
  <2>6. CASE UNCHANGED <<accounts, balance, history, next_id, pc, arg>>
    BY <2>6 DEF Unopened, Claims, IdsDrawn
  <2> QED
    BY <2>1, <2>2, <2>3, <2>4, <2>5, <2>6
       DEF Next, vars, ExecRefused, AssetsChange
<1> QED
  BY <1>1, <1>2, TypeCorrect, PTL DEF Spec

\* exec_transaction posts one transaction of the ledger.
LEMMA ExecPosts ==
    ASSUME LedgerInv, NEW t \in Threads, NEW to \in AccountIds,
           NEW from \in AccountIds \cup {System}, NEW s \in AssetIds,
           NEW amount \in Amounts, ExecTransaction(t, to, from, s, amount)
    PROVE  Abstract!Next
<1> DEFINE tx == [id |-> next_id, to |-> to, from |-> from,
                  asset |-> s, amount |-> amount]
<1>1. history' = history \cup {tx}
  BY DEF ExecTransaction, Affords, Transfer
<1>2. Abstract!FreshIds({tx}) /\ tx \notin history
  <2>1. \A old \in history : old.id # next_id
    BY DEF LedgerInv, TypeOK, IdsDrawn, Transactions
  <2> QED
    BY <2>1 DEF Abstract!FreshIds
<1>3. /\ tx.to \in accounts
      /\ tx.from \in accounts \cup {System}
      /\ tx.from # tx.to
      /\ tx.from # System => balance[tx.from][tx.asset] >= tx.amount
      /\ UNCHANGED accounts
  BY DEF ExecTransaction, Affords, Transfer
<1>4. balance' = [a \in AccountIds |-> [z \in AssetIds |->
                    balance[a][z] + Abstract!Effect(tx, a, z)]]
  <2>1. amount \in Int
    BY AmountsAssumption
  <2>2. ASSUME NEW a \in AccountIds
        PROVE  [balance[a] EXCEPT ![s] =
                  @ + (IF a = to THEN amount ELSE 0)
                    - (IF a = from THEN amount ELSE 0)]
               = [z \in AssetIds |-> balance[a][z] + Abstract!Effect(tx, a, z)]
    <3>1. balance[a] \in [AssetIds -> Int]
      BY DEF LedgerInv, TypeOK
    <3> QED
      BY <2>1, <3>1 DEF Abstract!Effect
  <2> QED
    BY <2>2 DEF ExecTransaction, Affords, Transfer
<1>5. Abstract!Post(tx)
  BY <1>1, <1>2, <1>3, <1>4 DEF Abstract!Post
<1>6. tx \in history' \ history
  BY <1>1, <1>2
<1> QED
  BY <1>5, <1>6 DEF Abstract!Next

\* The write of init_account opens one account of the ledger.
LEMMA InitOpens ==
    ASSUME LedgerInv, NEW t \in Threads, InitWrite(t)
    PROVE  Abstract!Next
<1>1. arg[t] \in AccountIds /\ (arg[t] \in accounts => arg[t] \in SharedIds)
  BY DEF LedgerInv, Claims, TypeOK, InitWrite
<1>2. PICK rank \in [known[t] -> 0..(Cardinality(known[t]) - 1)] :
        /\ \A s1, s2 \in known[t] : rank[s1] = rank[s2] => s1 = s2
        /\ history' = history \cup
             {[id |-> next_id + 2 * rank[s], to |-> arg[t], from |-> System,
               asset |-> s, amount |-> 0] : s \in known[t]}
  BY DEF InitWrite
<1>3. \A s \in known[t] : rank[s] \in Nat
  BY KnownCardinality DEF LedgerInv
<1> DEFINE new == history' \ history
<1>4. \A tx \in new : \E s \in known[t] :
        tx = [id |-> next_id + 2 * rank[s], to |-> arg[t], from |-> System,
              asset |-> s, amount |-> 0]
  BY <1>2
<1>5. Abstract!FreshIds(new)
  <2>1. \A tx \in new, old \in history : tx.id # old.id
    BY <1>3, <1>4 DEF LedgerInv, TypeOK, IdsDrawn, Transactions
  <2>2. ASSUME NEW x \in new, NEW y \in new, x.id = y.id
        PROVE  x = y
    <3>1. PICK s1 \in known[t] :
            x = [id |-> next_id + 2 * rank[s1], to |-> arg[t], from |-> System,
                 asset |-> s1, amount |-> 0]
      BY <1>4
    <3>2. PICK s2 \in known[t] :
            y = [id |-> next_id + 2 * rank[s2], to |-> arg[t], from |-> System,
                 asset |-> s2, amount |-> 0]
      BY <1>4
    <3>3. x.id = next_id + 2 * rank[s1] /\ y.id = next_id + 2 * rank[s2]
      BY <3>1, <3>2
    <3>4. next_id \in Nat /\ rank[s1] \in Nat /\ rank[s2] \in Nat
      BY <1>3 DEF LedgerInv, TypeOK
    <3>5. rank[s1] = rank[s2]
      <4>1. \A n, i, j \in Nat : n + 2 * i = n + 2 * j => i = j
        OBVIOUS
      <4>2. next_id + 2 * rank[s1] = next_id + 2 * rank[s2]
        BY <2>2, <3>3
      <4> QED
        BY <3>4, <4>1, <4>2
    <3> QED
      BY <1>2, <3>1, <3>2, <3>5
  <2> QED
    BY <2>1, <2>2 DEF Abstract!FreshIds
<1>6. \A tx \in new : tx.to = arg[t] /\ tx.from = System /\ tx.amount = 0
  BY <1>4
<1>7. \A s \in AssetIds : s \in known[t] <=> \E tx \in new : tx.asset = s
  <2>1. ASSUME NEW s \in known[t]
        PROVE  \E tx \in new : tx.asset = s
    <3> DEFINE opening == [id |-> next_id + 2 * rank[s], to |-> arg[t], from |-> System,
                           asset |-> s, amount |-> 0]
    <3>1. opening \in history'
      BY <1>2
    <3>2. \A tx \in history : tx.id < next_id /\ tx.id \in Nat
      BY DEF LedgerInv, TypeOK, IdsDrawn, Transactions
    <3>3. opening.id >= next_id /\ next_id \in Nat /\ opening.id \in Nat
      BY <1>3 DEF LedgerInv, TypeOK
    <3>4. opening \notin history
      BY <3>2, <3>3
    <3> QED
      BY <3>1, <3>4
  <2>2. \A tx \in new : tx.asset \in known[t]
    BY <1>4
  <2> QED
    BY <2>1, <2>2
<1>8. balance' = [balance EXCEPT ![arg[t]] = [s \in AssetIds |->
                    IF \E tx \in new : tx.asset = s THEN 0 ELSE @[s]]]
  <2>1. balance' = [balance EXCEPT ![arg[t]] =
                      [s \in AssetIds |-> IF s \in known[t] THEN 0 ELSE @[s]]]
    BY DEF InitWrite
  <2>2. [s \in AssetIds |-> IF s \in known[t] THEN 0 ELSE balance[arg[t]][s]]
        = [s \in AssetIds |-> IF \E tx \in new : tx.asset = s THEN 0
                                                        ELSE balance[arg[t]][s]]
    BY <1>7
  <2> QED
    BY <2>1, <2>2
<1>9. arg[t] \notin accounts => \A s \in AssetIds : balance'[arg[t]][s] = 0
  BY <1>1 DEF LedgerInv, Unopened, TypeOK, InitWrite
<1>10. Abstract!Open(arg[t])
  BY <1>1, <1>2, <1>5, <1>6, <1>8, <1>9 DEF Abstract!Open, InitWrite
<1> QED
  BY <1>1, <1>10 DEF Abstract!Next

\* The accounts submodule implements the ledger, whatever init_account calls race
\* and assets come and go: money moves only by the transactions it records, and
\* an account is opened again, and emptied, only when two threads can be given
\* its id.
THEOREM Implementation == Spec => ImplementsLedger
<1>1. Init => Abstract!Init
  BY DEF Init, Abstract!Init
<1>2. LedgerInv /\ [Next]_vars => [Abstract!Next]_(Abstract!ledgerVars)
  <2> SUFFICES ASSUME LedgerInv, [Next]_vars
               PROVE  Abstract!Next \/ UNCHANGED Abstract!ledgerVars
    OBVIOUS
  <2>1. CASE \E t \in Threads : InitWrite(t)
    BY <2>1, InitOpens
  <2>2. CASE \E t \in Threads, to \in AccountIds,
               from \in AccountIds \cup {System}, s \in AssetIds,
               amount \in Amounts : ExecTransaction(t, to, from, s, amount)
    BY <2>2, ExecPosts
  <2>3. CASE UNCHANGED <<accounts, balance, history>>
    BY <2>3 DEF Abstract!ledgerVars
  <2> QED
    BY <2>1, <2>2, <2>3, ZenonT(30) DEF Next, vars, ExecRefused, DrawAccountId, InitAccount,
       InitRefused, InitCopyAssets, InitNoAssets, BalanceEnter, BalanceLeave,
       AssetsChange
<1> QED
  BY <1>1, <1>2, LedgerInvariant, PTL DEF Spec, ImplementsLedger, Abstract!Spec
=============================================================================

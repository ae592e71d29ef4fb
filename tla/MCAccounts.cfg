SPECIFICATION Spec
CONSTANTS
    t1 = t1
    t2 = t2
    a1 = a1
    a2 = a2
    s1 = s1
    s2 = s2
    Threads = {t1, t2}
    AccountIds = {a1, a2}
    AssetIds = {s1, s2}
    System = System
    Amounts <- PositiveAmounts
    InitIds <- OneSharedId
    InitialAssets = {}
    LateAssets = {s1, s2}
    MaxTransactions = 4
INVARIANTS
    TypeOK
    NonNegativeBalances
PROPERTIES
    ImplementsLedger

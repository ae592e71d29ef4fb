SPECIFICATION FairSpec
CONSTANTS
    t1 = t1
    t2 = t2
    a1 = a1
    a2 = a2
    s1 = s1
    s2 = s2
    Clients = {t1, t2}
    CallsOf <- SomeCalls
    OrdersOf <- SomeOrders
    Accounts = {a1, a2}
    Opened = {a1, a2}
    Prices = {1, 2}
    Volumes = {1000}
    Assets = {s1}
    MaxOrders = 3
CHECK_DEADLOCK FALSE
INVARIANTS
    TypeOK
    HeadsDoNotCross
    TradesSettleWhole
PROPERTIES
    BestHeadsMatched
    ImplementsOrderLife
    AddReturns

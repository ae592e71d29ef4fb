SPECIFICATION Spec
CONSTANTS
    t1 = t1
    t2 = t2
    gold = gold
    silver = silver
    usd = usd
    Threads = {t1, t2}
    Names <- AllNames
    Ids <- AllIds
    NamesOf <- OwnNames
    IdsOf <- OwnIds
    Null = Null
    Empty = Empty
    None = None
INVARIANTS
    PairsMatch

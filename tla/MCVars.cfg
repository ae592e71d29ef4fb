SPECIFICATION Spec
CONSTANTS
    w1 = w1
    w2 = w2
    k1 = k1
    k2 = k2
    x = x
    y = y
    empty = empty
    one = one
    Main = Main
    Workers = {w1, w2}
    MainKey = MainKey
    Unknown = Unknown
    KeyOf <- OwnKeys
    Globals = {x}
    Locals = {y}
    Values <- TwoValues
    Empty = empty
    Sets <- OneSetsLocals
    Unsetters = {w2}
    MaxTime = 1
    None = None
INVARIANTS
    ResultsReachCaller
    LocalsArePrivate
PROPERTIES
    TimesForward

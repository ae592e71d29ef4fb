SPECIFICATION Spec
CONSTANTS
    w1 = w1
    w2 = w2
    w3 = w3
    h1 = h1
    h2 = h2
    Main = Main
    None = None
    Workers = {w1, w2, w3}
    Hints = {h1, h2}
    Starters <- OnlyMain
    WaitModes = {TRUE, FALSE}
    Interrupters = {}
    MaxSuffix = 3
CHECK_DEADLOCK FALSE
SYMMETRY Symmetry
INVARIANTS
    UndisturbedUntilExit
    KeyIsFree
    RunningIsListed

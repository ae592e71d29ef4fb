SPECIFICATION FairSpec
CONSTANTS
    w1 = w1
    w2 = w2
    w3 = w3
    h1 = h1
    h2 = h2
    Main = Main
    None = None
    Workers = {w1, w2}
    Hints = {h1, h2}
    Starters <- AllThreads
    WaitModes = {TRUE}
    Interrupters <- OnlyMain
    MaxSuffix = 0
CHECK_DEADLOCK FALSE
PROPERTIES
    WaitingEnds
    ExitEnds

SPECIFICATION FairCommandsSpec
CONSTANTS
    t1 = t1
    t2 = t2
    m1 = m1
    m2 = m2
    Threads = {t1, t2}
    ModuleNames = {m1, m2}
    ManagedBy <- OwnModules
    CommandsOf <- OwnCommands
    System = System
    SystemCommands = {"version", "echo", "serial", "repeat"}
    None = None
    MaxLost = 1
    Lines <- SomeLines
    Numbers <- SomeNumbers
    Phrases <- SomePhrases
    Value <- LastValue
    Values <- LastValues
CHECK_DEADLOCK FALSE
INVARIANTS
    CommandsTypeOK
    CommandsAreMapped
    HandlesMatchMap
    ResultIsLast
PROPERTIES
    LinesEnd

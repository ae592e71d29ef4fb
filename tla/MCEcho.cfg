SPECIFICATION FairSpec
CONSTANTS
    Readers = {"t2"}
    Echoers = {"t1", "t3"}
    SignalQueues <- SomeSignals
    UserQueues = {"default"}
    Matches = {{"default", "echo"}}
    MaxEntries = 1
    MaxTime = 1
    SysEcho <- ConsoleAndRemote
    Registered = {0, 3}
    Remote = 2
    EchoBack = {3}
    QuietValues = {"true", "false", "neither"}
    RemoteHosts = 1
    MaxCalls = 2
CHECK_DEADLOCK FALSE
INVARIANTS
    EchoTypeOK
    TimesFollowSerials
    OutputIsWhole
PROPERTIES
    ImplementsLogBook
    EchoReturns

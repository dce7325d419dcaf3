CONSTANTS
    c1 = c1
    c2 = c2
    Conns = {c1, c2}
    NoConn = NoConn
    ServerType = "HTTP"
    Events = {"connect", "request", "close", "tick"}
    MaxReads = 1
    MaxPend = 1
    MaxPipeline = 2
SPECIFICATION FairSpec
INVARIANTS
    KnownFaults
    OneReadPerHttp
PROPERTIES
    ClosedIsFreed
    ShutdownCompletes

CONSTANTS
    c1 = c1
    c2 = c2
    Conns = {c1, c2}
    NoConn = NoConn
    ServerType = "TCP"
    Events = {"connect", "receive", "close"}
    MaxReads = 2
    MaxPend = 1
    MaxPipeline = 1
SPECIFICATION Spec
SYMMETRY Symmetry
INVARIANTS
    LifeInv
    FrameSafe
    LeaksOnlyByWalk
    ChunksOnce
    HangOnlyInClose
PROPERTIES
    CloseIsFinal
    KeepsConnLife

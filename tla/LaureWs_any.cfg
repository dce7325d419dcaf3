CONSTANTS
    Ops = {"cont", "text", "close", "ping", "pong", "other", "huge"}
    Legal = FALSE
    Events = {"open", "message", "ping", "pong", "close"}
    MaxFrames = 3
    MaxReads = 2
SPECIFICATION Spec
INVARIANTS
    PartsOnce
    CloseFrameOnce
    CloseAnswered
    PingsAnswered
    LivePeerKept
    TimerEnds
PROPERTIES
    ClosedIsSilent

CONSTANTS
    Ops = {"cont", "text", "close", "ping"}
    Legal = TRUE
    Events = {"message"}
    MaxFrames = 4
    MaxReads = 2
SPECIFICATION FairSpec
PROPERTIES
    KeepsChannel
    SilentPeerEnds

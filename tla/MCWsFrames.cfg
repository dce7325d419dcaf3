CONSTANTS
    Base = 8
    MaxFrame = 68
    MaxFrames = 2
    Cut = 16
    Frames <- MCFrames
    ByteXor <- MCXor
SPECIFICATION Spec
INVARIANTS
    FramesExact
    AnswersExact

CONSTANTS
    Bytes = {0, 1}
    FirstCap = 2
    MaxLen = 8
    Pieces <- MCPieces
SPECIFICATION Spec
INVARIANTS
    InBounds
    NulTerminated
PROPERTIES
    KeepsQueue

CONSTANTS
    upgrade = upgrade
    ctype = ctype
    ws = ws
    Names = {upgrade, ctype}
    Upgrade = upgrade
    ContentType = ctype
    Values = {ws}
    Empty = Empty
    WebSocket = {ws}
    Form = {}
    Lens = {0, 1}
    MaxRequests = 2
    MaxHeaders = 1
    MaxPieces = 1
    MaxSends = 3
SPECIFICATION Spec
INVARIANTS
    AnsweredOnce
PROPERTIES
    EndIsLast
    NoSendWhileClosing

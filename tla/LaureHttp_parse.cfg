CONSTANTS
    upgrade = upgrade
    ctype = ctype
    ws = ws
    form = form
    Names = {upgrade, ctype}
    Upgrade = upgrade
    ContentType = ctype
    Values = {ws, form}
    Empty = Empty
    WebSocket = {ws}
    Form = {form}
    Lens = {0, 1}
    MaxRequests = 2
    MaxHeaders = 2
    MaxPieces = 2
    MaxSends = 0
SPECIFICATION Spec
INVARIANTS
    HeadersExact
    HeadersOwn
    RequestsWhole
    KnownHttpFaults

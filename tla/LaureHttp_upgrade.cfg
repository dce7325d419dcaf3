CONSTANTS
    upgrade = upgrade
    ctype = ctype
    ws = ws
    form = form
    Names = {upgrade, ctype}
    Upgrade = upgrade
    ContentType = ctype
    Values = {ws, form}
    Empty = Empty
    WebSocket = {ws}
    Form = {form}
    Lens = {0, 1}
    MaxRequests = 1
    MaxHeaders = 1
    MaxPieces = 1
    MaxSends = 1
SPECIFICATION Spec
PROPERTIES
    UpgradeKept

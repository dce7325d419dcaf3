CONSTANTS
    Loops = {l1, l2, l3}
    NoLoop = NoLoop
    Conns = {c1, c2}
SPECIFICATION Spec
INVARIANTS
    SuspendedKept
    IdleClean
    OwnLoop
    KnownRestartFaults

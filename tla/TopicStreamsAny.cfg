SPECIFICATION Spec
CONSTANTS
    Subs = {s1, s2}
    NumChannels = 2
    PerChannel = 1
    Environment = {"firstRecvFails", "eventAfterEnd", "eventCtxDone", "abandon", "clientClose"}
    MaxUndercount = 1
SYMMETRY Symmetry
INVARIANTS
    TypeOK
    OvershootBounded
    CounterIsHeldPlusDrift
CHECK_DEADLOCK FALSE

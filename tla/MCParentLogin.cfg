CONSTANTS
    r1 = r1
    r2 = r2
    p1 = p1
    p2 = p2
    ph = ph
    other = other
    Reqs = {r1, r2}
    Phones = {ph, other}
    Pins = {p1, p2}
    PinFailures = 2
    Window = 1
    SweepGap = 1
    MaxKeys = 1
    MaxTime = 1
    MaxRequests = 4
    MaxParents = 2
    MaxVersion = 1
SPECIFICATION ParentSpec
INVARIANTS ParentSessionsCurrent
PROPERTIES UsesLimiter DeletedByPin
SYMMETRY LoginSymmetry

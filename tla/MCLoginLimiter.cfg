CONSTANTS
    k1 = k1
    k2 = k2
    k3 = k3
    Keys = {k1, k2, k3}
    MaxFailures = 2
    Window = 3
    SweepGap = 2
    MaxKeys = 2
    MaxTime = 8
SPECIFICATION Spec
SYMMETRY KeySymmetry
INVARIANTS GuessesBounded
PROPERTIES LockoutStands

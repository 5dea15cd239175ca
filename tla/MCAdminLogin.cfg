CONSTANTS
    r1 = r1
    r2 = r2
    admin = admin
    stranger = stranger
    a1 = a1
    proxy = proxy
    Reqs = {r1, r2}
    Users = {admin, stranger}
    Admins = {admin}
    Addrs = {a1}
    Proxy = proxy
    UserFailures = 2
    IPFailures = 2
    Window = 1
    SweepGap = 1
    MaxKeys = 2
    MaxTime = 1
    MaxLogins = 3
    MaxRotations = 1
SPECIFICATION AdminSpec
SYMMETRY ReqSymmetry
INVARIANTS AdminSessionsCurrent
PROPERTIES UsesLimiters AddressNotForgiven

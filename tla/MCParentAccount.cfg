CONSTANTS
    t1 = t1
    t2 = t2
    k1 = k1
    k2 = k2
    p1 = p1
    p2 = p2
    s1 = s1
    NoParent = NoParent
    Txs = {t1, t2}
    Tokens = {k1, k2}
    Parents = {p1, p2}
    Students = {s1}
    FirstParents = {p1}
    Cap = 1
    MaxStarts = 2
    MaxVersion = 1
SPECIFICATION Spec
SYMMETRY Symmetry
INVARIANTS NothingLeftBehind
PROPERTIES SignOutClearsTokens

CONSTANTS
    t1 = t1
    t2 = t2
    t3 = t3
    s1 = s1
    s2 = s2
    s3 = s3
    Txs = {t1, t2, t3}
    Students = {s1, s2, s3}
    Teachers = {1, 2}
    StaffMax = 2
    MaxTag = 5
    OldTags <- Old
SPECIFICATION Spec
SYMMETRY TxSymmetry
INVARIANTS OnePersonPerTag
PROPERTIES StaffRangeOnlyEmpties

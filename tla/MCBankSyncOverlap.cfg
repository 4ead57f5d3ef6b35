SPECIFICATION Spec
CONSTANTS
    t1 = t1
    t2 = t2
    stray = stray
    s1 = s1
    s2 = s2
    Txns <- TwoTxns
    Known <- TwoTxns
    Jobs <- TwoJobs
    Serial = FALSE
    MaxAttempts = 3
    MaxInterrupts = 1
    MaxTip = 3
SYMMETRY MCSymmetry
INVARIANTS
    CategorizedOnce
CHECK_DEADLOCK FALSE

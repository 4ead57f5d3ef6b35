SPECIFICATION FairSpec
CONSTANTS
    t1 = t1
    t2 = t2
    stray = stray
    s1 = s1
    s2 = s2
    Txns <- WithStray
    Known <- TwoTxns
    Jobs <- TwoJobs
    Serial = TRUE
    MaxAttempts = 3
    MaxInterrupts = 1
    MaxTip = 3
INVARIANTS
    CursorCoversRows
    RemovalsStick
    QueuedUnlessInterrupted
PROPERTIES
    MirrorSpec
    EverySyncEnds
CHECK_DEADLOCK FALSE

SPECIFICATION FairSpec
CONSTANTS
    Msgs = {m1, m2}
    Receipts = {m1}
    Backfill = {m1, m2}
    NoMsg = NoMsg
    Slots = {s1}
    Deletions = TRUE
    MaxExpiries = 1
    MaxForgets = 1
    MaxWatches = 0
    MaxFaults = 1
CHECK_DEADLOCK FALSE
PROPERTY EveryJobEnds

SPECIFICATION Spec
CONSTANTS
    Msgs = {m1, m2}
    Receipts = {m1}
    Backfill = {m1, m2}
    NoMsg = NoMsg
    Slots = {s1, s2}
    Deletions = FALSE
    MaxExpiries = 1
    MaxForgets = 1
    MaxWatches = 1
    MaxFaults = 1
CHECK_DEADLOCK FALSE
INVARIANT CursorCoversMail
INVARIANT EveryRowIsSettled

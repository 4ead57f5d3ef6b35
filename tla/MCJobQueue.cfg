SPECIFICATION FairSpec
CONSTANTS
    j1 = j1
    j2 = j2
    w1 = w1
    w2 = w2
    NoJob = NoJob
    Jobs <- MCJobs
    FixedIds <- MCFixedIds
    Slots <- MCSlots
    MaxAttempts = 3
    MaxStalls = 1
    MaxFaults = 2
    MaxRequests = 2
INVARIANTS
    HandlerRunsBounded
    CompletedIsAccounted
PROPERTIES
    BuriedRunsAgainOnlyAfterStall
    SettledForGood
    EveryJobSettles
CHECK_DEADLOCK FALSE

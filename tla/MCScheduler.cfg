SPECIFICATION Spec
CONSTANTS
    Users = {u1}
    Accounts = {a1}
    Instances = {s1, s2}
    LastInstant = 17
    Horizon = 17
    Minutes = {0, 1, 2, 3}
    Calendar <- FallBack
    TickUnits = 2
    MaxFaults = 1
    MaxChanges = 1
    MaxDelays = 2
CHECK_DEADLOCK FALSE
INVARIANT DigestOncePerWeek
INVARIANT DueIsNeverMissed
INVARIANT WatchRenewedDaily

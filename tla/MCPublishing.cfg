SPECIFICATION FairSpec
CONSTANTS
    Weeks = {w1}
    Months = {m1}
    Txns = {t1}
    NoItem = NoItem
    Severities <- LowThenHigh
    Preference = "sms"
    Limit = 1
    Slots = {s1, s2}
    MaxFaults = 1
CHECK_DEADLOCK FALSE
INVARIANT DeliveredMeansSent
INVARIANT DuplicatesOnlyByFaults
INVARIANT OneReportPerMonth
INVARIANT UrgentIsQueued
INVARIANT BuriedForAReason
PROPERTY EveryDeliveryEnds

CONSTANTS
    Servers = {s1}
    Keys = {a, b, c}
    Busy = a
    Requests = {r1, r2}
    Limit = 1
    Capacity = 2
    UseRedis = TRUE
    MaxMinute = 2
    MaxAsked <- OneBusyKey
SPECIFICATION Spec
SYMMETRY Anyone
INVARIANTS TypeOK AdmittedWithinLimit RefusedOnlyWhenBusy StaleBucketsBounded
\* Clients may stop asking, and the last minute is the last.
CHECK_DEADLOCK FALSE

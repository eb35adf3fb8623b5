SPECIFICATION Spec
CHECK_DEADLOCK FALSE
CONSTANTS
    Second = 8
    AccessTtl = 1
    RefreshTtl = 2
    MaxDelay = 9
    MaxSkew = 10
    MaxTime = 48
INVARIANTS
    LivesItsTime
    DiesInTime
    RecordsAgree

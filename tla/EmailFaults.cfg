SPECIFICATION FairSpec
CHECK_DEADLOCK FALSE
CONSTANTS
    Jobs = {j1}
    Workers = {w1, w2}
    Concurrency = 2
    Attempts = 3
    MaxStalls = 1
    Faults = {"crash", "slow", "smtp"}
    MaxDowns = 1
INVARIANTS
    RunsBounded
    CompletedWasSent
    GivenUpForAReason
    DuplicatesExplained
    SignalCutsNothing
PROPERTIES
    QueueDelivers
    WorkersStop

SPECIFICATION FairSpec
CHECK_DEADLOCK FALSE
CONSTANTS
    Conns = {c1, c2, c3}
    None = None
    MaxAwaits = 3
    MaxSignals = 2
INVARIANTS
    WaitingClientsServed
    ExitCodeTells
PROPERTIES
    ShutdownEnds

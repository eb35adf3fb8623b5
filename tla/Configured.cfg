SPECIFICATION Spec
CHECK_DEADLOCK FALSE
CONSTANTS
    Sources <- GoodButTwo
INVARIANTS
    ProductionIsGuarded
    CredentialsAreUsed
    AssumptionsHold

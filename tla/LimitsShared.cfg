SPECIFICATION Spec
CHECK_DEADLOCK FALSE
CONSTANTS
    Clients = {c1, c2}
    Processes = {p1, p2}
    Store = "redis"
    Env = "development"
    Limit <- GeneralTwo
    MaxWindows = 1
    Requests = {r1, r2, r3}
    Routes = {"login", "api"}
    Flawed = {"validate"}
    Faults = {"crash"}
    MaxResends = 0
SYMMETRY Symmetry
INVARIANTS
    WithinLimits
    RefusedRightly

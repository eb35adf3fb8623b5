SPECIFICATION FairSpec
CHECK_DEADLOCK FALSE
CONSTANTS
    Clients = {c1}
    Processes = {p1}
    Store = "redis"
    Env = "development"
    Limit <- One
    MaxWindows = 0
    Requests = {r1, r2}
    Routes = {"register", "login", "refresh", "logout", "google", "callback", "exchange", "me", "api", "uploads", "unknown", "live", "ready", "preflight"}
    Flawed = {"cors", "json", "validate", "authenticate", "passport", "multer", "handler"}
    Faults = {"db", "redis", "crash"}
    MaxResends = 1
INVARIANTS
    AttemptsCounted
    SuccessUnobjected
PROPERTIES
    EveryRequestAnswered

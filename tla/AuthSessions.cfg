SPECIFICATION Spec
CONSTANTS
    Reqs = {r1, r2, r3, r4}
    None = None
    e1 = e1
    e2 = e2
    a1 = a1
    a2 = a2
    Emails = {e1}
    Accounts = {a1}
    Profiles <- OneAccount
    Kinds = {"register", "login", "refresh", "logout", "callback", "exchange"}
    MaxInFlight = 2
    Faults = {"db", "crash", "tokenExpiry"}
SYMMETRY Symmetry
INVARIANTS
    TypeOK
    SpentNeverGranted
    GrantsBounded
    SpentBeforeReplaced
    LogoutSticks
    NoUnaskedRevocation
PROPERTIES
    LinkSurvives
    TokensAreOneTime

SPECIFICATION Spec
CONSTANTS
    Reqs = {r1, r2, r3}
    None = None
    e1 = e1
    e2 = e2
    a1 = a1
    a2 = a2
    Emails = {e1, e2}
    Accounts = {a1, a2}
    Profiles <- MovingEmail
    Kinds = {"register", "login", "callback", "exchange", "me"}
    MaxInFlight = 3
    Faults = {"db", "delete", "codeExpiry"}
SYMMETRY Symmetry
INVARIANTS
    SessionOwner
    LinkedToOwner
PROPERTIES
    NoRelink
    CodesAreOneTime

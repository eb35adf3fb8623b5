SPECIFICATION Spec
CONSTANTS
    Reqs = {r1, r2}
    None = None
    e1 = e1
    e2 = e2
    a1 = a1
    a2 = a2
    Emails = {e1}
    Accounts = {}
    Profiles <- NoProfiles
    Kinds = {"register"}
    MaxInFlight = 2
    Faults = {}
SYMMETRY Symmetry
INVARIANT DuplicateAnswered409

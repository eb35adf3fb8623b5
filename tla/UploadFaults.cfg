SPECIFICATION FairSpec
CHECK_DEADLOCK FALSE
CONSTANTS
    Uploads = {u1, u2}
    Mimes = {png, pdf, text, gif}
    Signed = {png, pdf}
    Allowed = {png, text}
    Other = other
    Faults = {"db", "disk", "read", "unlink", "left", "crash"}
INVARIANTS
    AcceptedIsKept
    OrphansExplained
    StatusTells
PROPERTIES
    EveryUploadEnds

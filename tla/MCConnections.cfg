SPECIFICATION Spec
CONSTANTS
    Conns = {a, b}
    Names = {x, y}
    Inputs = {"disconnect", "plugin", "drop", "load", "flat", "tables", "restore"}
    MaxAttempts = 3
    MaxCalls = 3
    MaxRevisions = 2
    MaxVersions = 2
    None = None
CONSTRAINT OneAtATime
SYMMETRY Symmetry
INVARIANTS
    LatestAttempt
    AgreeUnlessRaced
PROPERTIES
    LoadsSurvive
    NeverOlder
CHECK_DEADLOCK FALSE

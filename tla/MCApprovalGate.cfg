SPECIFICATION Spec
CONSTANTS
    r1 = r1
    s1 = s1
    s2 = s2
    c1 = c1
    NoOne = NoOne
    Requests = {r1}
    Sessions = {s1}
    Connections = {c1}
    Hosts = {"desktop", "web"}
    Modes = {"off", "writes_only"}
    Kinds = {"select", "write"}
    Decisions = {"deny", "approve", "write"}
    Timeout = 0
    StaleAfter = 2
    CleanupAge = 1
    MaxMisses = 0
    MaxStarts = 2
    MaxSuspends = 0
    MaxMoves = 2
    TimePasses = FALSE
CHECK_DEADLOCK FALSE
CONSTRAINT DeniedEarly
INVARIANTS TypeOK NothingUnapproved
PROPERTY KeepsItsPromise

SPECIFICATION FairSpec
CONSTANTS
    c1 = c1
    c2 = c2
    Calls = {c1, c2}
    Capacity = 1
    StdinRoom = 1
    StdoutRoom = 1
    Limits = {TRUE, FALSE}
    NoRequest = NoRequest
    MaxAborts = 1
INVARIANTS Accounted InitializeFirst
PROPERTIES CallsReturn StopEnds
CHECK_DEADLOCK FALSE

SPECIFICATION LiveSpec
CONSTANTS
    r1 = r1
    s1 = s1
    s2 = s2
    c1 = c1
    NoOne = NoOne
    Requests = {r1}
    Sessions = {s1, s2}
    Connections = {c1}
    Hosts = {"web"}
    Modes = {"all"}
    Kinds = {"write"}
    Decisions = {}
    Timeout = 1
    StaleAfter = 2
    CleanupAge = 1
    MaxMisses = 0
    MaxStarts = 1
    MaxSuspends = 0
    MaxMoves = 5
    TimePasses = FALSE
CHECK_DEADLOCK FALSE
CONSTRAINT OneByOne
PROPERTIES PromptFindsItsUser

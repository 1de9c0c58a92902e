SPECIFICATION LiveSpec
CONSTANTS
    r1 = r1
    s2 = s2
    c1 = c1
    NoOne = NoOne
    Requests = {r1}
    Sessions = {}
    Connections = {c1}
    Hosts = {"desktop", "web"}
    Modes = {"all"}
    Kinds = {"write"}
    Decisions = {"approve"}
    Timeout = 2
    StaleAfter = 3
    CleanupAge = 2
    MaxMisses = 1
    MaxStarts = 2
    MaxSuspends = 1
    MaxMoves = 0
    TimePasses = TRUE
CONSTRAINT OneMishap
INVARIANTS RunningHostIsAlive PromptStaysWhilePolled
PROPERTIES CallsSettle LeftoversCleared

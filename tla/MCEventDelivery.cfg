SPECIFICATION Spec
CONSTANTS
    s1 = s1
    s2 = s2
    c1 = c1
    c2 = c2
    h1 = h1
    h2 = h2
    e1 = e1
    e2 = e2
    SessionIds = {s1, s2}
    ConnIds = {c1, c2}
    Events = {e1, e2}
    Handlers = {h1, h2}
    EventOf <- MCEventOf
    Granted = {1}
    Level = 1
    Required <- MCRequired
    NoSession = NoSession
    NoSocket = NoSocket
    Broadcast = Broadcast
    QueueCapacity = 1
    HistoryCapacity = 2
    MaxSessions = 1
    MaxConnections = 1
    TTL = 1
    MaxSequence = 3
    MaxLosses = 1
    MaxEnds = 1
    MaxRequests = 1
    MaxRestarts = 1
CONSTRAINTS OneWhenPublished OneUpheaval
SYMMETRY Symmetry
INVARIANTS
    TypeOK
    BusInv
    InOrderOnce
    MissedOnlyIfEvicted
    OneSocket
    NothingNewFilteredInSession
CHECK_DEADLOCK FALSE

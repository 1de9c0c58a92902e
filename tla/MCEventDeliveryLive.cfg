SPECIFICATION FairSpec
CONSTANTS
    s1 = s1
    c1 = c1
    c2 = c2
    h1 = h1
    h2 = h2
    e1 = e1
    e2 = e2
    SessionIds = {s1}
    ConnIds = {c1, c2}
    Events = {e1}
    Handlers = {h1}
    EventOf <- MCEventOf
    Granted = {1}
    Level = 1
    Required <- MCRequired
    NoSession = NoSession
    NoSocket = NoSocket
    Broadcast = Broadcast
    QueueCapacity = 1
    HistoryCapacity = 1
    MaxSessions = 1
    MaxConnections = 1
    TTL = 1
    MaxSequence = 2
    MaxLosses = 1
    MaxEnds = 0
    MaxRequests = 0
    MaxRestarts = 0
CONSTRAINT ForEverybody
PROPERTIES
    ServedAgain
    SubscribeSettles
    OwedIsDelivered
CHECK_DEADLOCK FALSE

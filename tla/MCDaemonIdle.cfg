\* Idle shutdown, and grants that end while their producer is connected.
CONSTANTS
    s1 = s1
    s2 = s2
    k1 = k1
    k2 = k2
    p1 = p1
    p2 = p2
    NoSession = NoSession
    NoSocket = NoSocket
    Sid = {s1}
    Socket <- MCSocket
    Principal = {p1}
    Revocable = {p1}
    ProbedSocket = {}
    RetainedSizes = {1}
    CommandSizes = {1}
    maxSessions = 1
    maxCommandsPerSession = 1
    maxCommandsTotal = 1
    maxQueuedCommandBytes = 1
    maxRetainedSessionBytes = 1
    maxRetainedBytes = 2
    ttl = 1
    idleTimeout = 1
    ClockSteps = {1}
    MaxRequests = 1
    MaxHellos = 2
SPECIFICATION MCSpec
INVARIANT IdleTimerSound
PROPERTIES GrantedQuiescentStops RevokedRetired

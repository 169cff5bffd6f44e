\* Sweeps, suspends and dead transports; socket k2 has no isOpen probe.
CONSTANTS
    s1 = s1
    s2 = s2
    k1 = k1
    k2 = k2
    NoSession = NoSession
    NoSocket = NoSocket
    Sid <- MCSid
    Socket <- MCSocket
    ProbedSocket = {k1}
    RetainedSizes = {1}
    CommandSizes = {1}
    maxSessions = 2
    maxCommandsPerSession = 1
    maxCommandsTotal = 1
    maxQueuedCommandBytes = 1
    maxRetainedSessionBytes = 1
    maxRetainedBytes = 2
    ttl = 2
    ClockSteps = {1, 3}
    MaxRequests = 1
SPECIFICATION FairSpec
PROPERTIES SweepSparesTheSeen CommandsSettle DeadSessionsRemoved

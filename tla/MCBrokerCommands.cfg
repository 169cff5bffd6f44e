\* Commands, takeovers and budgets; the clock does not move.
CONSTANTS
    s1 = s1
    s2 = s2
    k1 = k1
    k2 = k2
    NoSession = NoSession
    NoSocket = NoSocket
    Sid <- MCSid
    Socket <- MCSocket
    ProbedSocket <- MCSocket
    RetainedSizes = {1, 2}
    CommandSizes = {1}
    maxSessions = 2
    maxCommandsPerSession = 2
    maxCommandsTotal = 2
    maxQueuedCommandBytes = 2
    maxRetainedSessionBytes = 2
    maxRetainedBytes = 3
    ttl = 1
    ClockSteps = {}
    MaxRequests = 3
SPECIFICATION Spec
SYMMETRY MCSymmetry
INVARIANTS OwnersAgree BudgetsExact QueuesSound
PROPERTIES ResolvedByOwner ImplementsService

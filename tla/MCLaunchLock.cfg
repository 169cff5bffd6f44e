\* Two windows and a restart, one of which may be killed.
CONSTANTS
    p1 = p1
    p2 = p2
    p3 = p3
    d1 = d1
    d2 = d2
    NoProcess = NoProcess
    Process <- MCProcess
    Restarter = {p1}
    Daemon <- MCDaemon
    MaxCrashes = 1
    ProbesFail = TRUE
SPECIFICATION FairSpec
CHECK_DEADLOCK FALSE
INVARIANTS LockReleased SerializedUnlessKilled
PROPERTIES ServiceComesUp

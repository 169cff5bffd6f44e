\* Two windows find the lock of a dead one.
CONSTANTS
    p1 = p1
    p2 = p2
    p3 = p3
    d1 = d1
    d2 = d2
    NoProcess = NoProcess
    Process <- MCProcess
    Restarter = {}
    Daemon <- MCDaemon
    MaxCrashes = 1
    ProbesFail = FALSE
SPECIFICATION Spec
CHECK_DEADLOCK FALSE
INVARIANTS LaunchesSerialized
SYMMETRY MCWindows

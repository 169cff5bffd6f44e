\* The clients, each by itself.
CONSTANTS
    g1 = g1
    g2 = g2
    c1 = c1
    c2 = c2
    NoGeneration = NoGeneration
    Generation <- MCGeneration
    Command <- MCCommand
    Authentication = TRUE
    CommandSizes = {1, 2}
    maxPreBridgeCommands = 2
    maxQueuedCommandBytes = 3
    d1 = d1
    d2 = d2
    f1 = f1
    f2 = f2
    p1 = p1
    p2 = p2
    Daemon = {d1, d2}
    NoDaemon = NoDaemon
    NoFingerprint = NoFingerprint
    Fingerprint <- MCFingerprint
    Skew <- MCSkew
    Payload = {p1, p2}
    Accepts <- MCAccepts
    Refusal = {1, 2, 3}
    NoRefusal = NoRefusal
    MaxFaults = 1
    CRequest = {1, 2}
    MaxRestarts = 2
    MaxExpiries = 1
    MaxDrops = 1
    r1 = r1
    r2 = r2
    r3 = r3
    r4 = r4
    HRequest = {r1, r2, r3, r4}
    HWorker = {1, 2}
    NoHRequest = NoHRequest
    NoHWorker = NoHWorker
    Preload = {r3}
    ResultKey <- MCResultKey
    ResultBytes <- MCResultBytes
    maxCacheBytes = 3
    maxCacheEntries = 1
SPECIFICATION MCSpec
CHECK_DEADLOCK FALSE
INVARIANTS CommandsSound WindowSound HighlightSound
PROPERTIES CommandsAnswered WindowReconnects CallsRecover HighlightsSettle

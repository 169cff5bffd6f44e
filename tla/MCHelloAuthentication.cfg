\* Two overlapping proofs and requests, a replay window of two; three sockets;
\* three processes that load a credential.
CONSTANTS
    h1 = h1
    h2 = h2
    r1 = r1
    r2 = r2
    cg = cg
    pg = pg
    CallerGrant = {cg}
    ProducerGrant = {pg}
    Hello <- MCHello
    Request <- MCRequest
    ChallengeSizes = {1, 2}
    SessionSizes = {1}
    maxChallenges = 2
    maxChallengeBytes = 3
    maxCallerSessions = 1
    maxCallerSessionsBytes = 1
    Window = 2
    MaxSequence = 3
    MaxChallengeIds = 2
    MaxSessionIds = 2
    g1 = g1
    g2 = g2
    g3 = g3
    c1 = c1
    NoGeneration = NoGeneration
    Generation <- MCGeneration
    Command = {c1}
    Authentication = TRUE
    CommandSizes = {1}
    maxPreBridgeCommands = 1
    maxQueuedCommandBytes = 1
    l1 = l1
    l2 = l2
    l3 = l3
    callers = callers
    NoKey = NoKey
    Damaged = Damaged
    Loader <- MCLoader
    Role = {callers}
    MaxKills = 1
SPECIFICATION MCSpec
SYMMETRY MCSymmetry
INVARIANTS AuthReservationsExact AdmissionsSound SocketsSound CredentialsAgree
PROPERTIES AuthorityCurrent

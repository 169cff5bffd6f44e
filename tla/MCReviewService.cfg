\* One session, two producers that claim it, two loads and one stream; two
\* peers and two requests at a server.
CONSTANTS
    s1 = s1
    p1 = p1
    p2 = p2
    t1 = t1
    l1 = l1
    l2 = l2
    c1 = c1
    r1 = r1
    r2 = r2
    NoCapability = NoCapability
    Session = {s1}
    Producer = {p1, p2}
    Resource = {r1, r2}
    Stream = {t1}
    Load = {l1, l2}
    Capability = {c1}
    Address <- MCAddress
    ChunkBytes = 1
    Ceiling = 2
    Sizes = {2, 3}
    cacheBytes = 3
    inFlightBytes = 3
    inFlightResources = 2
    maxStreams = 1
    maxStreamsPerSession = 1
    q1 = q1
    q2 = q2
    h1 = h1
    h2 = h2
    Peer = {q1, q2}
    Handler = {h1, h2}
    SendSizes = {1, 2}
    FrameBytes = 1
    ResponseSizes = {1, 2}
    maxUnauthenticatedSockets = 1
    maxOutboundBytesPerPeer = 2
    maxOutboundBytesTotal = 3
    maxHttpResponseBytes = 2
    maxInFlightHttpResponseBytes = 4
SPECIFICATION MCSpec
CHECK_DEADLOCK FALSE
INVARIANTS ReviewIsCurrent ReviewBytesExact
PROPERTIES StreamsAdvance LoadsSettle ServerSound

---------------------------- MODULE ReviewService ----------------------------
(***************************************************************************)
(* What the daemon adds to the broker state for browsers and agents: the   *)
(* mirror of every session's review, the loads and the cache of its        *)
(* resources, and the event streams that follow it.  Sources, under        *)
(* packages/hunk/src: session/broker/state.ts, reviewMirror.ts,            *)
(* reviewResourceCache.ts, browserReviewServer.ts and core/review/         *)
(* generationOrder.ts, resourceAssembly.ts.                                *)
(*                                                                         *)
(* The broker core below it (BrokerState) appears as the set of live       *)
(* sessions: a registration, a disconnect, a sweep or a shutdown changes   *)
(* it, and a command whose session was removed or taken over is rejected.  *)
(* Producers are not trusted to order what they publish, nor to answer     *)
(* reads correctly: every address and every chunk is an input.             *)
(***************************************************************************)
EXTENDS Integers, Sequences, FiniteSets, Reservations, Filtering

CONSTANTS
    Session, Producer, Resource, Stream, Load,
    Capability, NoCapability,     \* capability digests
    Address,                      \* the positions a producer may publish
    ChunkBytes,                   \* REVIEW_RESOURCE_CHUNK_BYTES
    Ceiling,                      \* reviewResourceCeiling of a kind
    Sizes,                        \* the sizes a producer may declare
    cacheBytes, inFlightBytes, inFlightResources,
    maxStreams, maxStreamsPerSession

ASSUME ReviewAssumption ==
    /\ NoCapability \notin Capability
    /\ Address \subseteq [producer : Producer, sequence : Nat, revision : Nat]
    /\ ChunkBytes \in Nat \ {0} /\ Ceiling \in Nat /\ Sizes \subseteq Nat
    /\ cacheBytes \in Nat /\ inFlightBytes \in Nat /\ inFlightResources \in Nat
    /\ maxStreams \in Nat /\ maxStreamsPerSession \in Nat

NoAddress == [sequence |-> -1]
Generation(a) == [producer |-> a.producer, sequence |-> a.sequence]
Unmeasured == -1

VARIABLES
    live,               \* sessions of the broker core
    capabilityDigests,  \* [Session -> the registered digest, or NoCapability]
    mirror,             \* [Session -> the mirrored Address, or NoAddress]
    entries,            \* completed resources, least recently used first
    cachedBytes, reservedBytes,
    loading,            \* [Load -> the key it assembles, or NoKey]
    reservation,        \* [Load -> bytes its reservation holds, or -1 if dropped]
    offset,             \* [Load -> bytes accepted]
    declared,           \* [Load -> declared size, or Unmeasured]
    readTurn,           \* [Load -> tells a read from the one before it]
    rejected,           \* loads whose pending read the core rejected
    streams,            \* open event streams
    streamSession, streamCapability, streamAddress, \* [Stream -> ...]
    stopped             \* the state was shut down

mirrorVars == <<live, capabilityDigests, mirror>>
cacheVars == <<entries, cachedBytes>>
loadVars == <<loading, reservation, offset, declared, readTurn, rejected, reservedBytes>>
streamVars == <<streams, streamSession, streamCapability, streamAddress>>
reviewVars == <<mirrorVars, cacheVars, loadVars, streamVars, stopped>>

NoKey == [session |-> "none"]

ReviewInit ==
    /\ live = {}
    /\ capabilityDigests = [s \in Session |-> NoCapability]
    /\ mirror = [s \in Session |-> NoAddress]
    /\ entries = <<>> /\ cachedBytes = 0 /\ reservedBytes = 0
    /\ loading = [l \in Load |-> NoKey]
    /\ reservation = [l \in Load |-> -1]
    /\ offset = [l \in Load |-> 0]
    /\ declared = [l \in Load |-> Unmeasured]
    /\ readTurn = [l \in Load |-> 0]
    /\ rejected = {}
    /\ streams = {}
    /\ streamSession = [t \in Stream |-> "none"]
    /\ streamCapability = [t \in Stream |-> NoCapability]
    /\ streamAddress = [t \in Stream |-> NoAddress]
    /\ stopped = FALSE

-----------------------------------------------------------------------------
(***************************************************************************)
(* The order of publications.                                              *)
(***************************************************************************)

(* Mutant: generations are compared by number alone.                       *)
Classify_AnyProducer(current, incoming) ==
    IF incoming.sequence # current.sequence
    THEN IF incoming.sequence > current.sequence THEN "gap" ELSE "stale"
    ELSE IF incoming.revision > current.revision THEN "accepted" ELSE "stale"

(* classifyReviewPublication. *)
Classify(current, incoming) ==
    IF incoming.producer # current.producer THEN "stale"
    ELSE IF incoming.sequence # current.sequence
         THEN IF incoming.sequence > current.sequence THEN "gap" ELSE "stale"
    ELSE IF incoming.revision > current.revision THEN "accepted" ELSE "stale"

(* The publication that ReviewMirror.observe leaves for a session. Only an *)
(* address that comes with its own generation's catalog starts a mirror or *)
(* replaces the generation.                                                *)
Observed(current, incoming, matching) ==
    IF incoming = NoAddress THEN current
    ELSE IF current = NoAddress THEN (IF matching THEN incoming ELSE NoAddress)
    ELSE CASE Classify(current, incoming) = "accepted" -> incoming
           [] Classify(current, incoming) = "gap" -> IF matching THEN incoming ELSE current
           [] OTHER -> current

-----------------------------------------------------------------------------
(***************************************************************************)
(* The cache.                                                              *)
(***************************************************************************)

(* The bytes that the entries of a sequence hold.                          *)
Bytes(es) == Reserved([i \in 1..Len(es) |-> es[i].bytes], 1..Len(es))

(* The completed resources, whatever their order.                          *)
Completed == {entries[i] : i \in 1..Len(entries)}

(* The entries but for the one of this key. *)
Others(key) == Filtered(entries, {e \in Completed : e.key # key})

(* A key that evictGeneration or evictSession drops once the mirror holds  *)
(* these addresses.                                                        *)
Retired(key, addresses) ==
    addresses[key.session] = NoAddress \/ Generation(addresses[key.session]) # key.generation

(* Mutant: a dropped reservation is still counted.                         *)
DroppedBytes_Uncounted(gone) == 0

(* What the dropped reservations held. *)
DroppedBytes(gone) == Reserved([l \in gone |-> reservation[l]], gone)

(* evictWhere for everything that left the mirror: completed entries and   *)
(* reservations.  The loads that held them go on.                          *)
Evict(addresses) ==
    LET kept == Filtered(entries, {e \in Completed : ~Retired(e.key, addresses)})
        gone == {l \in Load : loading[l] # NoKey /\ reservation[l] # -1
                                /\ Retired(loading[l], addresses)}
    IN  /\ entries' = kept
        /\ cachedBytes' = cachedBytes - (Bytes(entries) - Bytes(kept))
        /\ reservation' = [l \in Load |-> IF l \in gone THEN -1 ELSE reservation[l]]
        /\ reservedBytes' = reservedBytes - DroppedBytes(gone)

(* store: the new entry is the youngest; the oldest others are evicted     *)
(* until the budget fits.                                                  *)
Store(key, bytes) ==
    LET all == Append(Others(key), [key |-> key, bytes |-> bytes])
        From(n) == SubSeq(all, n, Len(all))
        first == CHOOSE n \in 1..Len(all) :
                    /\ Bytes(From(n)) <= cacheBytes \/ n = Len(all)
                    /\ \A m \in 1..(n - 1) : Bytes(From(m)) > cacheBytes
    IN  /\ entries' = From(first)
        /\ cachedBytes' = cachedBytes - Bytes(entries) + Bytes(From(first))

-----------------------------------------------------------------------------
(***************************************************************************)
(* Event streams.                                                          *)
(***************************************************************************)

(* BrowserReviewServer.observe for every session whose mirror changed: a   *)
(* retired session's streams get their farewell and end, streams opened    *)
(* under another capability end, the others are sent the publication; a    *)
(* stream in `slow` fell too far behind, or cannot frame it, and ends too. *)
NotifyStreams(addresses, capabilities, slow) ==
    LET told == {t \in streams : addresses[streamSession[t]] # mirror[streamSession[t]]}
        ended == {t \in told : \/ addresses[streamSession[t]] = NoAddress
                               \/ capabilities[streamSession[t]] # streamCapability[t]
                               \/ t \in slow}
    IN  /\ streams' = streams \ ended
        /\ streamSession' = [t \in Stream |-> IF t \in ended THEN "none" ELSE streamSession[t]]
        /\ streamCapability' = [t \in Stream |-> IF t \in ended THEN NoCapability
                                                 ELSE streamCapability[t]]
        /\ streamAddress' = [t \in Stream |-> IF t \in ended THEN NoAddress
                                              ELSE IF t \in told THEN addresses[streamSession[t]]
                                              ELSE streamAddress[t]]

(* Reads in flight to sessions whose commands the core rejects.            *)
RejectReads(sessions) ==
    /\ rejected' = rejected \cup {l \in Load : loading[l] # NoKey /\ loading[l].session \in sessions}
    /\ UNCHANGED <<loading, offset, declared, readTurn>>

(* reconcileMirroredSessions: what the mirror keeps for the live sessions. *)
Reconciled(alive, addresses) ==
    [s \in Session |-> IF s \in alive THEN addresses[s] ELSE NoAddress]

(* Everything that follows from a new set of live sessions, the mirrored   *)
(* addresses and the registered capabilities.                              *)
Publish(alive, addresses, capabilities, interrupted, slow) ==
    LET kept == Reconciled(alive, addresses)
        held == [s \in Session |-> IF s \in alive THEN capabilities[s] ELSE NoCapability]
    IN  /\ live' = alive
        /\ mirror' = kept
        /\ capabilityDigests' = held
        /\ Evict(kept)
        /\ RejectReads(interrupted \cup (live \ alive))
        /\ NotifyStreams(kept, held, slow)

-----------------------------------------------------------------------------
(***************************************************************************)
(* Producers.                                                              *)
(***************************************************************************)

(* registerSession: the core admits the session, perhaps taking it over    *)
(* from another socket and perhaps dropping the session the socket had     *)
(* before; then the capability and the publication are taken up.           *)
Register(s, renamedFrom, takeover, capability, incoming, matching, slow) ==
    /\ ~stopped
    /\ Publish((live \ renamedFrom) \cup {s},
               [mirror EXCEPT ![s] = Observed(@, incoming, matching)],
               [capabilityDigests EXCEPT ![s] = capability],
               IF takeover THEN {s} ELSE {}, slow)
    /\ UNCHANGED stopped

(* updateSnapshot: the catalog is the mirrored one, so a snapshot moves    *)
(* the revision and never the generation.                                  *)
UpdateReviewSnapshot(s, incoming, slow) ==
    /\ s \in live
    /\ Publish(live,
               [mirror EXCEPT ![s] =
                  Observed(@, incoming, @ # NoAddress /\ incoming # NoAddress
                                          /\ Generation(@) = Generation(incoming))],
               capabilityDigests, {}, slow)
    /\ UNCHANGED stopped

(* unregisterSocket, or pruneStaleSessions that removed something.         *)
SessionsRemoved(gone, slow) ==
    /\ gone # {}
    /\ Publish(live \ gone, mirror, capabilityDigests, {}, slow)
    /\ UNCHANGED stopped

(* shutdown: everything is cleared and every watcher is told.              *)
ReviewShutdown ==
    /\ ~stopped
    /\ Publish({}, mirror, capabilityDigests, {}, {})
    /\ stopped' = TRUE

-----------------------------------------------------------------------------
(***************************************************************************)
(* Loads: loadReviewResource and assembleResource.                         *)
(***************************************************************************)

Running(key) == \E l \in Load : loading[l] = key

Key(s, r) == [session |-> s, generation |-> Generation(mirror[s]), resource |-> r]

(* A cached resource is promoted to the young end.                         *)
CacheHit(s, r) ==
    /\ mirror[s] # NoAddress
    /\ \E i \in 1..Len(entries) :
          /\ entries[i].key = Key(s, r)
          /\ entries' = Append(Others(Key(s, r)), entries[i])
    /\ UNCHANGED <<mirrorVars, cachedBytes, loadVars, streamVars, stopped>>

(* reserve does not throw. *)
MayReserve(bytes) ==
    /\ Cardinality({l \in Load : reservation[l] # -1}) < inFlightResources
    /\ reservedBytes + bytes <= inFlightBytes

(* The first caller of a resource that is not cached starts its load: it   *)
(* reserves the measured size, or one chunk, and asks for the first chunk. *)
StartLoad(l, s, r, measured) ==
    LET bytes == IF measured # Unmeasured THEN measured
                 ELSE IF ChunkBytes < Ceiling THEN ChunkBytes ELSE Ceiling
    IN  /\ loading[l] = NoKey
        /\ mirror[s] # NoAddress
        /\ \A i \in 1..Len(entries) : entries[i].key # Key(s, r)
        /\ ~Running(Key(s, r))
        /\ MayReserve(bytes)
        /\ loading' = [loading EXCEPT ![l] = Key(s, r)]
        /\ reservation' = [reservation EXCEPT ![l] = bytes]
        /\ reservedBytes' = reservedBytes + bytes
        /\ declared' = [declared EXCEPT ![l] = measured]
        /\ UNCHANGED <<mirrorVars, cacheVars, offset, readTurn, rejected, streamVars, stopped>>

(* The load settles: its reservation, unless it was dropped, and its place *)
(* in the table of loads are given back.                                   *)
EndLoad(l) ==
    /\ loading' = [loading EXCEPT ![l] = NoKey]
    /\ offset' = [offset EXCEPT ![l] = 0]
    /\ declared' = [declared EXCEPT ![l] = Unmeasured]
    /\ readTurn' = [readTurn EXCEPT ![l] = 0]
    /\ rejected' = rejected \ {l}
    /\ reservation' = [reservation EXCEPT ![l] = -1]
    /\ reservedBytes' = IF reservation[l] = -1 THEN reservedBytes
                        ELSE reservedBytes - reservation[l]

(* The read is refused, times out or was rejected with its session.        *)
ReadFails(l) ==
    /\ loading[l] # NoKey
    /\ EndLoad(l)
    /\ UNCHANGED <<mirrorVars, cacheVars, streamVars, stopped>>

(* Mutant: an empty chunk need not end the stream.                         *)
Accepts_NoProgress(l, size, n, eof) ==
    /\ declared[l] \in {Unmeasured, size}
    /\ size <= Ceiling
    /\ offset[l] + n <= size
    /\ eof => offset[l] + n = size

(* ReviewChunkAssembler.accept takes a chunk of n bytes that declares a    *)
(* size and perhaps the end.                                               *)
Accepts(l, size, n, eof) ==
    /\ declared[l] \in {Unmeasured, size}
    /\ size <= Ceiling
    /\ offset[l] + n <= size
    /\ n = 0 => eof
    /\ eof => offset[l] + n = size

(* resize does not throw. *)
MayResize(l, size) ==
    reservation[l] = -1 \/ reservedBytes - reservation[l] + size <= inFlightBytes

(* Mutant: the generation is not looked at again when a chunk arrives.     *)
Active_Assumed(l) == TRUE

(* assertGenerationActive for the load's own generation.                   *)
Active(l) ==
    LET a == mirror[loading[l].session]
    IN  a # NoAddress /\ Generation(a) = loading[l].generation

(* A chunk arrives: it is checked, the reservation follows the declared    *)
(* size and, if the generation is still mirrored, the next chunk is asked  *)
(* for or the verified bytes are stored.  Whatever fails ends the load.    *)
ChunkArrives(l, size, n, eof) ==
    /\ loading[l] # NoKey
    /\ l \notin rejected
    /\ UNCHANGED <<mirrorVars, streamVars, stopped>>
    /\ IF ~(Accepts(l, size, n, eof) /\ MayResize(l, size) /\ Active(l))
       THEN EndLoad(l) /\ UNCHANGED cacheVars
       ELSE IF eof
       THEN EndLoad(l) /\ Store(loading[l], size)
       ELSE /\ offset' = [offset EXCEPT ![l] = @ + n]
            /\ readTurn' = [readTurn EXCEPT ![l] = 1 - @]
            /\ declared' = [declared EXCEPT ![l] = size]
            /\ reservation' = [reservation EXCEPT ![l] = IF @ = -1 THEN -1 ELSE size]
            /\ reservedBytes' = IF reservation[l] = -1 THEN reservedBytes
                                ELSE reservedBytes - reservation[l] + size
            /\ UNCHANGED <<loading, rejected, cacheVars>>

-----------------------------------------------------------------------------
(***************************************************************************)
(* Browsers.                                                               *)
(***************************************************************************)

(* handleEvents: an authorized request opens a stream at the mirrored      *)
(* position.                                                               *)
OpenStream(t, s) ==
    /\ t \notin streams
    /\ capabilityDigests[s] # NoCapability
    /\ mirror[s] # NoAddress
    /\ Cardinality(streams) < maxStreams
    /\ Cardinality({u \in streams : streamSession[u] = s}) < maxStreamsPerSession
    /\ streams' = streams \cup {t}
    /\ streamSession' = [streamSession EXCEPT ![t] = s]
    /\ streamCapability' = [streamCapability EXCEPT ![t] = capabilityDigests[s]]
    /\ streamAddress' = [streamAddress EXCEPT ![t] = mirror[s]]
    /\ UNCHANGED <<mirrorVars, cacheVars, loadVars, stopped>>

(* The browser cancels, its request is aborted, a heartbeat finds it too   *)
(* far behind, or the server closes.                                       *)
StreamEnds(t) ==
    /\ t \in streams
    /\ streams' = streams \ {t}
    /\ streamSession' = [streamSession EXCEPT ![t] = "none"]
    /\ streamCapability' = [streamCapability EXCEPT ![t] = NoCapability]
    /\ streamAddress' = [streamAddress EXCEPT ![t] = NoAddress]
    /\ UNCHANGED <<mirrorVars, cacheVars, loadVars, stopped>>

ReviewNext ==
    \/ \E s \in Session, takeover \in BOOLEAN, c \in Capability \cup {NoCapability},
          p \in Address \X BOOLEAN \cup {<<NoAddress, FALSE>>}, slow \in SUBSET streams :
          \E renamedFrom \in {{}} \cup {{x} : x \in live \ {s}} :
             /\ takeover => s \in live
             /\ Register(s, renamedFrom, takeover, c, p[1], p[2], slow)
    \/ \E s \in Session, a \in Address, slow \in SUBSET streams :
          UpdateReviewSnapshot(s, a, slow)
    \/ \E gone \in SUBSET live, slow \in SUBSET streams : SessionsRemoved(gone, slow)
    \/ ReviewShutdown
    \/ \E s \in Session, r \in Resource : CacheHit(s, r)
    \/ \E l \in Load, s \in Session, r \in Resource, size \in {Unmeasured} \cup (Sizes \cap 0..Ceiling) :
          StartLoad(l, s, r, size)
    \/ \E l \in Load : ReadFails(l)
    \/ \E l \in Load, size \in Sizes, n \in 0..ChunkBytes, eof \in BOOLEAN :
          ChunkArrives(l, size, n, eof)
    \/ \E t \in Stream, s \in Session : OpenStream(t, s)
    \/ \E t \in Stream : StreamEnds(t)

ReviewSpec == ReviewInit /\ [][ReviewNext]_reviewVars

(***************************************************************************)
(* Fairness.  Every read is a command of the broker core, which settles it *)
(* with an answer, a rejection or its timeout (BrokerState's               *)
(* CommandsSettle).                                                        *)
(***************************************************************************)
ReadSettles(l) ==
    \/ ReadFails(l)
    \/ \E size \in Sizes, n \in 0..ChunkBytes, eof \in BOOLEAN :
          ChunkArrives(l, size, n, eof)

ReviewFairSpec == ReviewSpec /\ \A l \in Load : WF_reviewVars(ReadSettles(l))

-----------------------------------------------------------------------------
(***************************************************************************)
(* Properties.                                                             *)
(***************************************************************************)

(* Whatever is cached or holds an in-flight reservation belongs to the     *)
(* generation its live session is mirrored at: a read that outlives its    *)
(* generation, its session or a shutdown leaves no bytes behind.           *)
CacheIsCurrent ==
    /\ \A i \in 1..Len(entries) : ~Retired(entries[i].key, mirror)
    /\ \A l \in Load : reservation[l] # -1 => loading[l] # NoKey /\ ~Retired(loading[l], mirror)
    /\ \A s \in Session : mirror[s] # NoAddress => s \in live

(* Both byte counters are exact and bounded whatever order evictions,      *)
(* resizes, releases and stores come in; only a single entry may exceed    *)
(* the cache, and no two loads assemble the same resource.                 *)
ReviewBytesExact ==
    /\ cachedBytes = Bytes(entries)
    /\ cachedBytes <= cacheBytes \/ Len(entries) = 1
    /\ reservedBytes = DroppedBytes({l \in Load : reservation[l] # -1})
    /\ reservedBytes <= inFlightBytes
    /\ \A l, m \in Load : loading[l] # NoKey /\ loading[l] = loading[m] => l = m

(* An open stream was last told the position its session is mirrored at,   *)
(* so no publication is lost on the way and no stream outlives its review. *)
StreamsCurrent ==
    \A t \in streams :
        streamAddress[t] # NoAddress /\ streamAddress[t] = mirror[streamSession[t]]

(* What the daemon keeps and what it tells its watchers are both of the    *)
(* generation that is mirrored.                                            *)
ReviewIsCurrent == CacheIsCurrent /\ StreamsCurrent

(* A stream only ever moves forward: to a later revision or to a later     *)
(* generation of the producer it started with, and only while the          *)
(* capability it was opened under is the registered one.                   *)
StreamsAdvance ==
    [][\A t \in streams \cap streams' :
          streamAddress'[t] # streamAddress[t] =>
            LET a == streamAddress[t]
                b == streamAddress'[t]
            IN  /\ a.producer = b.producer
                /\ \/ a.sequence < b.sequence
                   \/ a.sequence = b.sequence /\ a.revision < b.revision
                /\ capabilityDigests'[streamSession[t]] = streamCapability[t]]_reviewVars

(* Every load settles, so its callers and its reservation are not held for *)
(* ever, even by a producer that keeps sending chunks.                     *)
LoadsSettle == \A l \in Load : loading[l] # NoKey ~> loading[l] = NoKey
===============================================================================

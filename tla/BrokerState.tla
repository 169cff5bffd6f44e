----------------------------- MODULE BrokerState -----------------------------
(***************************************************************************)
(* The in-memory core of the session broker daemon: the class              *)
(* SessionBrokerState of packages/session-broker-core/src/brokerState.ts   *)
(* with the ResourceBudget and ReservationGroup accounting of budgets.ts.  *)
(*                                                                         *)
(* Producers (running Hunk windows) own sessions through a socket; callers *)
(* dispatch commands that a per-session, capacity-one FIFO writes to the   *)
(* owning socket.  Every method of the class runs to completion on the     *)
(* JavaScript event loop, so each one is one action.                       *)
(*                                                                         *)
(* Data abstraction.  A registration or snapshot is its retained size, a   *)
(* command its queued size; request ids (random UUIDs in the code) are     *)
(* 1, 2, ... in admission order.  Wall-clock instants are kept as          *)
(* saturating ages, so time is unbounded and the state space is finite.    *)
(***************************************************************************)
EXTENDS Integers, Sequences, FiniteSets, Reservations

CONSTANTS
    Sid,                      \* session ids
    Socket,                   \* transport handles (DaemonSessionSocket)
    NoSession, NoSocket,      \* "absent" in the two owner maps
    ProbedSocket,             \* sockets that implement isOpen()
    RetainedSizes,            \* sizes a registration plus snapshot may have
    CommandSizes,             \* sizes a queued command may have
    maxSessions, maxCommandsPerSession, maxCommandsTotal,
    maxQueuedCommandBytes, maxRetainedSessionBytes, maxRetainedBytes,
    ttl,                      \* staleSessionTtlMs, in ticks
    ClockSteps,               \* how far the wall clock may move at once
    MaxRequests               \* bound: commands admitted in one behaviour

ASSUME IdentityAssumption ==
    /\ NoSession \notin Sid
    /\ NoSocket \notin Socket
    /\ ProbedSocket \subseteq Socket
    /\ IsFiniteSet(Sid)

ASSUME LimitsAssumption ==
    /\ maxSessions \in Nat
    /\ maxCommandsPerSession \in Nat
    /\ maxCommandsTotal \in Nat
    /\ maxQueuedCommandBytes \in Nat
    /\ maxRetainedSessionBytes \in Nat
    /\ maxRetainedBytes \in Nat
    /\ maxRetainedSessionBytes <= maxRetainedBytes
    /\ MaxRequests \in Nat

ASSUME SizesAssumption ==
    /\ RetainedSizes \subseteq Nat \ {0}
    /\ CommandSizes \subseteq Nat \ {0}

ASSUME ClockAssumption ==
    /\ ttl \in Nat \ {0}
    /\ ClockSteps \subseteq Nat \ {0}

Request == 1..MaxRequests

VARIABLES
    sessions,              \* [Sid -> owning socket, or NoSocket]
    silence,               \* [Sid -> ticks since lastSeenAt, saturated at ttl]
    sessionIdsBySocket,    \* [Socket -> the session it owns, or NoSession]
    retainedReservations,  \* [Sid -> reserved bytes, 0 when there is none]
    sessionReservations,   \* sessions that hold one unit of sessionBudget
    pendingCommands,       \* requests admitted and not yet settled
    pendingSession,        \* [Request -> session the request targets]
    pendingSocket,         \* [Request -> socket captured at admission]
    pendingBytes,          \* [Request -> queued bytes it reserved]
    active,                \* requests written to their socket, unsettled
    commandQueues,         \* [Sid -> FIFO of pending requests]
    sessionUsed, retainedUsed, commandUsed, queuedUsed, \* ResourceBudget.reserved
    sincePrune,            \* ticks since lastPruneAt, saturated; -1 is null
    shutdownError,         \* TRUE once shutdown() ran
    nextRequest,           \* the next fresh request id
    outcome,               \* [Request -> how its promise was settled]
    sent,                  \* [Socket -> requests written to it, in order]
    answeredBy,            \* history: [Request -> the socket whose result settled it]
    open                   \* [Socket -> the transport is connected]

ownerVars   == <<sessions, sessionIdsBySocket>>
sizeVars    == <<retainedReservations, sessionReservations, sessionUsed, retainedUsed>>
commandVars == <<pendingCommands, pendingSession, pendingSocket, pendingBytes, active,
                 commandQueues, commandUsed, queuedUsed, nextRequest, outcome, sent, answeredBy>>
vars == <<ownerVars, sizeVars, commandVars, silence, sincePrune, shutdownError, open>>

Settled == {"resolved", "failed", "timedOut", "rejected"}

(* Ages are kept up to the largest one the code can tell apart.            *)
Saturate(n, limit) == IF n > limit THEN limit ELSE n

Live == {s \in Sid : sessions[s] # NoSocket}

Init ==
    /\ sessions = [s \in Sid |-> NoSocket]
    /\ silence = [s \in Sid |-> 0]
    /\ sessionIdsBySocket = [k \in Socket |-> NoSession]
    /\ retainedReservations = [s \in Sid |-> 0]
    /\ sessionReservations = {}
    /\ pendingCommands = {}
    /\ pendingSession = [r \in Request |-> NoSession]
    /\ pendingSocket = [r \in Request |-> NoSocket]
    /\ pendingBytes = [r \in Request |-> 0]
    /\ active = {}
    /\ commandQueues = [s \in Sid |-> <<>>]
    /\ sessionUsed = 0
    /\ retainedUsed = 0
    /\ commandUsed = 0
    /\ queuedUsed = 0
    /\ sincePrune = -1
    /\ shutdownError = FALSE
    /\ nextRequest = 1
    /\ outcome = [r \in Request |-> "none"]
    /\ sent = [k \in Socket |-> <<>>]
    /\ answeredBy = [r \in Request |-> NoSocket]
    /\ open = [k \in Socket |-> TRUE]

-----------------------------------------------------------------------------
(***************************************************************************)
(* Settling commands.                                                      *)
(***************************************************************************)

(* Mutant: removes the oldest command instead of the settled one.         *)
Splice_Shift(queue, r) == Tail(queue)

(* The queue without its member r (indexOf followed by splice). *)
Splice(queue, r) ==
    LET i == CHOOSE j \in 1..Len(queue) : queue[j] = r
    IN  IF \E j \in 1..Len(queue) : queue[j] = r
        THEN [j \in 1..(Len(queue) - 1) |-> IF j < i THEN queue[j] ELSE queue[j + 1]]
        ELSE queue

(* Mutant: the promises of the deleted commands are never settled.        *)
Settle_Silent(requests, how) ==
    /\ pendingCommands' = pendingCommands \ requests
    /\ active' = active \ requests
    /\ commandUsed' = commandUsed - Cardinality(requests)
    /\ queuedUsed' = queuedUsed - Reserved(pendingBytes, requests)
    /\ outcome' = outcome

(* Release the reservations of the settled requests, delete them from the  *)
(* pending map and settle their promises.                                  *)
Settle(requests, how) ==
    /\ pendingCommands' = pendingCommands \ requests
    /\ active' = active \ requests
    /\ commandUsed' = commandUsed - Cardinality(requests)
    /\ queuedUsed' = queuedUsed - Reserved(pendingBytes, requests)
    /\ outcome' = [r \in Request |-> IF r \in requests THEN how ELSE outcome[r]]

(* finishPending with advance = FALSE for every pending command of the     *)
(* sessions in S, whose queues are then deleted.                           *)
RejectPendingCommandsForSessions(S) ==
    /\ Settle({r \in pendingCommands : pendingSession[r] \in S}, "rejected")
    /\ commandQueues' = [s \in Sid |-> IF s \in S THEN <<>> ELSE commandQueues[s]]
    /\ UNCHANGED <<pendingSession, pendingSocket, pendingBytes, nextRequest, sent, answeredBy>>

(***************************************************************************)
(* advanceSessionQueue applied to the queue of session s.  A head that is  *)
(* already active stays.  Otherwise heads are tried in order: the first    *)
(* `refused' of them settle as rejected (the session is gone or changed    *)
(* hands, send threw, or send returned false), each finishPending          *)
(* advancing to the next, and the one after them is written and becomes    *)
(* active.  socketOf gives the socket captured when a request was admitted.*)
(***************************************************************************)
MayRefuse(s, queue, socketOf, refused) ==
    /\ queue # <<>> /\ queue[1] \in active => refused = 0
    /\ refused < Len(queue) /\ queue[refused + 1] \notin active
         => sessions[s] # NoSocket /\ sessions[s] = socketOf[queue[refused + 1]]

Refused(queue, refused) == {queue[i] : i \in 1..refused}
AfterRefusals(queue, refused) == SubSeq(queue, refused + 1, Len(queue))

(* The head that advancing leaves active, as a set of at most one request. *)
Head1(queue, refused) == {queue[i] : i \in {refused + 1} \cap (1..Len(queue))}

(* The command that advancing writes, appended to what its socket received. *)
Written(s, queue, refused) ==
    IF refused < Len(queue) /\ queue[refused + 1] \notin active
    THEN [sent EXCEPT ![sessions[s]] = Append(@, queue[refused + 1])]
    ELSE sent

(* finishPending(r) followed by the advance of its session's FIFO.         *)
FinishPending(r, how) ==
    LET s == pendingSession[r]
        queue == Splice(commandQueues[s], r)
    IN  \E refused \in 0..Len(queue) :
          LET done == Refused(queue, refused) \cup {r}
          IN  /\ MayRefuse(s, queue, pendingSocket, refused)
              /\ pendingCommands' = pendingCommands \ done
              /\ commandUsed' = commandUsed - Cardinality(done)
              /\ queuedUsed' = queuedUsed - Reserved(pendingBytes, done)
              /\ outcome' = [x \in Request |->
                               IF x = r THEN how
                               ELSE IF x \in done THEN "rejected" ELSE outcome[x]]
              /\ commandQueues' = [commandQueues EXCEPT ![s] = AfterRefusals(queue, refused)]
              /\ active' = (active \ {r}) \cup Head1(queue, refused)
              /\ sent' = Written(s, queue, refused)
              /\ UNCHANGED <<pendingSession, pendingSocket, pendingBytes, nextRequest>>

-----------------------------------------------------------------------------
(***************************************************************************)
(* Sessions.                                                               *)
(***************************************************************************)

(* Both admission paths refuse work once shutdown() ran.                   *)
AcceptsWork == ~shutdownError

(* k registers s while another socket owns it.                             *)
TakesOver(k, s) == sessions[s] # NoSocket /\ sessions[s] # k

(* The session k owned under another id, as a set of at most one.          *)
Renamed(k, s) == {sessionIdsBySocket[k]} \ {NoSession, s}

(* The identity whose reservations carry over to s.                        *)
Transferred(k, s) ==
    IF sessions[s] # NoSocket THEN {s} ELSE {sessionIdsBySocket[k]} \ {NoSession}

(* Mutant: the reservations of k's former session are forgotten.           *)
Abandoned_Forgotten(k, s) == {}

(* k's former session when s already has reservations: its own are retired.*)
Abandoned(k, s) == IF sessions[s] # NoSocket THEN Renamed(k, s) ELSE {}

(* Mutant: a takeover leaves the commands of the displaced owner pending.  *)
Interrupted_RenamedOnly(k, s) == Renamed(k, s)

(* The sessions whose pending commands a registration rejects.             *)
Interrupted(k, s) == Renamed(k, s) \cup (IF TakesOver(k, s) THEN {s} ELSE {})

(* Mutant: a takeover does not detach the displaced socket.                *)
OwnerBySocket_KeepsDisplaced(k, s) == [sessionIdsBySocket EXCEPT ![k] = s]

(* sessionIdsBySocket once k owns s: the displaced socket owns nothing.    *)
OwnerBySocket(k, s) ==
    [x \in Socket |-> IF x = k THEN s
                      ELSE IF TakesOver(k, s) /\ x = sessions[s] THEN NoSession
                      ELSE sessionIdsBySocket[x]]

(* registerSession(k, s): socket k registers session s, retaining `bytes'. *)
(* Every early return of the code leaves the state alone and is a guard.   *)
RegisterSession(k, s, bytes, replaceOwner) ==
    LET retainedDelta == bytes - Reserved(retainedReservations,
                                          Transferred(k, s) \cup Abandoned(k, s))
        reserve == IF Transferred(k, s) \cap sessionReservations = {} THEN 1 ELSE 0
    IN  /\ AcceptsWork
        /\ bytes <= maxRetainedSessionBytes
        /\ TakesOver(k, s) => replaceOwner
        /\ retainedDelta <= maxRetainedBytes - retainedUsed
        /\ reserve <= maxSessions - sessionUsed
        /\ sessions' = [x \in Sid |-> IF x = s THEN k
                                      ELSE IF x \in Renamed(k, s) THEN NoSocket
                                      ELSE sessions[x]]
        /\ sessionIdsBySocket' = OwnerBySocket(k, s)
        /\ silence' = [silence EXCEPT ![s] = 0]
        /\ retainedUsed' = retainedUsed + retainedDelta
        /\ sessionUsed' = sessionUsed + reserve
                            - Cardinality(Abandoned(k, s) \cap sessionReservations)
        /\ retainedReservations' = [x \in Sid |-> IF x = s THEN bytes
                                      ELSE IF x \in Renamed(k, s) THEN 0
                                      ELSE retainedReservations[x]]
        /\ sessionReservations' = (sessionReservations \ Renamed(k, s)) \cup {s}
        /\ RejectPendingCommandsForSessions(Interrupted(k, s))
        /\ UNCHANGED <<sincePrune, shutdownError, open>>

(* ResourceBudget.resize on the bytes session s retains.                   *)
Resize(s, bytes) ==
    LET delta == bytes - retainedReservations[s]
    IN  /\ delta <= maxRetainedBytes - retainedUsed
        /\ retainedUsed' = retainedUsed + delta
        /\ retainedReservations' = [retainedReservations EXCEPT ![s] = bytes]

(* updateSnapshot(k): the owner replaces its snapshot, and is seen.        *)
UpdateSnapshot(k, bytes) ==
    LET s == sessionIdsBySocket[k]
    IN  /\ s # NoSession
        /\ sessions[s] = k
        /\ bytes <= maxRetainedSessionBytes
        /\ retainedReservations[s] # 0
        /\ Resize(s, bytes)
        /\ silence' = [silence EXCEPT ![s] = 0]
        /\ UNCHANGED <<ownerVars, commandVars, sessionReservations, sessionUsed,
                       sincePrune, shutdownError, open>>

(* markSessionSeen(k): a heartbeat of the owner.                           *)
MarkSessionSeen(k) ==
    LET s == sessionIdsBySocket[k]
    IN  /\ s # NoSession
        /\ sessions[s] = k
        /\ silence' = [silence EXCEPT ![s] = 0]
        /\ UNCHANGED <<ownerVars, sizeVars, commandVars, sincePrune, shutdownError, open>>

(* removeSession for every session of S, all of them live.                 *)
RemoveSessions(S) ==
    /\ sessions' = [s \in Sid |-> IF s \in S THEN NoSocket ELSE sessions[s]]
    /\ sessionIdsBySocket' =
         [k \in Socket |-> IF \E s \in S : sessions[s] = k /\ sessionIdsBySocket[k] = s
                           THEN NoSession ELSE sessionIdsBySocket[k]]
    /\ retainedUsed' = retainedUsed - Reserved(retainedReservations, S)
    /\ retainedReservations' = [s \in Sid |-> IF s \in S THEN 0 ELSE retainedReservations[s]]
    /\ sessionUsed' = sessionUsed - Cardinality(S \cap sessionReservations)
    /\ sessionReservations' = sessionReservations \ S
    /\ RejectPendingCommandsForSessions(S)

(* unregisterSocket(k): the transport's close event.                       *)
UnregisterSocket(k) ==
    LET s == sessionIdsBySocket[k]
    IN  /\ s # NoSession
        /\ sessions[s] # NoSocket
        /\ RemoveSessions({s})
        /\ UNCHANGED <<silence, sincePrune, shutdownError, open>>

(* Mutant: no grace for a sweep after the host was suspended.             *)
WallClockJumped_Never == FALSE

(* A gap of more than a TTL since the last sweep: the host was suspended.  *)
WallClockJumped == sincePrune > ttl

(* Mutant: having an isOpen probe counts as being open.                   *)
Stale_ProbeNotCalled == {s \in Live : silence[s] >= ttl /\ sessions[s] \notin ProbedSocket}

(* Silent for a TTL, and the transport does not answer as open.            *)
Stale == {s \in Live : silence[s] >= ttl /\ ~(sessions[s] \in ProbedSocket /\ open[sessions[s]])}

(* pruneStaleSessions: forgives one sweep after a jump, otherwise removes  *)
(* every silent session whose transport does not answer as open.           *)
PruneStaleSessions ==
    /\ sincePrune' = 0
    /\ RemoveSessions(IF WallClockJumped THEN {} ELSE Stale)
    /\ UNCHANGED <<silence, shutdownError, open>>

-----------------------------------------------------------------------------
(***************************************************************************)
(* Commands.                                                               *)
(***************************************************************************)

(* dispatchCommand to session s: admit, queue and advance.                 *)
DispatchCommand(s, bytes) ==
    LET r == nextRequest
        queue == Append(commandQueues[s], r)
        socketOf == [pendingSocket EXCEPT ![r] = sessions[s]]
    IN  /\ AcceptsWork
        /\ r \in Request
        /\ sessions[s] # NoSocket
        /\ Len(commandQueues[s]) < maxCommandsPerSession
        /\ 1 <= maxCommandsTotal - commandUsed
        /\ bytes <= maxQueuedCommandBytes - queuedUsed
        /\ nextRequest' = r + 1
        /\ pendingSession' = [pendingSession EXCEPT ![r] = s]
        /\ pendingSocket' = socketOf
        /\ pendingBytes' = [pendingBytes EXCEPT ![r] = bytes]
        /\ \E refused \in 0..Len(queue) :
             LET done == Refused(queue, refused)
             IN  /\ MayRefuse(s, queue, socketOf, refused)
                 /\ pendingCommands' = (pendingCommands \cup {r}) \ done
                 /\ commandUsed' = commandUsed + 1 - Cardinality(done)
                 /\ queuedUsed' = queuedUsed + bytes
                                    - Reserved([pendingBytes EXCEPT ![r] = bytes], done)
                 /\ outcome' = [x \in Request |-> IF x \in done THEN "rejected"
                                                  ELSE IF x = r THEN "pending"
                                                  ELSE outcome[x]]
                 /\ commandQueues' = [commandQueues EXCEPT ![s] = AfterRefusals(queue, refused)]
                 /\ active' = (active \ done) \cup Head1(queue, refused)
                 /\ sent' = Written(s, queue, refused)
        /\ UNCHANGED <<ownerVars, sizeVars, silence, sincePrune, shutdownError, open, answeredBy>>

(* The timer dispatchCommand armed for r fires.                            *)
CommandTimeout(r) ==
    /\ r \in pendingCommands
    /\ FinishPending(r, "timedOut")
    /\ UNCHANGED <<ownerVars, sizeVars, silence, sincePrune, shutdownError, open, answeredBy>>

(* Mutant: a result is taken from whichever socket it comes.               *)
HandleCommandResult_AnySocket(k, r, ok) ==
    /\ r \in pendingCommands
    /\ FinishPending(r, IF ok THEN "resolved" ELSE "failed")
    /\ answeredBy' = [answeredBy EXCEPT ![r] = k]
    /\ UNCHANGED <<ownerVars, sizeVars, silence, sincePrune, shutdownError, open>>

(* handleCommandResult from socket k.  A result for a settled request      *)
(* (not-found), from another socket (not-owner) or with a payload the      *)
(* adapter rejects (invalid) changes nothing.                              *)
HandleCommandResult(k, r, ok) ==
    /\ r \in pendingCommands
    /\ pendingSocket[r] = k
    /\ FinishPending(r, IF ok THEN "resolved" ELSE "failed")
    /\ answeredBy' = [answeredBy EXCEPT ![r] = k]
    /\ UNCHANGED <<ownerVars, sizeVars, silence, sincePrune, shutdownError, open>>

(* shutdown(): reject everything pending, forget and release everything.   *)
Shutdown ==
    /\ ~shutdownError
    /\ shutdownError' = TRUE
    /\ Settle(pendingCommands, "rejected")
    /\ commandQueues' = [s \in Sid |-> <<>>]
    /\ sessionIdsBySocket' = [k \in Socket |-> NoSession]
    /\ sessions' = [s \in Sid |-> NoSocket]
    /\ retainedUsed' = retainedUsed - Reserved(retainedReservations, Sid)
    /\ sessionUsed' = sessionUsed - Cardinality(sessionReservations)
    /\ retainedReservations' = [s \in Sid |-> 0]
    /\ sessionReservations' = {}
    /\ UNCHANGED <<pendingSession, pendingSocket, pendingBytes, nextRequest, sent, answeredBy,
                   silence, sincePrune, open>>

-----------------------------------------------------------------------------
(***************************************************************************)
(* The environment: transports die and are replaced, time passes.          *)
(***************************************************************************)

(* The transport dies; its close event (UnregisterSocket) comes later.     *)
TransportDies(k) ==
    /\ open[k]
    /\ open' = [open EXCEPT ![k] = FALSE]
    /\ UNCHANGED <<ownerVars, sizeVars, commandVars, silence, sincePrune, shutdownError>>

(* A new connection takes the place of a dead one nothing refers to.       *)
TransportOpens(k) ==
    /\ ~open[k]
    /\ sessionIdsBySocket[k] = NoSession
    /\ open' = [open EXCEPT ![k] = TRUE]
    /\ sent' = [sent EXCEPT ![k] = <<>>]
    /\ UNCHANGED <<ownerVars, sizeVars, pendingCommands, pendingSession, pendingSocket,
                   pendingBytes, active, commandQueues, commandUsed, queuedUsed,
                   nextRequest, outcome, answeredBy, silence, sincePrune, shutdownError>>

ClockAdvances(d) ==
    /\ silence' = [s \in Sid |-> Saturate(silence[s] + d, ttl)]
    /\ sincePrune' = IF sincePrune = -1 THEN -1 ELSE Saturate(sincePrune + d, ttl + 1)
    /\ UNCHANGED <<ownerVars, sizeVars, commandVars, shutdownError, open>>

(* The requests a producer can name: request ids are random UUIDs, so one  *)
(* is known to nobody before it was written to some socket.                *)
Disclosed == UNION {{sent[k][i] : i \in 1..Len(sent[k])} : k \in Socket}

(* What a connected producer may send.  Its results may be for a command   *)
(* of any other producer.                                                  *)
ProducerSends(k) ==
    /\ open[k]
    /\ \/ \E s \in Sid, b \in RetainedSizes, replace \in BOOLEAN :
             RegisterSession(k, s, b, replace)
       \/ \E b \in RetainedSizes : UpdateSnapshot(k, b)
       \/ MarkSessionSeen(k)
       \/ \E r \in Disclosed, ok \in BOOLEAN : HandleCommandResult(k, r, ok)

Next ==
    \/ \E k \in Socket : ProducerSends(k)
    \/ \E k \in Socket : UnregisterSocket(k)
    \/ PruneStaleSessions
    \/ \E s \in Sid, b \in CommandSizes : DispatchCommand(s, b)
    \/ \E r \in Request : CommandTimeout(r)
    \/ Shutdown
    \/ \E k \in Socket : TransportDies(k)
    \/ \E k \in Socket : TransportOpens(k)
    \/ \E d \in ClockSteps : ClockAdvances(d)

Spec == Init /\ [][Next]_vars

(***************************************************************************)
(* Fairness.  Timers fire and time passes; the sweep interval keeps        *)
(* firing, and the host is not suspended for more than a TTL before every  *)
(* single sweep.  Nothing is assumed of producers, callers or of the       *)
(* delivery of close events.                                               *)
(***************************************************************************)
FairSpec ==
    /\ Spec
    /\ \A r \in Request : WF_vars(CommandTimeout(r))
    /\ \A d \in ClockSteps : WF_vars(ClockAdvances(d))
    /\ WF_vars(PruneStaleSessions)
    /\ SF_vars(PruneStaleSessions /\ ~WallClockJumped)

-----------------------------------------------------------------------------
(***************************************************************************)
(* Properties.                                                             *)
(***************************************************************************)

(* The type invariant. *)
TypeOK ==
    /\ sessions \in [Sid -> Socket \cup {NoSocket}]
    /\ silence \in [Sid -> 0..ttl]
    /\ sessionIdsBySocket \in [Socket -> Sid \cup {NoSession}]
    /\ retainedReservations \in [Sid -> Nat]
    /\ sessionReservations \subseteq Sid
    /\ pendingCommands \subseteq Request
    /\ pendingSession \in [Request -> Sid \cup {NoSession}]
    /\ pendingSocket \in [Request -> Socket \cup {NoSocket}]
    /\ pendingBytes \in [Request -> Nat]
    /\ active \subseteq Request
    /\ commandQueues \in [Sid -> Seq(Request)]
    /\ sessionUsed \in Int /\ retainedUsed \in Int
    /\ commandUsed \in Int /\ queuedUsed \in Int
    /\ sincePrune \in -1..(ttl + 1)
    /\ shutdownError \in BOOLEAN
    /\ nextRequest \in Nat \ {0}
    /\ outcome \in [Request -> Settled \cup {"none", "pending"}]
    /\ sent \in [Socket -> Seq(Request)]
    /\ answeredBy \in [Request -> Socket \cup {NoSocket}]
    /\ open \in [Socket -> BOOLEAN]

(* Takeovers, renames, disconnects, sweeps and shutdown keep the two owner *)
(* maps inverse to each other: no session has two sockets, no socket two   *)
(* sessions, and neither map remembers what the other forgot.              *)
OwnersAgree ==
    /\ \A s \in Sid : sessions[s] # NoSocket => sessionIdsBySocket[sessions[s]] = s
    /\ \A k \in Socket : sessionIdsBySocket[k] # NoSession => sessions[sessionIdsBySocket[k]] = k

(* Every budget charges exactly the live sessions and pending commands: no *)
(* path leaks a reservation or releases one twice, so capacity is never    *)
(* lost and never exceeded.                                                *)
BudgetsExact ==
    /\ sessionReservations = Live
    /\ \A s \in Sid : retainedReservations[s] # 0 <=> s \in Live
    /\ sessionUsed = Cardinality(Live) /\ sessionUsed <= maxSessions
    /\ retainedUsed = Reserved(retainedReservations, Sid) /\ retainedUsed <= maxRetainedBytes
    /\ commandUsed = Cardinality(pendingCommands) /\ commandUsed <= maxCommandsTotal
    /\ queuedUsed = Reserved(pendingBytes, pendingCommands)
    /\ queuedUsed <= maxQueuedCommandBytes

(* A pending command is queued once, in the queue of its session, and its  *)
(* session still belongs to the socket captured at admission; a non-empty  *)
(* queue has exactly its head written to that socket, so no queue stalls   *)
(* and no session is handed two commands at once.                          *)
QueuesSound ==
    /\ \A s \in Sid : \A i, j \in 1..Len(commandQueues[s]) :
          i < j => commandQueues[s][i] < commandQueues[s][j]
    /\ \A s \in Sid : \A i \in 1..Len(commandQueues[s]) :
          LET r == commandQueues[s][i]
          IN  r \in pendingCommands /\ pendingSession[r] = s /\ (r \in active <=> i = 1)
    /\ \A r \in pendingCommands :
          /\ pendingSession[r] \in Live
          /\ pendingSocket[r] = sessions[pendingSession[r]]
          /\ \E i \in 1..Len(commandQueues[pendingSession[r]]) :
                commandQueues[pendingSession[r]][i] = r
    /\ active \subseteq pendingCommands

(* A socket receives commands in the order callers had them admitted, each *)
(* at most once, whatever timeouts and takeovers happen in between.        *)
SentInOrder ==
    \A k \in Socket : \A i, j \in 1..Len(sent[k]) : i < j => sent[k][i] < sent[k][j]

(* A caller's promise settles once: a late answer, a second timer or a     *)
(* disconnect never changes an outcome, and only a pending command gets one.*)
SettledOnce ==
    [][\A r \in Request :
          /\ outcome[r] \in Settled => outcome'[r] = outcome[r]
          /\ outcome'[r] \in Settled /\ outcome[r] \notin Settled
               => r \in pendingCommands \/ r = nextRequest]_vars

(* Only the transport that owns a command's session settles the command    *)
(* with a result: neither another producer nor the transport that a        *)
(* takeover displaced can answer for it, and nobody before it was written. *)
ResolvedByOwner ==
    [][\A r \in Request :
          outcome'[r] \in {"resolved", "failed"} /\ outcome[r] \notin {"resolved", "failed"}
            => r \in active /\ answeredBy'[r] = sessions[pendingSession[r]]]_vars

(* The broker core implements the service its callers and producers rely   *)
(* on: one answer each, in turn, whatever the maps, queues, budgets and    *)
(* timers behind it go through.                                            *)
Service == INSTANCE CommandService WITH
    owner <- sessions, queue <- commandQueues, answer <- outcome
ImplementsService == Service!ServiceSpec

(* A session that showed life after the previous sweep survives the next   *)
(* one, however long the host was suspended in between.                    *)
SweepSparesTheSeen ==
    [][sincePrune' = 0 /\ sincePrune > 0 =>
          \A s \in Live : silence[s] < sincePrune => sessions'[s] = sessions[s]]_vars

(* Every admitted command settles, even when the producer never answers.   *)
CommandsSettle ==
    \A r \in Request : outcome[r] = "pending" ~> outcome[r] \in Settled

(* A session whose transport died without a close event is still removed,  *)
(* and what it reserved comes back.                                        *)
DeadSessionsRemoved ==
    \A s \in Sid, k \in Socket : (sessions[s] = k /\ ~open[k]) ~> sessions[s] # k

(* Shutdown is final: nothing registers, is admitted or stays reserved.    *)
NothingAfterShutdown ==
    shutdownError =>
      /\ Live = {} /\ pendingCommands = {}
      /\ sessionUsed = 0 /\ retainedUsed = 0 /\ commandUsed = 0 /\ queuedUsed = 0
=============================================================================

----------------------------- MODULE BrokerDaemon -----------------------------
(***************************************************************************)
(* The session broker daemon: the class SessionBrokerDaemon of             *)
(* packages/session-broker/src/daemon.ts, composed with the broker state   *)
(* it owns (BrokerState).                                                  *)
(*                                                                         *)
(* A connection authenticates with a hello of two asynchronous steps (a    *)
(* challenge is issued, a proof is verified) before a message of it may    *)
(* reach the broker state; other messages, close events, sweeps and        *)
(* shutdown run between the steps.  A connection that registers owns its   *)
(* session until it closes, is displaced by a reconnect of the same        *)
(* producer, goes stale, or loses its grant.  A daemon with nothing to do  *)
(* stops itself.                                                           *)
(*                                                                         *)
(* The broker peer created when a proof is accepted is identified with its *)
(* connection: a proof is accepted at most once per connection, because    *)
(* retiring one always closes it.  A producer's parsed messages are the    *)
(* parameters of the actions; everything the daemon answers with close()   *)
(* alone is MessageRefused.                                                *)
(***************************************************************************)
EXTENDS BrokerState, Filtering, SequencesExt

CONSTANTS
    Principal,        \* producer identities (grant, key, app)
    Revocable,        \* the principals whose grant may expire or be revoked
    idleTimeout,      \* idleTimeoutMs, in ticks
    MaxHellos         \* bound: hello steps awaited at once on one connection

ASSUME DaemonAssumption ==
    /\ Revocable \subseteq Principal
    /\ idleTimeout \in Nat \ {0}
    /\ MaxHellos \in Nat \ {0}

VARIABLES
    attached,            \* connections whose close event has not been handled
    closing,             \* attached connections the daemon called close() on
    principal,           \* [Socket -> the principal a hello on it proves]
    auth,                \* [Socket -> producerAuthentication state]
    boundSession,        \* [Socket -> producerAuthentication.sessionId]
    awaited,             \* [Socket -> [1..MaxHellos -> the hello step awaited]]
    producerOwners,      \* [Sid -> connection of its ProducerOwner, or NoSocket]
    producerReconnects,  \* remembered bindings, in Map insertion order
    granted,             \* principals whose assertActive() succeeds
    idleTimer,           \* TRUE while the idle timer is armed
    idleFor,             \* ticks since lastActivityAt, saturated
    shuttingDown

helloVars  == <<auth, boundSession, awaited>>
linkVars   == <<attached, closing, principal>>
bindVars   == <<producerOwners, producerReconnects>>
idleVars   == <<idleTimer, idleFor>>
daemonVars == <<helloVars, linkVars, bindVars, idleVars, granted, shuttingDown>>
allVars    == <<vars, daemonVars>>

(* "offered" is the code's "challenged" once the challenge was sent.       *)
AuthStates == {"none", "challenged", "offered", "authenticated"}

(* A step is outdated when its connection's authentication state was       *)
(* replaced or deleted since the step began.                               *)
Steps == {"none", "issue", "proof", "outdated"}

DaemonInit ==
    /\ Init
    /\ attached = Socket
    /\ closing = {}
    /\ principal \in [Socket -> Principal]
    /\ auth = [k \in Socket |-> "none"]
    /\ boundSession = [k \in Socket |-> NoSession]
    /\ awaited = [k \in Socket |-> [i \in 1..MaxHellos |-> "none"]]
    /\ producerOwners = [s \in Sid |-> NoSocket]
    /\ producerReconnects = <<>>
    /\ granted = Principal
    /\ idleTimer = TRUE
    /\ idleFor = 0
    /\ shuttingDown = FALSE

-----------------------------------------------------------------------------
(***************************************************************************)
(* Idle bookkeeping, in terms of the broker state the step leaves.         *)
(***************************************************************************)

(* Mutant: a timer armed before work arrived is left running.              *)
NoteActivity_KeepsTimer ==
    /\ idleFor' = 0
    /\ idleTimer' = (idleTimer \/ (~shuttingDown' /\ Live' = {} /\ pendingCommands' = {}))

(* Mutant: the timer is cleared and not armed again.                       *)
NoteActivity_NeverArms ==
    /\ idleFor' = 0
    /\ idleTimer' = FALSE

(* noteActivity: restart the idle clock and re-arm the timer if quiescent. *)
NoteActivity ==
    /\ idleFor' = 0
    /\ idleTimer' = (~shuttingDown' /\ Live' = {} /\ pendingCommands' = {})

-----------------------------------------------------------------------------
(***************************************************************************)
(* The producer hello.                                                     *)
(***************************************************************************)

(* The steps awaited on k once its authentication state was replaced.      *)
Outdated(k) ==
    [i \in 1..MaxHellos |-> IF awaited[k][i] = "none" THEN "none" ELSE "outdated"]

(* Delete k's authentication state and close it.                           *)
Reject(k, steps) ==
    /\ auth' = [auth EXCEPT ![k] = "none"]
    /\ boundSession' = [boundSession EXCEPT ![k] = NoSession]
    /\ awaited' = [awaited EXCEPT ![k] = steps]
    /\ closing' = closing \cup ({k} \cap attached)

(* A message arrives on k, which waits for step i to be free.              *)
Receives(k, i) ==
    /\ ~shuttingDown
    /\ k \in attached
    /\ auth[k] # "authenticated"
    /\ awaited[k][i] = "none"

(* hello-init: issueChallenge is awaited. *)
HelloInit(k, i) ==
    /\ Receives(k, i)
    /\ auth[k] = "none"
    /\ auth' = [auth EXCEPT ![k] = "challenged"]
    /\ awaited' = [awaited EXCEPT ![k][i] = "issue"]
    /\ UNCHANGED <<vars, boundSession, linkVars, bindVars, idleVars, granted, shuttingDown>>

(* hello-proof: completeProducerHello is awaited. *)
HelloProof(k, i) ==
    /\ Receives(k, i)
    /\ auth[k] \in {"challenged", "offered"}
    /\ awaited' = [awaited EXCEPT ![k][i] = "proof"]
    /\ UNCHANGED <<vars, auth, boundSession, linkVars, bindVars, idleVars, granted, shuttingDown>>

(* The awaited step i of k completes. *)
Resumed(k, i) == [awaited[k] EXCEPT ![i] = "none"]

(* The challenge is issued and, unless the state moved on, sent; a closing *)
(* connection no longer delivers it.                                       *)
ChallengeIssued(k, i) ==
    /\ awaited[k][i] = "issue"
    /\ awaited' = [awaited EXCEPT ![k] = Resumed(k, i)]
    /\ auth' = [auth EXCEPT ![k] = IF shuttingDown \/ k \in closing THEN @ ELSE "offered"]
    /\ UNCHANGED <<vars, boundSession, linkVars, bindVars, idleVars, granted, shuttingDown>>

(* Mutant: the state is not compared after the await.                      *)
StillCurrent_Unchecked(k, i) == awaited[k][i] \in {"proof", "outdated"}

(* The proof being verified answers the challenge k was offered, and the   *)
(* state the await began with is the one k still has.                      *)
StillCurrent(k, i) == awaited[k][i] = "proof" /\ auth[k] = "offered"

(* The proof of an offered challenge verifies, and the grant is active.    *)
(* The acknowledgement may be sent to a connection that was closed         *)
(* meanwhile; where that send throws, the step is a HelloFailed.           *)
ProofAccepted(k, i) ==
    /\ ~shuttingDown
    /\ StillCurrent(k, i)
    /\ principal[k] \in granted
    /\ auth' = [auth EXCEPT ![k] = "authenticated"]
    /\ boundSession' = [boundSession EXCEPT ![k] = NoSession]
    /\ awaited' = [awaited EXCEPT ![k] = [Outdated(k) EXCEPT ![i] = "none"]]
    /\ UNCHANGED <<vars, linkVars, bindVars, idleVars, granted, shuttingDown>>

(* An outdated step, or any step after shutdown, completes to no effect.   *)
HelloIgnored(k, i) ==
    /\ awaited[k][i] # "none"
    /\ awaited[k][i] = "outdated" \/ shuttingDown
    /\ awaited' = [awaited EXCEPT ![k] = Resumed(k, i)]
    /\ UNCHANGED <<vars, auth, boundSession, linkVars, bindVars, idleVars, granted, shuttingDown>>

(* An awaited step throws: a bad hello, a used or expired challenge, a     *)
(* wrong signature or an inactive grant.                                   *)
HelloFailed(k, i) ==
    /\ awaited[k][i] # "none"
    /\ Reject(k, [Outdated(k) EXCEPT ![i] = "none"])
    /\ UNCHANGED <<vars, attached, principal, bindVars, idleVars, granted, shuttingDown>>

(* A message that is not the hello step the connection is due.             *)
HelloMalformed(k) ==
    /\ ~shuttingDown
    /\ k \in attached
    /\ auth[k] # "authenticated"
    /\ Reject(k, Outdated(k))
    /\ UNCHANGED <<vars, attached, principal, bindVars, idleVars, granted, shuttingDown>>

-----------------------------------------------------------------------------
(***************************************************************************)
(* Reconnect bindings.                                                     *)
(***************************************************************************)

(* The producer that last held an unowned session, and how long ago.       *)
Binding == [session : Sid, principal : Principal, age : 0..ttl]

(* pruneProducerReconnects: bindings expire with the stale TTL.            *)
PrunedReconnects == Filtered(producerReconnects, {e \in Binding : e.age < ttl})

(* The sessions that have a binding in q, and the principal of each.       *)
Remembered(q) == {q[i].session : i \in 1..Len(q)}
BindingOf(q, s) == q[CHOOSE i \in 1..Len(q) : q[i].session = s].principal

(* rememberProducerReconnect, once pruned, for the owners of the sessions  *)
(* in order: what exceeds maxSessions pushes the oldest bindings out.      *)
Remember(order) ==
    LET all == PrunedReconnects \o
                 [i \in 1..Len(order) |-> [session |-> order[i], age |-> 0,
                                          principal |-> principal[producerOwners[order[i]]]]]
    IN  IF Len(all) > maxSessions THEN SubSeq(all, Len(all) - maxSessions + 1, Len(all)) ELSE all

(* The bindings q without the one of s. *)
Without(q, s) == Filtered(q, {e \in Binding : e.session # s})

-----------------------------------------------------------------------------
(***************************************************************************)
(* Messages of authenticated producers.                                    *)
(***************************************************************************)

(* A message of k reaches handleAuthenticatedConnectionMessage.            *)
Authenticated(k) ==
    /\ ~shuttingDown
    /\ k \in attached
    /\ auth[k] = "authenticated"
    /\ principal[k] \in granted

(* The connection a registration of s by k displaces, at most one.         *)
Replaced(k, s) == {producerOwners[s]} \ {k, NoSocket}

(* Mutant: the displaced transport is matched against no binding.          *)
BindingMatches_NewOnly(k, s) ==
    s \in Remembered(PrunedReconnects) => BindingOf(PrunedReconnects, s) = principal[k]

(* The owner k would displace, or the binding remembered for s, has k's    *)
(* principal.                                                              *)
BindingMatches(k, s) ==
    IF Replaced(k, s) # {} THEN \A x \in Replaced(k, s) : principal[x] = principal[k]
    ELSE s \in Remembered(PrunedReconnects) => BindingOf(PrunedReconnects, s) = principal[k]

(* k is bound to s; the displaced transport is unauthenticated again.      *)
Retire(k, s) ==
    /\ auth' = [x \in Socket |-> IF x \in Replaced(k, s) THEN "none" ELSE auth[x]]
    /\ boundSession' = [x \in Socket |-> IF x = k THEN s
                                         ELSE IF x \in Replaced(k, s) THEN NoSession
                                         ELSE boundSession[x]]
    /\ awaited' = [x \in Socket |-> IF x \in Replaced(k, s) THEN Outdated(x) ELSE awaited[x]]

(* register: k registers session s. *)
Register(k, s, bytes) ==
    /\ Authenticated(k)
    /\ boundSession[k] \in {NoSession, s}
    /\ BindingMatches(k, s)
    /\ RegisterSession(k, s, bytes, Replaced(k, s) # {})
    /\ Retire(k, s)
    /\ producerOwners' = [producerOwners EXCEPT ![s] = k]
    /\ producerReconnects' = Without(PrunedReconnects, s)
    /\ closing' = closing \cup (Replaced(k, s) \cap attached)
    /\ UNCHANGED <<attached, principal, granted, shuttingDown>>
    /\ NoteActivity

(* snapshot, heartbeat and command-result of the owner of a session.       *)
Snapshot(k, bytes) ==
    /\ Authenticated(k)
    /\ boundSession[k] # NoSession /\ boundSession[k] = sessionIdsBySocket[k]
    /\ UpdateSnapshot(k, bytes)
    /\ UNCHANGED <<helloVars, linkVars, bindVars, granted, shuttingDown>>
    /\ NoteActivity

Heartbeat(k) ==
    /\ Authenticated(k)
    /\ boundSession[k] # NoSession /\ boundSession[k] = sessionIdsBySocket[k]
    /\ MarkSessionSeen(k)
    /\ UNCHANGED <<helloVars, linkVars, bindVars, granted, shuttingDown>>
    /\ NoteActivity

(* The sessions whose queue, a command of it having settled or arrived, is *)
(* offered to an owner without a grant: the broker peer's send closes the  *)
(* connection and throws.                                                  *)
Barred(s, queue) ==
    queue # <<>> /\ queue[1] \notin active /\ principal[sessions[s]] \notin granted

(* Nothing is written for such an owner.                                   *)
SendsGranted(s, queue) ==
    /\ Barred(s, queue) => sent' = sent
    /\ closing' = IF Barred(s, queue) THEN closing \cup ({sessions[s]} \cap attached) ELSE closing

CommandResult(k, r, ok) ==
    /\ Authenticated(k)
    /\ HandleCommandResult(k, r, ok)
    /\ UNCHANGED <<helloVars, linkVars, bindVars, granted, shuttingDown>>
    /\ NoteActivity

(* Every message the daemon answers by closing the connection alone:       *)
(* shutting down, or oversized, whatever the state of its hello; and, once *)
(* authenticated, an expired grant, malformed, out of scope, not the owner,*)
(* or refused by the broker state.  A register has pruned the bindings by  *)
(* then.                                                                   *)
MessageRefused(k) ==
    /\ k \in attached
    /\ closing' = closing \cup {k}
    /\ \/ producerReconnects' = producerReconnects
       \/ /\ ~shuttingDown /\ auth[k] = "authenticated"
          /\ producerReconnects' = PrunedReconnects
    /\ UNCHANGED <<vars, helloVars, attached, principal, producerOwners, idleVars, granted,
                   shuttingDown>>

-----------------------------------------------------------------------------
(***************************************************************************)
(* Closes, sweeps and shutdown.                                            *)
(***************************************************************************)

(* The sessions the broker state holds for the peer of connection k.       *)
HeldBy(k) == {sessionIdsBySocket[k]} \ {NoSession}

(* handleConnectionClose: the close event of connection k.                 *)
HandleConnectionClose(k) ==
    LET s == boundSession[k]
        owner == auth[k] = "authenticated" /\ s # NoSession /\ producerOwners[s] = k
    IN  /\ k \in attached
        /\ attached' = attached \ {k}
        /\ closing' = closing \ {k}
        /\ open' = [open EXCEPT ![k] = FALSE]
        /\ auth' = [auth EXCEPT ![k] = "none"]
        /\ boundSession' = [boundSession EXCEPT ![k] = NoSession]
        /\ awaited' = [awaited EXCEPT ![k] = Outdated(k)]
        /\ producerOwners' = IF owner THEN [producerOwners EXCEPT ![s] = NoSocket]
                             ELSE producerOwners
        /\ producerReconnects' = IF owner /\ principal[k] \in granted
                                 THEN Remember(<<s>>)
                                 ELSE producerReconnects
        /\ RemoveSessions(IF auth[k] = "authenticated" THEN HeldBy(k) ELSE {})
        /\ UNCHANGED <<silence, sincePrune, shutdownError, principal, granted, shuttingDown>>
        /\ IF s # NoSession THEN NoteActivity ELSE UNCHANGED idleVars

(* What one pruning removes from the broker state. *)
Pruned == IF WallClockJumped THEN {} ELSE Stale

(* Mutant: the sweep does not look at the grants of the owners.            *)
Authority_Ignored(k) == TRUE

(* The authority check of reconcileProducerOwners. *)
Authority(k) == auth[k] = "authenticated" /\ principal[k] \in granted

(* Owners whose session the pruning removed or whose authority is gone.    *)
Retired ==
    {s \in Sid : /\ producerOwners[s] # NoSocket
                 /\ s \in Pruned \/ s \notin Live \/ ~Authority(producerOwners[s])}

(* One maintenance pulse: pruneStaleSessions, then noteActivity if it      *)
(* removed a session, then reconcileProducerOwners.                        *)
Maintain ==
    LET connections == {producerOwners[s] : s \in Retired}
        kept == {s \in Retired : (s \in Pruned \/ s \notin Live) /\ Authority(producerOwners[s])}
    IN  /\ sincePrune' = 0
        /\ RemoveSessions(Pruned \cup UNION {HeldBy(k) : k \in connections})
        /\ IF Pruned = {} THEN UNCHANGED idleVars
           ELSE /\ idleFor' = 0
                /\ idleTimer' = (~shuttingDown /\ Live = Pruned)
        /\ producerOwners' = [s \in Sid |-> IF s \in Retired THEN NoSocket ELSE producerOwners[s]]
        /\ auth' = [k \in Socket |-> IF k \in connections THEN "none" ELSE auth[k]]
        /\ boundSession' = [k \in Socket |-> IF k \in connections THEN NoSession
                                             ELSE boundSession[k]]
        /\ awaited' = [k \in Socket |-> IF k \in connections THEN Outdated(k) ELSE awaited[k]]
        /\ closing' = closing \cup (connections \cap attached)
        /\ \E order \in SetToSeqs(kept) :
             producerReconnects' = IF kept = {} THEN producerReconnects ELSE Remember(order)
        /\ UNCHANGED <<silence, shutdownError, open, attached, principal, granted, shuttingDown>>

(* The sweep interval fires; a /health request does the same at any time.  *)
Sweep == ~shuttingDown /\ Maintain
Health == Maintain

(* shutdown(): stop the timers, tear the broker state down.                *)
ShutdownDaemon ==
    /\ ~shuttingDown
    /\ shuttingDown' = TRUE
    /\ idleTimer' = FALSE
    /\ Shutdown
    /\ producerOwners' = [s \in Sid |-> NoSocket]
    /\ producerReconnects' = <<>>
    /\ UNCHANGED <<helloVars, attached, principal, granted, idleFor>>

(* The idle timer fires. *)
IdleTimerFires ==
    /\ idleTimer
    /\ Live = {} /\ pendingCommands = {}
    /\ idleFor >= idleTimeout
    /\ ShutdownDaemon
    /\ UNCHANGED closing

(* shutdown() by the host process, or by an authenticated admin stop,      *)
(* which closes the producers first.                                       *)
StopRequested ==
    /\ ShutdownDaemon
    /\ closing' \in {closing, closing \cup ({producerOwners[s] : s \in Sid} \cap attached)}

-----------------------------------------------------------------------------
(***************************************************************************)
(* Callers and the environment.                                            *)
(***************************************************************************)

(* A control request arrives (handleApiRequest counts it as activity).     *)
ApiRequest ==
    /\ UNCHANGED <<vars, helloVars, linkVars, bindVars, granted, shuttingDown>>
    /\ NoteActivity

(* An authorized dispatch, which is admitted some awaits after it arrived. *)
ApiDispatch(s, bytes) ==
    /\ DispatchCommand(s, bytes)
    /\ SendsGranted(s, Append(commandQueues[s], nextRequest))
    /\ UNCHANGED <<helloVars, attached, principal, bindVars, idleVars, granted, shuttingDown>>

TimerFires(r) ==
    /\ CommandTimeout(r)
    /\ SendsGranted(pendingSession[r], Splice(commandQueues[pendingSession[r]], r))
    /\ UNCHANGED <<helloVars, attached, principal, bindVars, idleVars, granted, shuttingDown>>

(* A grant expires or is revoked. *)
GrantEnds(p) ==
    /\ p \in granted
    /\ granted' = granted \ {p}
    /\ UNCHANGED <<vars, helloVars, linkVars, bindVars, idleVars, shuttingDown>>

Dies(k) ==
    /\ k \in attached
    /\ TransportDies(k)
    /\ UNCHANGED daemonVars

(* A producer connects on a fresh connection. *)
Connects(k, p) ==
    /\ k \notin attached
    /\ \A i \in 1..MaxHellos : awaited[k][i] = "none"
    /\ \A s \in Sid : producerOwners[s] # k
    /\ TransportOpens(k)
    /\ attached' = attached \cup {k}
    /\ principal' = [principal EXCEPT ![k] = p]
    /\ UNCHANGED <<helloVars, closing, bindVars, idleVars, granted, shuttingDown>>

Tick(d) ==
    /\ ClockAdvances(d)
    /\ idleFor' = Saturate(idleFor + d, idleTimeout)
    /\ producerReconnects' = [i \in 1..Len(producerReconnects) |->
                                [producerReconnects[i] EXCEPT !.age = Saturate(@ + d, ttl)]]
    /\ UNCHANGED <<helloVars, linkVars, producerOwners, idleTimer, granted, shuttingDown>>

DaemonNext ==
    \/ \E k \in Socket, i \in 1..MaxHellos :
          \/ HelloInit(k, i) \/ HelloProof(k, i) \/ ChallengeIssued(k, i)
          \/ ProofAccepted(k, i) \/ HelloIgnored(k, i) \/ HelloFailed(k, i)
    \/ \E k \in Socket :
          \/ HelloMalformed(k) \/ MessageRefused(k) \/ Heartbeat(k)
          \/ HandleConnectionClose(k) \/ Dies(k)
    \/ \E k \in Socket, s \in Sid, b \in RetainedSizes : Register(k, s, b)
    \/ \E k \in Socket, b \in RetainedSizes : Snapshot(k, b)
    \/ \E k \in Socket, r \in Disclosed, ok \in BOOLEAN : CommandResult(k, r, ok)
    \/ Sweep
    \/ Health
    \/ IdleTimerFires
    \/ StopRequested
    \/ ApiRequest
    \/ \E s \in Sid, b \in CommandSizes : ApiDispatch(s, b)
    \/ \E r \in Request : TimerFires(r)
    \/ \E p \in Revocable : GrantEnds(p)
    \/ \E k \in Socket, p \in Principal : Connects(k, p)
    \/ \E d \in ClockSteps : Tick(d)

DaemonSpec == DaemonInit /\ [][DaemonNext]_allVars

(***************************************************************************)
(* Fairness.  Time passes, intervals and timers fire, and the runtime      *)
(* delivers the close event of a connection the daemon closed.             *)
(***************************************************************************)
DaemonFairSpec ==
    /\ DaemonSpec
    /\ \A d \in ClockSteps : WF_allVars(Tick(d))
    /\ WF_allVars(Sweep)
    /\ WF_allVars(IdleTimerFires)
    /\ \A k \in Socket : WF_allVars(k \in closing /\ HandleConnectionClose(k))

-----------------------------------------------------------------------------
(***************************************************************************)
(* Properties.                                                             *)
(***************************************************************************)

(* The type invariant of the daemon's own state. *)
DaemonTypeOK ==
    /\ attached \subseteq Socket
    /\ closing \subseteq attached
    /\ principal \in [Socket -> Principal]
    /\ auth \in [Socket -> AuthStates]
    /\ boundSession \in [Socket -> Sid \cup {NoSession}]
    /\ awaited \in [Socket -> [1..MaxHellos -> Steps]]
    /\ producerOwners \in [Sid -> Socket \cup {NoSocket}]
    /\ producerReconnects \in Seq(Binding)
    /\ granted \subseteq Principal
    /\ idleTimer \in BOOLEAN
    /\ idleFor \in 0..idleTimeout
    /\ shuttingDown \in BOOLEAN

(* The daemon's owner map and the broker state's never disagree: whatever  *)
(* hello steps, displacements, closes, sweeps and shutdown interleave, the *)
(* daemon knows the owner of every live session and of no other.           *)
OwnersTracked == producerOwners = sessions

(* Until shutdown, a transport that was displaced, swept or revoked is     *)
(* unauthenticated: only the owner of a session is still bound to it.      *)
BoundIsOwner ==
    \A k \in Socket : boundSession[k] # NoSession /\ ~shuttingDown =>
        auth[k] = "authenticated" /\ producerOwners[boundSession[k]] = k

(* A session changes hands only between transports of one producer.        *)
TransferByBinding ==
    [][\A s \in Sid :
          sessions[s] # NoSocket /\ sessions'[s] \notin {NoSocket, sessions[s]}
            => principal'[sessions'[s]] = principal[sessions[s]]]_allVars

(* The remembered bindings are bounded, at most one per session, and only  *)
(* for sessions nobody owns.                                               *)
ReconnectsSound ==
    /\ Len(producerReconnects) <= maxSessions
    /\ \A i, j \in 1..Len(producerReconnects) :
          producerReconnects[i].session = producerReconnects[j].session => i = j
    /\ \A s \in Remembered(producerReconnects) : producerOwners[s] = NoSocket

(* The daemon's maps agree with the broker state and with each other,      *)
(* whatever hello steps, closes, displacements and sweeps interleave.      *)
DaemonSound == DaemonTypeOK /\ OwnersTracked /\ BoundIsOwner /\ ReconnectsSound

(* The idle timer runs only while there is nothing to wait for, so it      *)
(* never takes a live session or a pending command down.                   *)
IdleTimerSound ==
    idleTimer => ~shuttingDown /\ Live = {} /\ pendingCommands = {}

(* A daemon left without sessions and without control requests stops.      *)
QuiescentStops ==
    <>[](Live = {}) /\ <>[][~ApiRequest]_allVars => <>shuttingDown

(* No hello step is still awaited on a connection that was authenticated.  *)
(* A producer that sends a second proof before the first is acknowledged   *)
(* breaks this, and if that proof fails the connection's authentication is *)
(* deleted under its registered session (handleProducerHelloMessage).      *)
NoLateHello ==
    \A k \in Socket, i \in 1..MaxHellos : auth[k] = "authenticated" => awaited[k][i] = "none"

(* The same while no grant ends, see QuiescentStops for when one does, and *)
(* while no producer pipelines a proof behind the one that is accepted:    *)
(* then the session is removed by the sweep as one whose grant ended is.   *)
GrantedQuiescentStops == []NoLateHello /\ [](granted = Principal) => QuiescentStops

(* A session whose producer lost its grant is taken away from it, even if  *)
(* the producer stays silent.                                              *)
RevokedRetired ==
    \A s \in Sid, k \in Socket :
        (sessions[s] = k /\ principal[k] \notin granted) ~> sessions[s] # k
===============================================================================

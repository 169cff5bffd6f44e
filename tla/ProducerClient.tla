---------------------------- MODULE ProducerClient ----------------------------
(***************************************************************************)
(* The window's broker client: SessionBrokerClient in                      *)
(* packages/hunk/src/session/broker/brokerClient.ts.                       *)
(*                                                                         *)
(* It starts the daemon and one connection, tries again after a failure,   *)
(* and, once a daemon refused the window, waits for another daemon or      *)
(* another session instead of knocking again.  Every await may outlive     *)
(* stop(), the connection's generation or the refusal it is about.  The    *)
(* connection (BrokerConnection) is here the phases in which it calls the  *)
(* client; a close event may wait while the daemon is replaced.  A daemon  *)
(* is an identity; the launch metadata on disk names the last one.         *)
(***************************************************************************)
EXTENDS Integers, FiniteSets

CONSTANTS
    Daemon, NoDaemon, NoFingerprint,
    Fingerprint,          \* [Daemon -> the launch metadata written for it]
    Skew,                 \* [Daemon -> matched, client-newer or client-older]
    Payload,              \* the sessions the window may show
    Accepts,              \* [Daemon -> the payloads it accepts]
    Refusal, NoRefusal,   \* identities of IncumbentWait objects
    MaxFaults             \* bound on failures nobody explains

ASSUME ProducerAssumption ==
    /\ NoDaemon \notin Daemon
    /\ NoRefusal \notin Refusal
    /\ MaxFaults \in Nat
    /\ Skew \in [Daemon -> {"matched", "client-newer", "client-older"}]

VARIABLES
    startup,         \* startupState.status
    attempt,         \* what the startup attempt awaits: none, daemon or credentials
    retryHeld,       \* startupState.retry is set
    retryTimers,     \* how many startup retries are scheduled
    loaded,          \* credentials # null
    connection,      \* none, or the phase of the connection
    closing,         \* why the socket was closed, and by whom
    refusal,         \* incumbentWait
    refusals,        \* [Refusal -> what that object says]
    preparation,     \* where prepareReconnect is
    prepared,        \* the refusal it read
    healthy,         \* what it heard of the daemon's health
    probes,          \* admin probes under way
    notice,          \* connectionState
    payload,         \* registration and snapshot
    running,         \* the daemon at the port
    metadata,        \* the launch metadata on disk
    launched,        \* daemons launched so far
    faults

startupVars == <<startup, attempt, retryHeld, retryTimers, loaded>>
refusalVars == <<refusal, refusals>>
prepareVars == <<preparation, prepared, healthy>>
daemonSide == <<running, metadata, launched>>
producerVars == <<startupVars, connection, closing, refusalVars, prepareVars, probes, notice,
                  payload, daemonSide, faults>>

(* The socket was closed for this reason, by this daemon, over this payload. *)
Close(reason, by) == [reason |-> reason, by |-> by, of |-> payload]
StaysOpen == [reason |-> "none"]
IsClosed == closing # StaysOpen

ProducerInit ==
    /\ payload \in Payload
    /\ startup = "idle"
    /\ attempt = "none"
    /\ retryHeld = FALSE
    /\ retryTimers = 0
    /\ loaded = FALSE
    /\ connection = "none"
    /\ closing = StaysOpen
    /\ refusal = NoRefusal
    /\ refusals = [w \in Refusal |-> [kind |-> "payload", fingerprint |-> NoFingerprint,
                                      buildKnown |-> FALSE, by |-> NoDaemon,
                                      of |-> payload]]
    /\ preparation = "none"
    /\ prepared = NoRefusal
    /\ healthy = FALSE
    /\ probes = {}
    /\ notice = "connected"
    /\ running \in Daemon \cup {NoDaemon}
    /\ launched = IF running = NoDaemon THEN {} ELSE {running}
    /\ metadata = IF running = NoDaemon THEN NoFingerprint ELSE Fingerprint[running]
    /\ faults = 0

(* One of the failures the model bounds. *)
Fault == faults < MaxFaults /\ faults' = faults + 1

-----------------------------------------------------------------------------
(***************************************************************************)
(* Startup.                                                                *)
(***************************************************************************)

(* start(): an attempt begins; a scheduled retry stays scheduled. *)
ClientStart ==
    /\ startup \in {"idle", "waiting"}
    /\ startup' = "attempting"
    /\ attempt' = "daemon"
    /\ UNCHANGED <<retryHeld, retryTimers, loaded, connection, closing, refusalVars, prepareVars,
                   probes, notice, payload, daemonSide, faults>>

(* isStartupAttemptCurrent() *)
Authorized == startup = "attempting"

(* handleStartupFailure() schedules a retry unless it holds one. *)
RetryScheduled == ~retryHeld

(* The attempt fails, handleStartupFailure() and handleStartupSettlement() *)
(* follow; after stop() they do nothing.                                   *)
AttemptFails ==
    /\ attempt' = "none"
    /\ IF Authorized
       THEN /\ retryTimers' = IF RetryScheduled THEN retryTimers + 1 ELSE retryTimers
            /\ retryHeld' = TRUE
            /\ startup' = "waiting"
       ELSE UNCHANGED <<startup, retryHeld, retryTimers>>

(* The attempt ends well, or finds that it lost its authority. *)
AttemptSettles ==
    /\ attempt' = "none"
    /\ startup' = IF ~Authorized THEN startup ELSE IF retryHeld THEN "waiting" ELSE "idle"
    /\ UNCHANGED <<retryHeld, retryTimers>>

(* connect(): the connection is made and started once. *)
ConnectsOnce ==
    IF Authorized /\ connection = "none"
    THEN connection' = "connecting" /\ closing' = StaysOpen
    ELSE UNCHANGED <<connection, closing>>

(* ensureSessionBrokerAvailable() resolves for the attempt. *)
AttemptFindsDaemon ==
    /\ attempt = "daemon"
    /\ running # NoDaemon
    /\ \/ /\ Authorized /\ ~loaded
          /\ attempt' = "credentials"
          /\ UNCHANGED <<startup, retryHeld, retryTimers, connection, closing>>
       \/ /\ ~Authorized \/ loaded
          /\ ConnectsOnce
          /\ AttemptSettles
    /\ UNCHANGED <<loaded, refusalVars, prepareVars, probes, notice, payload, daemonSide, faults>>

(* loadCredentials() resolves. *)
CredentialsLoaded ==
    /\ attempt = "credentials"
    /\ loaded' = (loaded \/ Authorized)
    /\ ConnectsOnce
    /\ AttemptSettles
    /\ UNCHANGED <<refusalVars, prepareVars, probes, notice, payload, daemonSide, faults>>

(* No daemon comes up in time. *)
AttemptFindsNoDaemon ==
    /\ attempt = "daemon"
    /\ running = NoDaemon
    /\ AttemptFails
    /\ UNCHANGED <<loaded, connection, closing, refusalVars, prepareVars, probes, notice, payload,
                   daemonSide, faults>>

(* The daemon cannot be made available, the credentials cannot be loaded,  *)
(* or connection.start() throws.                                           *)
AttemptThrows ==
    /\ attempt # "none"
    /\ Fault
    /\ \/ UNCHANGED loaded
       \/ attempt = "credentials" /\ Authorized /\ loaded' = TRUE
    /\ AttemptFails
    /\ UNCHANGED <<connection, closing, refusalVars, prepareVars, probes, notice, payload,
                   daemonSide>>

(* handleStartupRetryDeadline(): the retry starts an attempt, or is spent  *)
(* while one runs.                                                         *)
RetryFires ==
    /\ retryTimers > 0
    /\ retryTimers' = retryTimers - 1
    /\ IF retryHeld /\ startup \in {"waiting", "attempting"}
       THEN /\ retryHeld' = FALSE
            /\ startup' = "attempting"
            /\ attempt' = IF startup = "waiting" THEN "daemon" ELSE attempt
       ELSE UNCHANGED <<retryHeld, startup, attempt>>
    /\ UNCHANGED <<loaded, connection, closing, refusalVars, prepareVars, probes, notice, payload,
                   daemonSide, faults>>

(* stop(); what is awaited goes on. *)
ClientStop ==
    /\ startup' = "stopped"
    /\ retryTimers' = IF retryHeld /\ startup \in {"waiting", "attempting"}
                      THEN retryTimers - 1 ELSE retryTimers
    /\ retryHeld' = FALSE
    /\ connection' = "none"
    /\ closing' = StaysOpen
    /\ UNCHANGED <<attempt, loaded, refusalVars, prepareVars, probes, notice, payload, daemonSide,
                   faults>>

-----------------------------------------------------------------------------
(***************************************************************************)
(* What the connection asks of the client.                                 *)
(***************************************************************************)

(* The daemon accepts the hello: onConnected(). *)
HelloAccepted ==
    /\ connection = "connecting"
    /\ ~IsClosed
    /\ running # NoDaemon /\ Skew[running] = "matched"
    /\ connection' = "active"
    /\ refusal' = NoRefusal
    /\ notice' = "connected"
    /\ UNCHANGED <<startupVars, closing, refusals, prepareVars, probes, payload, daemonSide, faults>>

(* The daemon, or the network, closes the socket; the event comes later. *)
SocketEnds ==
    /\ connection \in {"connecting", "active"}
    /\ ~IsClosed
    /\ \/ /\ connection = "connecting" /\ running # NoDaemon /\ Skew[running] # "matched"
          /\ closing' = Close("refused", running)
          /\ UNCHANGED faults
       \/ /\ connection = "active" /\ running # NoDaemon /\ payload \notin Accepts[running]
          /\ closing' = Close("rejected", running)
          /\ UNCHANGED faults
       \/ /\ running = NoDaemon
          /\ closing' = Close("lost", NoDaemon)
          /\ UNCHANGED faults
       \/ /\ closing' = Close("lost", NoDaemon)
          /\ Fault
    /\ UNCHANGED <<startupVars, connection, refusalVars, prepareVars, probes, notice, payload,
                   daemonSide>>

(* The identities of refusal objects that nothing refers to; a new object  *)
(* takes one of them.                                                      *)
Unreferenced == Refusal \ ({refusal, prepared} \cup {p.refusal : p \in probes})
NewRefusal == CHOOSE w \in Unreferenced : TRUE

(* resolveClose() for a hello that was refused: the refusal of the same    *)
(* launch is kept, and its build is asked for until it is known.           *)
RefusedClose ==
    /\ closing.reason = "refused"
    /\ LET same == /\ refusal # NoRefusal
                   /\ refusals[refusal].kind = "build-skew"
                   /\ refusals[refusal].fingerprint = metadata
       IN  \/ /\ same
              /\ UNCHANGED <<refusalVars, notice>>
              /\ probes' = IF refusals[refusal].buildKnown THEN probes
                           ELSE probes \cup {[refusal |-> refusal, fresh |-> TRUE]}
           \/ /\ ~same
              /\ Unreferenced # {}
              /\ refusal' = NewRefusal
              /\ refusals' = [refusals EXCEPT ![NewRefusal] =
                     [kind |-> "build-skew", fingerprint |-> metadata, buildKnown |-> FALSE,
                      by |-> closing.by, of |-> closing.of]]
              /\ notice' = "upgrade"
              /\ probes' = probes \cup {[refusal |-> NewRefusal, fresh |-> TRUE]}

(* resolveClose() for a session the daemon would not register. *)
RejectedClose ==
    /\ closing.reason = "rejected"
    /\ Unreferenced # {}
    /\ refusal' = NewRefusal
    /\ refusals' = [refusals EXCEPT ![NewRefusal] =
           [kind |-> "payload", fingerprint |-> metadata, buildKnown |-> FALSE,
            by |-> closing.by, of |-> closing.of]]
    /\ notice' = "rejected"
    /\ UNCHANGED probes

(* The close event; the connection will reconnect. *)
SocketCloseArrives ==
    /\ IsClosed
    /\ connection' = "timer"
    /\ closing' = StaysOpen
    /\ \/ RefusedClose
       \/ RejectedClose
       \/ closing.reason = "lost" /\ UNCHANGED <<refusalVars, notice, probes>>
    /\ UNCHANGED <<startupVars, prepareVars, payload, daemonSide, faults>>

ProbeCounts_Always(p) == TRUE

(* isCurrent() and the refusal's identity, asked when the probe answers. *)
ProbeCounts(p) == p.fresh /\ connection # "none" /\ refusal = p.refusal

(* The admin probe of refineRefusalNotice() answers, for whatever daemon   *)
(* is there by then, or fails.                                             *)
ProbeAnswers(p) ==
    /\ p \in probes
    /\ probes' = probes \ {p}
    /\ \/ /\ ProbeCounts(p)
          /\ refusals' = [refusals EXCEPT ![p.refusal].buildKnown = (running # NoDaemon)]
          /\ notice' = IF running # NoDaemon /\ Skew[running] # "matched" THEN Skew[running]
                       ELSE "upgrade"
       \/ /\ ~ProbeCounts(p)
          /\ UNCHANGED <<refusals, notice>>
    /\ UNCHANGED <<startupVars, connection, closing, refusal, prepareVars, payload, daemonSide,
                   faults>>

-----------------------------------------------------------------------------
(***************************************************************************)
(* prepareReconnect().  A preparation that outlives stop() returns.        *)
(***************************************************************************)

StillPreparing == connection = "preparing"

(* The reconnect timer fires; a window older than the daemon polls slowly. *)
PrepareReconnect ==
    /\ connection = "timer"
    /\ preparation = "none"
    /\ connection' = "preparing"
    /\ IF notice = "client-older"
       THEN preparation' = "delay" /\ UNCHANGED prepared
       ELSE /\ preparation' = IF refusal = NoRefusal THEN "daemon" ELSE "health"
            /\ prepared' = refusal
    /\ UNCHANGED <<startupVars, closing, refusalVars, healthy, probes, notice, payload, daemonSide,
                   faults>>

(* The slow poll's delay is over. *)
DelayEnds ==
    /\ preparation = "delay"
    /\ preparation' = IF ~StillPreparing THEN "none"
                      ELSE IF refusal = NoRefusal THEN "daemon" ELSE "health"
    /\ prepared' = IF StillPreparing THEN refusal ELSE prepared
    /\ UNCHANGED <<startupVars, connection, closing, refusalVars, healthy, probes, notice, payload,
                   daemonSide, faults>>

(* isSessionBrokerHealthy() reaches the daemon, or does not. *)
HealthRead ==
    /\ preparation = "health"
    /\ preparation' = "heard"
    /\ \/ healthy' = (running # NoDaemon) /\ UNCHANGED faults
       \/ healthy' = FALSE /\ Fault
    /\ UNCHANGED <<startupVars, connection, closing, refusalVars, prepared, probes, notice, payload,
                   daemonSide>>

StillRefused_Healthy == healthy

(* The incumbent that refused is still there, as far as its metadata show, *)
(* or the refusal is newer than the answer.                                *)
StillRefused == refusal # prepared \/ (healthy /\ refusals[refusal].fingerprint = metadata)

(* The health answer arrives: the preparation rejects, and is tried again  *)
(* later, or the refusal is over.                                          *)
HealthArrives ==
    /\ preparation = "heard"
    /\ \/ /\ ~StillPreparing
          /\ preparation' = "none"
          /\ UNCHANGED <<connection, refusal>>
       \/ /\ StillPreparing /\ refusal # NoRefusal /\ StillRefused
          /\ preparation' = "none"
          /\ connection' = "timer"
          /\ UNCHANGED refusal
       \/ /\ StillPreparing /\ (refusal = NoRefusal \/ ~StillRefused)
          /\ preparation' = "daemon"
          /\ refusal' = NoRefusal
          /\ UNCHANGED connection
    /\ prepared' = NoRefusal
    /\ healthy' = FALSE
    /\ UNCHANGED <<startupVars, closing, refusals, probes, notice, payload, daemonSide,
                   faults>>

(* ensureDaemonAvailable() settles: the connection makes its next socket,  *)
(* and what belonged to the last one is out of date; or it is tried again. *)
PreparationEnds ==
    /\ preparation = "daemon"
    /\ preparation' = "none"
    /\ prepared' = NoRefusal
    /\ \/ /\ StillPreparing /\ running # NoDaemon
          /\ connection' = "connecting"
          /\ probes' = {[p EXCEPT !.fresh = FALSE] : p \in probes}
       \/ /\ StillPreparing /\ running = NoDaemon
          /\ connection' = "timer"
          /\ UNCHANGED probes
       \/ /\ ~StillPreparing
          /\ UNCHANGED <<connection, probes>>
    /\ UNCHANGED <<startupVars, closing, refusalVars, healthy, notice, payload, daemonSide, faults>>

-----------------------------------------------------------------------------
(***************************************************************************)
(* The session and the daemons.                                            *)
(***************************************************************************)

(* replaceSession() that the connection takes: it releases the refusal of  *)
(* a payload, and no other.                                                *)
ClientReplacesSession(p) ==
    /\ p # payload
    /\ payload' = p
    /\ refusal' = IF refusal # NoRefusal /\ refusals[refusal].kind = "payload" THEN NoRefusal
                  ELSE refusal
    /\ UNCHANGED <<startupVars, connection, closing, refusals, prepareVars, probes, notice,
                   daemonSide, faults>>

(* Someone launches a daemon and writes its metadata. *)
DaemonLaunched(d) ==
    /\ running = NoDaemon
    /\ d \notin launched
    /\ running' = d
    /\ launched' = launched \cup {d}
    /\ metadata' = Fingerprint[d]
    /\ UNCHANGED <<startupVars, connection, closing, refusalVars, prepareVars, probes, notice,
                   payload, faults>>

DaemonExits ==
    /\ running # NoDaemon
    /\ running' = NoDaemon
    /\ UNCHANGED <<startupVars, connection, closing, refusalVars, prepareVars, probes, notice,
                   payload, metadata, launched, faults>>

AttemptProgress ==
    AttemptFindsDaemon \/ CredentialsLoaded \/ AttemptFindsNoDaemon \/ AttemptThrows \/ RetryFires

ConnectionProgress ==
    \/ HelloAccepted \/ SocketEnds \/ SocketCloseArrives
    \/ PrepareReconnect \/ DelayEnds \/ HealthRead \/ HealthArrives \/ PreparationEnds

ProducerNext ==
    \/ ClientStart \/ ClientStop \/ DaemonExits
    \/ AttemptProgress \/ ConnectionProgress
    \/ \E p \in probes : ProbeAnswers(p)
    \/ \E p \in Payload : ClientReplacesSession(p)
    \/ \E d \in Daemon : DaemonLaunched(d)

ProducerSpec == ProducerInit /\ [][ProducerNext]_producerVars

(* Fairness: timers fire and awaited work ends; sockets open and close.    *)
ProducerFairSpec ==
    /\ ProducerSpec
    /\ WF_producerVars(AttemptProgress)
    /\ WF_producerVars(ConnectionProgress)

-----------------------------------------------------------------------------
(***************************************************************************)
(* Properties.                                                             *)
(***************************************************************************)

(* However start, stop, failures and the retry deadline overlap: there is  *)
(* one retry and the state holds it, a client that waits has one, one that *)
(* is idle after a start is connected, and after stop() nothing connects,  *)
(* though an attempt may still be under way.                               *)
StartupSound ==
    /\ retryTimers = (IF retryHeld THEN 1 ELSE 0)
    /\ startup = "waiting" => retryHeld
    /\ startup \in {"idle", "waiting"} => attempt = "none"
    /\ startup = "idle" /\ loaded => connection # "none"
    /\ startup = "stopped" => connection = "none" /\ ~retryHeld

(* The notice on screen is about what is so: none while the link is up, no *)
(* socket towards a daemon whose refusal stands, and the text fits the     *)
(* kind of that refusal, though probes and health answers come late and    *)
(* sessions are replaced while they are awaited.                           *)
RefusalNoticed ==
    /\ connection = "active" /\ ~IsClosed => notice = "connected"
    /\ connection \in {"connecting", "active"} => refusal = NoRefusal
    /\ refusal # NoRefusal =>
          notice \in (IF refusals[refusal].kind = "payload" THEN {"rejected"}
                      ELSE {"upgrade", "client-newer", "client-older"})

(* Both at once: the retries and the notice of a window stay sound however *)
(* start, stop, replaced sessions, refusals and late answers overlap.      *)
WindowSound == StartupSound /\ RefusalNoticed

(* A daemon runs that takes the window's protocol and its session, and the *)
(* window wants it.                                                        *)
Welcoming ==
    /\ startup \notin {"stopped"} /\ connection # "none"
    /\ running # NoDaemon /\ Skew[running] = "matched" /\ payload \in Accepts[running]

(* The refusal that stands was another daemon's, or another session's, but *)
(* was recorded with the launch metadata of the daemon that runs.          *)
Mistaken ==
    /\ refusal # NoRefusal
    /\ refusals[refusal].fingerprint = metadata
    /\ \/ refusals[refusal].by # running
       \/ refusals[refusal].kind = "payload" /\ refusals[refusal].of # payload

(* A window that was refused reconnects once a daemon runs that takes it,  *)
(* unless the close event of an earlier refusal came so late that it was   *)
(* put down to that daemon, or to the session shown by then.               *)
WindowReconnects == <>[]Welcoming => []<>(connection = "active" \/ Mistaken)
===============================================================================

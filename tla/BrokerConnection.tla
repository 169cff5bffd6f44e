-------------------------- MODULE BrokerConnection --------------------------
(***************************************************************************)
(* The producer's end of a broker connection: SessionBrokerConnection in   *)
(* packages/session-broker/src/connection.ts.                              *)
(*                                                                         *)
(* Each socket the connection makes is a generation.  Callbacks of old     *)
(* generations, answers of the application's bridge and the steps of an    *)
(* authentication arrive late, so every one of them asks first whether its *)
(* generation still has authority.  A handler is atomic up to its next     *)
(* await.  Frames are reduced to what they do; a command is an identity    *)
(* and a size.  Generations are reused once nothing refers to them.        *)
(* A callback that throws is LifecycleDefect.  Application callbacks that  *)
(* call back into the connection are represented for the socket factory.   *)
(***************************************************************************)
EXTENDS Integers, Sequences, FiniteSets, Reservations, Filtering, SequencesExt

CONSTANTS
    Generation,              \* identities of socket generations
    Command,                 \* commands the daemon may send
    NoGeneration,
    Authentication,          \* whether options.producerAuthentication is set
    CommandSizes,
    maxPreBridgeCommands, maxQueuedCommandBytes

ASSUME GenerationAssumption == NoGeneration \notin Generation

ASSUME CommandAssumption ==
    /\ Authentication \in BOOLEAN
    /\ CommandSizes \subseteq Nat \ {0}
    /\ maxPreBridgeCommands \in Nat
    /\ maxQueuedCommandBytes \in Nat

VARIABLES
    status,            \* [Generation -> status of the ConnectionGeneration]
    link,              \* [Generation -> its socket: readyState and close event]
    hello,             \* [Generation -> progress of its producer hello]
    current,           \* currentGeneration
    socketHeld,        \* socket # null
    constructing,      \* constructingSocket
    retrying,          \* the generation whose reconnect constructs, if one does
    reconnectTimer,    \* the generation a reconnect is scheduled for
    preparing,         \* generations whose prepareReconnect is awaited
    heartbeatTimer,    \* the generation the heartbeat was started for
    handshakeTimers,   \* generations with a handshake deadline
    stopped,
    bridge,            \* whether a bridge is installed
    queuedMessages,    \* sequence of entries
    executingMessages, \* set of entries
    draining,
    countUsed, bytesUsed, \* ResourceBudget.reserved
    fresh,             \* [Generation -> the daemon got the latest session state]
    missed,            \* history: a send to the application's face failed
    refused,           \* history: resolveClose asked not to reconnect
    awaiting,          \* [Generation -> commands the daemon waits for there]
    stray              \* history: an answer the daemon did not wait for

socketVars == <<status, link, hello, current, socketHeld>>
connectVars == <<constructing, retrying, reconnectTimer, preparing, refused>>
timerVars == <<heartbeatTimer, handshakeTimers>>
queueVars == <<queuedMessages, executingMessages, draining, countUsed, bytesUsed>>
sessionVars == <<fresh, missed>>
daemonVars == <<awaiting, stray>>
vars == <<socketVars, connectVars, timerVars, stopped, bridge, queueVars,
          sessionVars, daemonVars>>

Entry == [generation : Generation, command : Command, size : CommandSizes]

Init ==
    /\ status = [g \in Generation |-> "closed"]
    /\ link = [g \in Generation |-> "closed"]
    /\ hello = [g \in Generation |-> "none"]
    /\ current = NoGeneration
    /\ socketHeld = FALSE
    /\ constructing = FALSE
    /\ retrying = NoGeneration
    /\ reconnectTimer = NoGeneration
    /\ preparing = {}
    /\ heartbeatTimer = NoGeneration
    /\ handshakeTimers = {}
    /\ stopped = FALSE
    /\ bridge \in BOOLEAN
    /\ queuedMessages = <<>>
    /\ executingMessages = {}
    /\ draining = FALSE
    /\ countUsed = 0
    /\ bytesUsed = 0
    /\ fresh = [g \in Generation |-> FALSE]
    /\ missed = FALSE
    /\ refused = FALSE
    /\ awaiting = [g \in Generation |-> {}]
    /\ stray = FALSE

-----------------------------------------------------------------------------
(***************************************************************************)
(* Authority of a generation.                                              *)
(***************************************************************************)

CanAuthenticate(g) ==
    ~stopped /\ current = g /\ status[g] = "connecting" /\ link[g] = "open"

CanReceive(g) ==
    ~stopped /\ current = g /\ status[g] \in {"connecting", "active"}

IsGenerationActive(g) ==
    ~stopped /\ current = g /\ status[g] = "active" /\ link[g] = "open"

IsGenerationCurrent(g) == ~stopped /\ current = g

(* The socket is told to close; its close event comes later. *)
Hangup(g) == IF link[g] = "closed" THEN "closed" ELSE "closing"

(* closeGeneration(), when the adapter's close() does not throw. *)
CloseGeneration(g) ==
    IF current = g /\ status[g] \notin {"closing", "closed"}
    THEN /\ status' = [status EXCEPT ![g] = "closing"]
         /\ link' = [link EXCEPT ![g] = Hangup(g)]
    ELSE UNCHANGED <<status, link>>

ScheduleReconnect_WhenUnset(g) ==
    reconnectTimer' = IF IsGenerationCurrent(g) /\ reconnectTimer = NoGeneration /\ preparing = {}
                      THEN g ELSE reconnectTimer

(* scheduleReconnect() *)
ScheduleReconnect(g) ==
    reconnectTimer' = IF IsGenerationCurrent(g) THEN g ELSE reconnectTimer

-----------------------------------------------------------------------------
(***************************************************************************)
(* The command queue.                                                      *)
(***************************************************************************)

(* The bytes a set or a sequence of entries has reserved. *)
Bytes(entries) == Reserved([e \in entries |-> e.size], entries)

Of(g, queue) == Filtered(queue, {e \in Entry : e.generation = g})

Others(g, queue) == Filtered(queue, {e \in Entry : e.generation # g})

(* The place of the first command of g. *)
First(g, queue) == Min({i \in 1..Len(queue) : queue[i].generation = g})

Flush_OneCommand(busy, active, queue, executing, count, bytes) ==
    LET own == IF current' = NoGeneration THEN <<>> ELSE Of(current', queue)
        runs == ~draining /\ bridge' /\ own # <<>> /\ active
    IN  /\ draining' = (busy \/ runs)
        /\ queuedMessages' = IF runs THEN RemoveAt(queue, First(current', queue)) ELSE queue
        /\ executingMessages' = IF runs THEN executing \cup {own[1]} ELSE executing
        /\ countUsed' = count
        /\ bytesUsed' = bytes

(* flushQueuedMessages() of the current generation, with the flushes it    *)
(* starts again when it returns: the first command of an active generation *)
(* goes to the bridge, and every command of an inactive one is released.   *)
(* "busy" is the draining flag it finds; the other arguments are the queue *)
(* and the budgets it starts from.                                         *)
Flush(busy, active, queue, executing, count, bytes) ==
    LET own == IF current' = NoGeneration THEN <<>> ELSE Of(current', queue)
        runs == ~busy /\ bridge' /\ own # <<>>
    IN  /\ draining' = (busy \/ (runs /\ active))
        /\ queuedMessages' = IF ~runs THEN queue
                             ELSE IF active THEN RemoveAt(queue, First(current', queue))
                             ELSE Others(current', queue)
        /\ executingMessages' = IF runs /\ active THEN executing \cup {own[1]} ELSE executing
        /\ countUsed' = IF runs /\ ~active THEN count - Len(own) ELSE count
        /\ bytesUsed' = IF runs /\ ~active THEN bytes - Bytes(ToSet(own)) ELSE bytes

(* The queue loses the commands of g, with their reservations. *)
Discard(g) ==
    LET gone == Of(g, queuedMessages)
    IN  /\ queuedMessages' = Others(g, queuedMessages)
        /\ countUsed' = countUsed - Len(gone)
        /\ bytesUsed' = bytesUsed - Bytes(ToSet(gone))
        /\ UNCHANGED <<executingMessages, draining>>

(* The queue loses all its commands; one at the bridge keeps its share. *)
DiscardAll ==
    /\ queuedMessages' = <<>>
    /\ countUsed' = countUsed - Len(queuedMessages)
    /\ bytesUsed' = bytesUsed - Bytes(ToSet(queuedMessages))
    /\ UNCHANGED <<executingMessages, draining>>

-----------------------------------------------------------------------------
(***************************************************************************)
(* Connecting.  The socket factory runs foreign code, which may call       *)
(* start(), stop() or setBridge() before it returns or throws.             *)
(***************************************************************************)

(* Timers, promises and socket events wait for the factory to return. *)
Settled == ~constructing

(* start(); it does nothing while a socket is held or being made. *)
Start ==
    /\ ~stopped /\ ~socketHeld /\ ~constructing
    /\ constructing' = TRUE
    /\ UNCHANGED <<socketVars, retrying, reconnectTimer, preparing, refused, timerVars,
                   stopped, bridge, queueVars, sessionVars, daemonVars>>

(* A fresh generation: nothing refers to an earlier life of it. *)
Unused(g) ==
    /\ link[g] = "closed"
    /\ g \notin {current, reconnectTimer, retrying, heartbeatTimer} \cup preparing
    /\ hello[g] \notin {"answering", "verifying"}
    /\ \A e \in executingMessages : e.generation # g

(* The factory returns a socket: it becomes the current generation, or is  *)
(* closed when stop() came first.                                          *)
ConnectReturns(g) ==
    /\ constructing
    /\ Unused(g)
    /\ constructing' = FALSE
    /\ retrying' = NoGeneration
    /\ \/ /\ stopped
          /\ link' = [link EXCEPT ![g] = "closing"]
          /\ UNCHANGED <<status, hello, current, socketHeld, reconnectTimer, handshakeTimers,
                         refused, fresh>>
       \/ /\ ~stopped
          /\ current' = g
          /\ socketHeld' = TRUE
          /\ status' = [status EXCEPT ![g] = "connecting"]
          /\ link' = [link EXCEPT ![g] = "connecting"]
          /\ hello' = [hello EXCEPT ![g] = "none"]
          /\ reconnectTimer' = NoGeneration
          /\ handshakeTimers' = IF Authentication THEN handshakeTimers \cup {g}
                                ELSE handshakeTimers
          /\ refused' = FALSE
          /\ fresh' = [fresh EXCEPT ![g] = FALSE]
    /\ UNCHANGED <<preparing, heartbeatTimer, stopped, bridge, queueVars, missed, daemonVars>>

(* The factory throws: the caller of start() sees it, a reconnect retries. *)
ConnectThrows ==
    /\ constructing
    /\ constructing' = FALSE
    /\ retrying' = NoGeneration
    /\ IF retrying # NoGeneration THEN ScheduleReconnect(retrying) ELSE UNCHANGED reconnectTimer
    /\ UNCHANGED <<socketVars, preparing, refused, timerVars, stopped, bridge, queueVars,
                   sessionVars, daemonVars>>

(* The reconnect timeout fires. *)
ReconnectFires ==
    /\ Settled
    /\ reconnectTimer # NoGeneration
    /\ reconnectTimer' = NoGeneration
    /\ preparing' = IF IsGenerationCurrent(reconnectTimer) THEN preparing \cup {reconnectTimer}
                    ELSE preparing
    /\ UNCHANGED <<socketVars, constructing, retrying, refused, timerVars, stopped, bridge,
                   queueVars, sessionVars, daemonVars>>

(* prepareReconnect resolves for g, and connect() is called if g is still  *)
(* current; or it rejects, and g is tried again.                           *)
PrepareResolves(g) ==
    /\ Settled
    /\ g \in preparing
    /\ preparing' = preparing \ {g}
    /\ IF IsGenerationCurrent(g) /\ ~socketHeld
       THEN constructing' = TRUE /\ retrying' = g
       ELSE UNCHANGED <<constructing, retrying>>
    /\ UNCHANGED <<socketVars, reconnectTimer, refused, timerVars, stopped, bridge, queueVars,
                   sessionVars, daemonVars>>

PrepareRejects(g) ==
    /\ Settled
    /\ g \in preparing
    /\ preparing' = preparing \ {g}
    /\ ScheduleReconnect(g)
    /\ UNCHANGED <<socketVars, constructing, retrying, refused, timerVars, stopped, bridge,
                   queueVars, sessionVars, daemonVars>>

-----------------------------------------------------------------------------
(***************************************************************************)
(* Authentication and activation.                                          *)
(***************************************************************************)

(* activateGeneration(): the heartbeat starts unless one is running, and   *)
(* the session is registered as it is now.                                 *)
Activate(g) ==
    /\ status' = [status EXCEPT ![g] = "active"]
    /\ handshakeTimers' = handshakeTimers \ {g}
    /\ heartbeatTimer' = IF heartbeatTimer = NoGeneration THEN g ELSE heartbeatTimer
    /\ fresh' = [fresh EXCEPT ![g] = TRUE]
    /\ missed' = FALSE
    /\ UNCHANGED <<current, bridge>>
    /\ Flush(draining, TRUE, queuedMessages, executingMessages, countUsed, bytesUsed)

(* onopen: the hello is requested, or the generation is active at once; a  *)
(* generation that lost its authority is left alone.                       *)
SocketOpens(g) ==
    /\ Settled
    /\ link[g] = "connecting"
    /\ link' = [link EXCEPT ![g] = "open"]
    /\ LET still == IsGenerationCurrent(g) /\ status[g] = "connecting"
       IN  \/ /\ still /\ ~Authentication
              /\ Activate(g)
              /\ UNCHANGED hello
           \/ /\ ~still \/ Authentication
              /\ hello' = [hello EXCEPT ![g] = IF still THEN "requested" ELSE @]
              /\ UNCHANGED <<status, current, timerVars, bridge, sessionVars, queueVars>>
    /\ UNCHANGED <<socketHeld, connectVars, stopped, daemonVars>>

(* onmessage with the frame the hello waits for: its answer is awaited. *)
HelloMessage(g) ==
    /\ Settled
    /\ CanReceive(g)
    /\ link[g] = "open"
    /\ status[g] # "active"
    /\ hello[g] \in {"requested", "proved"}
    /\ hello' = [hello EXCEPT ![g] = IF @ = "requested" THEN "answering" ELSE "verifying"]
    /\ UNCHANGED <<status, link, current, socketHeld, connectVars, timerVars, stopped, bridge,
                   queueVars, sessionVars, daemonVars>>

(* The recheck after each await of handleProducerHello. *)
StillAuthenticates(g) == CanAuthenticate(g)

(* The challenge is answered: the proof is sent, if that still matters. *)
ChallengeAnswered(g) ==
    /\ Settled
    /\ hello[g] = "answering"
    /\ hello' = [hello EXCEPT ![g] = IF StillAuthenticates(g) THEN "proved" ELSE "none"]
    /\ UNCHANGED <<status, link, current, socketHeld, connectVars, timerVars, stopped, bridge,
                   queueVars, sessionVars, daemonVars>>

(* The acknowledgement is verified. *)
AckVerified(g) ==
    /\ Settled
    /\ hello[g] = "verifying"
    /\ hello' = [hello EXCEPT ![g] = "none"]
    /\ IF StillAuthenticates(g)
       THEN Activate(g)
       ELSE UNCHANGED <<status, current, timerVars, bridge, sessionVars, queueVars>>
    /\ UNCHANGED <<link, socketHeld, connectVars, stopped, daemonVars>>

(* Either step of the hello fails. *)
HelloFails(g) ==
    /\ Settled
    /\ hello[g] \in {"answering", "verifying"}
    /\ hello' = [hello EXCEPT ![g] = "none"]
    /\ IF CanAuthenticate(g) THEN CloseGeneration(g) ELSE UNCHANGED <<status, link>>
    /\ UNCHANGED <<current, socketHeld, connectVars, timerVars, stopped, bridge, queueVars,
                   sessionVars, daemonVars>>

(* The handshake deadline, a socket error, or a frame that is not text,    *)
(* too long, malformed or out of turn closes the generation.               *)
Offended(g) ==
    \/ g \in handshakeTimers
    \/ link[g] \in {"connecting", "open"}

GenerationCloses(g) ==
    /\ Settled
    /\ Offended(g)
    /\ CloseGeneration(g)
    /\ UNCHANGED <<hello, current, socketHeld, connectVars, timerVars, stopped, bridge,
                   queueVars, sessionVars, daemonVars>>

-----------------------------------------------------------------------------
(***************************************************************************)
(* Commands.                                                               *)
(***************************************************************************)

(* The answer to c goes out on g, whose daemon should be waiting for it. *)
AnswerOn(g, c) ==
    /\ awaiting' = [awaiting EXCEPT ![g] = @ \ {c}]
    /\ stray' = (stray \/ c \notin awaiting[g])

InUse(c) ==
    \/ \E g \in Generation : c \in awaiting[g]
    \/ \E e \in executingMessages \cup ToSet(queuedMessages) : e.command = c

(* A command is admitted: both budgets have room for it. *)
Fits(size) == countUsed + 1 <= maxPreBridgeCommands /\ bytesUsed + size <= maxQueuedCommandBytes

(* handleServerMessage(): a command arrives and joins the queue.           *)
CommandArrives(g, c, size) ==
    /\ Settled
    /\ IsGenerationActive(g)
    /\ ~InUse(c)
    /\ Fits(size)
    /\ awaiting' = [awaiting EXCEPT ![g] = @ \cup {c}]
    /\ UNCHANGED <<current, bridge>>
    /\ Flush(draining, TRUE,
             Append(queuedMessages, [generation |-> g, command |-> c, size |-> size]),
             executingMessages, countUsed + 1, bytesUsed + size)
    /\ UNCHANGED <<status, link, hello, socketHeld, connectVars, timerVars, stopped,
                   sessionVars, stray>>

(* rejectQueuePressure(): there is no room, and the answer says so at      *)
(* once, or the generation is closed when that cannot be sent.             *)
CommandRejected(g, c, size) ==
    /\ Settled
    /\ IsGenerationActive(g)
    /\ ~InUse(c)
    /\ ~Fits(size)
    /\ \/ UNCHANGED <<status, link, awaiting>>
       \/ CloseGeneration(g) /\ awaiting' = [awaiting EXCEPT ![g] = @ \cup {c}]
    /\ UNCHANGED <<hello, current, socketHeld, connectVars, timerVars, stopped, bridge,
                   queueVars, sessionVars, stray>>

AnswersThrough_Current(e) == current

(* executeServerMessage() answers through the generation of its command. *)
AnswersThrough(e) == e.generation

(* The budgets once the command at the bridge has released its share. *)
Released(e) == [count |-> countUsed - 1, bytes |-> bytesUsed - e.size]

(* The bridge settles: a result or an error goes to the daemon if the      *)
(* generation is still active; a malformed result closes the generation.   *)
(* Then the drain goes on.                                                 *)
BridgeSettles(e) ==
    /\ Settled
    /\ e \in executingMessages
    /\ LET g == AnswersThrough(e)
           active == g \in Generation /\ IsGenerationActive(g)
       IN  \/ /\ active
              /\ AnswerOn(g, e.command)
              /\ UNCHANGED <<status, link, current, bridge>>
              /\ Flush(FALSE, TRUE, queuedMessages, executingMessages \ {e},
                       Released(e).count, Released(e).bytes)
           \/ /\ active
              /\ CloseGeneration(g)
              /\ UNCHANGED <<current, bridge, daemonVars>>
              /\ Flush(FALSE, FALSE, queuedMessages, executingMessages \ {e},
                       Released(e).count, Released(e).bytes)
           \/ /\ ~active
              /\ UNCHANGED <<status, link, current, bridge, daemonVars>>
              /\ Flush(FALSE, current # NoGeneration /\ IsGenerationActive(current), queuedMessages,
                       executingMessages \ {e}, Released(e).count, Released(e).bytes)
    /\ UNCHANGED <<hello, socketHeld, connectVars, timerVars, stopped, sessionVars>>

(* setBridge(), also from within the socket factory. *)
SetBridge(b) ==
    /\ bridge' = b
    /\ UNCHANGED current
    /\ Flush(draining, current # NoGeneration /\ IsGenerationActive(current), queuedMessages,
             executingMessages, countUsed, bytesUsed)
    /\ UNCHANGED <<status, link, hello, socketHeld, connectVars, timerVars, stopped,
                   sessionVars, daemonVars>>

-----------------------------------------------------------------------------
(***************************************************************************)
(* The session the connection publishes.                                   *)
(***************************************************************************)

(* updateSnapshot(), and replaceSession() that succeeds: the new state is  *)
(* kept, and sent if a generation is active.                               *)
SessionChanges ==
    /\ fresh' = [g \in Generation |-> current = g /\ IsGenerationActive(g)]
    /\ missed' = FALSE
    /\ UNCHANGED <<socketVars, connectVars, timerVars, stopped, bridge, queueVars, daemonVars>>

(* updateSnapshot() whose send throws to the application: the new state is *)
(* kept all the same.  A replaceSession() that throws keeps the old one.   *)
SnapshotThrows ==
    /\ current # NoGeneration /\ IsGenerationActive(current)
    /\ fresh' = [g \in Generation |-> FALSE]
    /\ missed' = TRUE
    /\ UNCHANGED <<socketVars, connectVars, timerVars, stopped, bridge, queueVars, daemonVars>>

-----------------------------------------------------------------------------
(***************************************************************************)
(* Closing.                                                                *)
(***************************************************************************)

(* stopHeartbeat(), when the current generation's socket has closed. *)
StopHeartbeat == NoGeneration

(* onclose of a socket the connection adopted. *)
SocketClosed(g) ==
    /\ Settled
    /\ link[g] # "closed"
    /\ link' = [link EXCEPT ![g] = "closed"]
    /\ status' = [status EXCEPT ![g] = "closed"]
    /\ handshakeTimers' = handshakeTimers \ {g}
    /\ socketHeld' = (socketHeld /\ current # g)
    /\ heartbeatTimer' = IF current = g THEN StopHeartbeat ELSE heartbeatTimer
    /\ Discard(g)
    /\ awaiting' = [awaiting EXCEPT ![g] = {}]
    /\ \/ IsGenerationCurrent(g) /\ ScheduleReconnect(g) /\ refused' = FALSE
       \/ IsGenerationCurrent(g) /\ refused' = TRUE /\ UNCHANGED reconnectTimer
       \/ ~IsGenerationCurrent(g) /\ UNCHANGED <<reconnectTimer, refused>>
    /\ UNCHANGED <<hello, current, constructing, retrying, preparing, stopped, bridge,
                   sessionVars, stray>>

(* stop(), also from within the socket factory.  An adapter whose close()  *)
(* throws leaves the generation in place, but without authority.           *)
Stop ==
    /\ stopped' = TRUE
    /\ DiscardAll
    /\ reconnectTimer' = NoGeneration
    /\ heartbeatTimer' = NoGeneration
    /\ IF current = NoGeneration
       THEN UNCHANGED <<status, link, handshakeTimers, current, socketHeld>>
       ELSE /\ handshakeTimers' = handshakeTimers \ {current}
            /\ \/ /\ status' = [status EXCEPT ![current] = "closed"]
                  /\ link' = [link EXCEPT ![current] = Hangup(current)]
                  /\ current' = NoGeneration
                  /\ socketHeld' = FALSE
               \/ /\ status[current] \notin {"closing", "closed"}
                  /\ status' = [status EXCEPT ![current] = "close-failed"]
                  /\ UNCHANGED <<link, current, socketHeld>>
    /\ UNCHANGED <<hello, constructing, retrying, preparing, refused, bridge, sessionVars,
                   daemonVars>>

(* reportLifecycleDefect(): a lifecycle callback threw - a send, a close,  *)
(* a timer, a callback of the application - and everything is retired.     *)
LifecycleDefect ==
    /\ Settled
    /\ ~stopped
    /\ stopped' = TRUE
    /\ DiscardAll
    /\ reconnectTimer' = NoGeneration
    /\ heartbeatTimer' = NoGeneration
    /\ handshakeTimers' = {}
    /\ current' = NoGeneration
    /\ socketHeld' = FALSE
    /\ IF current = NoGeneration
       THEN UNCHANGED <<status, link>>
       ELSE /\ status' = [status EXCEPT ![current] = "closed"]
            /\ link' = [link EXCEPT ![current] = Hangup(current)]
    /\ UNCHANGED <<hello, constructing, retrying, preparing, refused, bridge, sessionVars,
                   daemonVars>>

(* Sending the answer of the command at the bridge throws. *)
AnswerDefect(e) ==
    /\ Settled
    /\ e \in executingMessages
    /\ IsGenerationActive(e.generation)
    /\ stopped' = TRUE
    /\ queuedMessages' = <<>>
    /\ executingMessages' = executingMessages \ {e}
    /\ draining' = FALSE
    /\ countUsed' = Released(e).count - Len(queuedMessages)
    /\ bytesUsed' = Released(e).bytes - Bytes(ToSet(queuedMessages))
    /\ reconnectTimer' = NoGeneration
    /\ heartbeatTimer' = NoGeneration
    /\ handshakeTimers' = {}
    /\ current' = NoGeneration
    /\ socketHeld' = FALSE
    /\ status' = [status EXCEPT ![current] = "closed"]
    /\ link' = [link EXCEPT ![current] = Hangup(current)]
    /\ UNCHANGED <<hello, constructing, retrying, preparing, refused, bridge, sessionVars,
                   daemonVars>>

(* The daemon or the network ends the connection; the event comes later. *)
RemoteCloses(g) ==
    /\ Settled
    /\ link[g] \in {"connecting", "open"}
    /\ link' = [link EXCEPT ![g] = "closing"]
    /\ UNCHANGED <<status, hello, current, socketHeld, connectVars, timerVars, stopped, bridge,
                   queueVars, sessionVars, daemonVars>>

Next ==
    \/ Start \/ ConnectThrows \/ ReconnectFires \/ SessionChanges \/ SnapshotThrows
    \/ Stop \/ LifecycleDefect
    \/ \E b \in BOOLEAN : SetBridge(b)
    \/ \E g \in Generation :
          \/ ConnectReturns(g) \/ PrepareResolves(g) \/ PrepareRejects(g)
          \/ SocketOpens(g) \/ HelloMessage(g) \/ ChallengeAnswered(g) \/ AckVerified(g)
          \/ HelloFails(g) \/ GenerationCloses(g) \/ SocketClosed(g) \/ RemoteCloses(g)
    \/ \E g \in Generation, c \in Command, size \in CommandSizes :
          CommandArrives(g, c, size) \/ CommandRejected(g, c, size)
    \/ \E e \in executingMessages : BridgeSettles(e) \/ AnswerDefect(e)

Spec == Init /\ [][Next]_vars

(***************************************************************************)
(* Fairness: the bridge settles, a socket that closes says so, and the     *)
(* socket factory returns or throws.                                       *)
(***************************************************************************)
SomeBridgeSettles == \E e \in executingMessages : BridgeSettles(e)
ClosingEnds(g) == link[g] = "closing" /\ SocketClosed(g)
FactoryReturns == ConnectThrows \/ \E g \in Generation : ConnectReturns(g)

FairSpec ==
    /\ Spec
    /\ WF_vars(SomeBridgeSettles)
    /\ \A g \in Generation : WF_vars(ClosingEnds(g))
    /\ WF_vars(FactoryReturns)

-----------------------------------------------------------------------------
(***************************************************************************)
(* Properties.                                                             *)
(***************************************************************************)

(* The type invariant. *)
TypeOK ==
    /\ status \in [Generation -> {"connecting", "active", "closing", "close-failed", "closed"}]
    /\ link \in [Generation -> {"connecting", "open", "closing", "closed"}]
    /\ hello \in [Generation -> {"none", "requested", "answering", "proved", "verifying"}]
    /\ {current, reconnectTimer, retrying, heartbeatTimer} \subseteq Generation \cup {NoGeneration}
    /\ preparing \subseteq Generation
    /\ handshakeTimers \subseteq Generation
    /\ {socketHeld, constructing, stopped, bridge, draining, missed, refused, stray} \subseteq BOOLEAN
    /\ queuedMessages \in Seq(Entry)
    /\ executingMessages \subseteq Entry
    /\ countUsed \in Nat
    /\ bytesUsed \in Nat
    /\ fresh \in [Generation -> BOOLEAN]
    /\ awaiting \in [Generation -> SUBSET Command]

(* No socket is forgotten: one that nobody asked to close belongs to the   *)
(* current generation, whatever start, stop and reconnects overlap.  Only  *)
(* an adapter whose close() threw keeps one after stop().                  *)
NoOrphanSocket ==
    \A g \in Generation :
        link[g] \in {"connecting", "open"} =>
            /\ current = g /\ socketHeld
            /\ ~stopped \/ status[g] = "close-failed"

(* An active generation is kept alive: the heartbeat that runs is its own, *)
(* never one an older generation left behind (startHeartbeat).             *)
HeartbeatRuns ==
    \A g \in Generation : IsGenerationActive(g) => heartbeatTimer = g

(* A connection that lost its socket is on its way to the next one, unless *)
(* it was told not to be.                                                  *)
NeverStranded ==
    current # NoGeneration /\ ~stopped /\ ~socketHeld =>
        constructing \/ refused \/ reconnectTimer = current \/ current \in preparing

(* After stop() nothing is left that could act: no timer, no queue.        *)
StoppedIsSilent ==
    stopped => /\ reconnectTimer = NoGeneration /\ heartbeatTimer = NoGeneration
               /\ handshakeTimers = {}
               /\ queuedMessages = <<>>

(* The budgets hold exactly the queued commands and the one at the bridge, *)
(* across disconnects, reconnects, stop and a bridge that hangs.           *)
BudgetsExact ==
    /\ countUsed = Len(queuedMessages) + Cardinality(executingMessages)
    /\ bytesUsed = Bytes(ToSet(queuedMessages) \cup executingMessages)
    /\ countUsed <= maxPreBridgeCommands
    /\ bytesUsed <= maxQueuedCommandBytes

(* One command at the bridge at a time, and the waiting ones all belong to *)
(* the current generation.                                                 *)
BridgeSerialized ==
    /\ Cardinality(executingMessages) <= 1
    /\ draining <=> executingMessages # {}
    /\ \A e \in ToSet(queuedMessages) : e.generation = current

(* An answer never reaches a daemon connection that did not ask: results   *)
(* do not migrate to the socket that replaced theirs.                      *)
NoStrayAnswer == ~stray

(* What an active generation told the daemon is the session as it is now,  *)
(* unless the application was told that sending it failed.                 *)
PublishedIsCurrent ==
    \A g \in Generation : IsGenerationActive(g) => fresh[g] \/ missed

(* Sockets, timers and publication, across start, stop, reconnects and     *)
(* late events: no socket is forgotten, the heartbeat is the live          *)
(* generation's, a lost socket is replaced, stop() leaves nothing behind   *)
(* and what an active generation published is the session as it is.        *)
SocketsSound ==
    /\ TypeOK /\ NoOrphanSocket /\ HeartbeatRuns /\ NeverStranded
    /\ StoppedIsSilent /\ PublishedIsCurrent

(* The command queue, while sockets are replaced under the bridge: exact   *)
(* budgets, one command at a time and no answer to another socket.         *)
CommandsSound == BudgetsExact /\ BridgeSerialized /\ NoStrayAnswer

(* With a bridge installed, a command that was admitted is answered, or    *)
(* its connection ends; only an adapter whose close() threw may keep the   *)
(* daemon waiting after stop().                                            *)
CommandsAnswered ==
    <>[]bridge =>
        \A g \in Generation, c \in Command :
            c \in awaiting[g] ~> c \notin awaiting[g] \/ status[g] = "close-failed"
=============================================================================

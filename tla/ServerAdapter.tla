---------------------------- MODULE ServerAdapter ----------------------------
(***************************************************************************)
(* The runtime adapters that put the daemon on a port:                     *)
(* packages/session-broker-bun/src/serve.ts and                            *)
(* packages/session-broker-node/src/serve.ts, with boundHttpResponse of    *)
(* session-broker-core/src/limits.ts.                                      *)
(*                                                                         *)
(* An adapter admits sockets, ends handshakes that take too long, charges  *)
(* what peers and HTTP responses keep in memory, and stops the port.  The  *)
(* two are one module: they differ in how a write is charged, in what      *)
(* outlives an HTTP handler and in what the stop waits for.  The native    *)
(* servers are external: they frame and buffer what was sent, flush it at  *)
(* will and report a close some time after it was asked for.  Messages are *)
(* handled by the daemon in one synchronous call; here, a message that is  *)
(* refused closes its socket.                                              *)
(***************************************************************************)
EXTENDS Integers, Sequences, FiniteSets, Reservations

CONSTANTS
    Peer, Handler,
    SendSizes,              \* utf8ByteLength of what the daemon sends
    FrameBytes,             \* bound: frame headers and control frames a socket buffers
    ResponseSizes,          \* bytes of a finite response
    maxUnauthenticatedSockets, maxOutboundBytesPerPeer, maxOutboundBytesTotal,
    maxHttpResponseBytes, maxInFlightHttpResponseBytes

(* mergeSessionBrokerLimits enforces the last line. *)
ASSUME AdapterAssumption ==
    /\ IsFiniteSet(Peer) /\ IsFiniteSet(Handler)
    /\ SendSizes \subseteq Nat \ {0} /\ FrameBytes \in Nat /\ ResponseSizes \subseteq Nat
    /\ maxUnauthenticatedSockets \in Nat
    /\ maxOutboundBytesPerPeer \in Nat /\ maxOutboundBytesTotal \in Nat
    /\ maxHttpResponseBytes \in Nat /\ maxInFlightHttpResponseBytes \in Nat
    /\ 2 * maxHttpResponseBytes <= maxInFlightHttpResponseBytes

VARIABLES
    server,          \* which adapter, and requiresProducerAuthentication
    socket,          \* [Peer -> none, open or closing]
    admissions,      \* peers whose admission is reserved (activeAdmissions)
    handshakeTimers, \* peers whose handshake deadline runs
    trusted,         \* peers the daemon marked as authenticated
    unflushed,       \* [Peer -> message bytes its native socket has not flushed]
    framing,         \* [Peer -> the frame headers and control frames it buffers]
    writes,          \* [Peer -> its outbound reservations, oldest first]
    outboundUsed,    \* outboundBudget.used
    handling,        \* [Handler -> where its request is]
    bodyBytes,       \* [Handler -> bytes of the body it buffered]
    charged,         \* [Handler -> bytes its response has reserved]
    responsesUsed,   \* responseBudget.used
    stopStage,       \* running, stopping or stopped
    transportStopSettled

socketVars == <<socket, admissions, handshakeTimers, trusted>>
outboundVars == <<unflushed, framing, writes, outboundUsed>>
chargeVars == <<charged, responsesUsed>>
httpVars == <<handling, bodyBytes, chargeVars>>
stopVars == <<stopStage, transportStopSettled>>
adapterVars == <<server, socketVars, outboundVars, httpVars, stopVars>>

AdapterInit ==
    /\ server \in [runtime : {"bun", "node"}, authenticates : BOOLEAN]
    /\ socket = [p \in Peer |-> "none"]
    /\ admissions = {} /\ handshakeTimers = {} /\ trusted = {}
    /\ unflushed = [p \in Peer |-> 0]
    /\ framing = [p \in Peer |-> 0]
    /\ writes = [p \in Peer |-> <<>>]
    /\ outboundUsed = 0
    /\ handling = [h \in Handler |-> "idle"]
    /\ bodyBytes = [h \in Handler |-> 0]
    /\ charged = [h \in Handler |-> 0]
    /\ responsesUsed = 0
    /\ stopStage = "running"
    /\ transportStopSettled = FALSE

Bun == server.runtime = "bun"
Node == server.runtime = "node"

ChargedTo(p) == Reserved(writes[p], 1..Len(writes[p]))
Connected(p) == socket[p] # "none"

(* What the native socket reports: getBufferedAmount() and bufferedAmount. *)
Buffered(p) == unflushed[p] + framing[p]

(* activeHttpHandlers: a response Bun was handed is no longer counted. *)
ActiveHandlers(stages) == {h \in Handler : stages[h] \notin {"idle", "returned"}}

-----------------------------------------------------------------------------
(***************************************************************************)
(* Stopping.                                                               *)
(***************************************************************************)

BunFinishes_AwaitsTransport(stages, admitted, settled) == ActiveHandlers(stages) = {} /\ settled

(* Bun's maybeFinishTransportStop is done once no handler runs and either  *)
(* the runtime said so or no admission is left.                            *)
BunFinishes(stages, admitted, settled) == ActiveHandlers(stages) = {} /\ (settled \/ admitted = {})

(* Node's stop() awaits the close of every peer, then every handler. *)
NodeFinishes(stages, sockets) ==
    ActiveHandlers(stages) = {} /\ \A p \in Peer : sockets[p] = "none"

(* The end of a callback that leaves this stage of the stop, these request *)
(* stages, sockets, admissions and outbound reservations: the stop may be  *)
(* complete, and Bun's then drops every reservation there is.              *)
Leave(stage, stages, sockets, admitted, kept, settled) ==
    LET done == /\ stage = "stopping"
                /\ IF Bun THEN BunFinishes(stages, admitted, settled)
                   ELSE NodeFinishes(stages, sockets)
        left == IF Bun /\ done THEN [p \in Peer |-> <<>>] ELSE kept
        released == [p \in Peer |-> ChargedTo(p) - Reserved(left[p], 1..Len(left[p]))]
    IN  /\ stopStage' = IF done THEN "stopped" ELSE stage
        /\ handling' = stages
        /\ socket' = sockets
        /\ admissions' = IF Bun /\ done THEN {} ELSE admitted
        /\ writes' = left
        /\ outboundUsed' = outboundUsed - Reserved(released, Peer)
        /\ transportStopSettled' = settled

(* stop(), asked for by the host or by the daemon's own shutdown: every    *)
(* peer is told to close.                                                  *)
Stop ==
    /\ stopStage = "running"
    /\ Leave("stopping", handling, [p \in Peer |-> IF Connected(p) THEN "closing" ELSE "none"],
             admissions, writes, FALSE)
    /\ UNCHANGED <<server, handshakeTimers, trusted, unflushed, framing, bodyBytes,
                   chargeVars>>

(* The promise of Bun's own stop settles, which it may never do: then no   *)
(* socket is left.                                                         *)
TransportStopSettles ==
    /\ Bun /\ stopStage = "stopping" /\ ~transportStopSettled
    /\ \A p \in Peer : ~Connected(p)
    /\ Leave(stopStage, handling, socket, admissions, writes, TRUE)
    /\ UNCHANGED <<server, handshakeTimers, trusted, unflushed, framing, bodyBytes,
                   chargeVars>>

-----------------------------------------------------------------------------
(***************************************************************************)
(* Sockets.                                                                *)
(***************************************************************************)

(* socket.close(...): the close event comes later. *)
Closes(p) == socket' = [socket EXCEPT ![p] = "closing"]

(* An upgrade is admitted while a place is free.  The open callback runs   *)
(* with it: a daemon without authentication gives the place back, another  *)
(* one starts the handshake's deadline.  Node has an event of its own and  *)
(* refuses it once it stops.  Under Bun the request's handler h ends here, *)
(* and one that a stop found in flight may still get its socket.           *)
Upgrade(p, h) ==
    /\ \/ stopStage = "running"
       \/ Bun /\ stopStage = "stopping" /\ ~transportStopSettled
    /\ socket[p] = "none" /\ writes[p] = <<>>
    /\ Bun => handling[h] = "handling"
    /\ Cardinality(admissions) < maxUnauthenticatedSockets
    /\ handshakeTimers' = IF server.authenticates THEN handshakeTimers \cup {p} ELSE handshakeTimers
    /\ Leave(stopStage, IF Bun THEN [handling EXCEPT ![h] = "idle"] ELSE handling,
             [socket EXCEPT ![p] = "open"],
             IF server.authenticates THEN admissions \cup {p} ELSE admissions,
             writes, transportStopSettled)
    /\ UNCHANGED <<server, trusted, unflushed, framing, bodyBytes, chargeVars>>

(* The daemon, not yet shut down, accepted a registration; the socket may  *)
(* already be closing.                                                     *)
MarkAuthenticated(p) ==
    /\ server.authenticates /\ stopStage = "running"
    /\ Connected(p) /\ p \notin trusted
    /\ trusted' = trusted \cup {p}
    /\ admissions' = admissions \ {p}
    /\ handshakeTimers' = handshakeTimers \ {p}
    /\ UNCHANGED <<server, socket, outboundVars, httpVars, stopVars>>

(* The handshake's deadline, or a message that is binary, too large,       *)
(* malformed or that the daemon threw on.                                  *)
HandshakeTimesOut(p) ==
    /\ p \in handshakeTimers /\ socket[p] = "open"
    /\ Closes(p)
    /\ UNCHANGED <<server, admissions, handshakeTimers, trusted, outboundVars, httpVars, stopVars>>

MessageRefused(p) ==
    /\ socket[p] = "open"
    /\ Closes(p)
    /\ UNCHANGED <<server, admissions, handshakeTimers, trusted, outboundVars, httpVars, stopVars>>

(* The close event, asked for or not.  Bun drops the peer's reservation;   *)
(* Node's come back with the callbacks of its writes.                      *)
CloseEvent(p) ==
    /\ Connected(p)
    /\ handshakeTimers' = handshakeTimers \ {p}
    /\ trusted' = trusted \ {p}
    /\ unflushed' = [unflushed EXCEPT ![p] = 0]
    /\ framing' = [framing EXCEPT ![p] = 0]
    /\ Leave(stopStage, handling, [socket EXCEPT ![p] = "none"], admissions \ {p},
             IF Bun THEN [writes EXCEPT ![p] = <<>>] ELSE writes, transportStopSettled)
    /\ UNCHANGED <<server, bodyBytes, chargeVars>>

-----------------------------------------------------------------------------
(***************************************************************************)
(* What peers are sent.                                                    *)
(***************************************************************************)

(* p's reservations become these, with that much left in its socket. *)
Charge(p, reservations, bytes, frames) ==
    /\ writes' = [writes EXCEPT ![p] = reservations]
    /\ unflushed' = [unflushed EXCEPT ![p] = bytes]
    /\ framing' = [framing EXCEPT ![p] = frames]
    /\ outboundUsed' = outboundUsed - ChargedTo(p)
                         + Reserved(reservations, 1..Len(reservations))

(* The one reservation of a Bun peer that has n bytes to account for. *)
Holding(n) == IF n = 0 THEN <<>> ELSE <<n>>

(* What the one reservation of a Bun peer can be resized to. *)
Room(p) == maxOutboundBytesTotal - outboundUsed + ChargedTo(p)

(* send() under Bun: the reservation is set to all that is buffered and    *)
(* the message before the write, and to what is buffered after it.  The    *)
(* message was framed meanwhile: without room for that the last resize     *)
(* throws and the earlier reservation is kept.  It is also kept by a write *)
(* that was dropped or threw, while anything is buffered.                  *)
BunSend(p, bytes, result, left, frames) ==
    LET wanted == Buffered(p) + bytes
        remaining == left + frames
    IN  /\ Bun
        /\ IF wanted > maxOutboundBytesPerPeer \/ wanted > Room(p)
           THEN Closes(p) /\ result = "refused" /\ left = 0 /\ frames = 0 /\ UNCHANGED outboundVars
           ELSE \/ /\ result = "sent" /\ socket[p] = "open"
                   /\ left <= unflushed[p] + bytes
                   /\ Charge(p, Holding(IF remaining > Room(p) THEN wanted ELSE remaining),
                             left, frames)
                   /\ UNCHANGED socket
                \/ /\ result \in {"dropped", "threw"} /\ left = unflushed[p]
                   /\ Charge(p, IF remaining = 0 THEN <<>> ELSE Holding(wanted), left, frames)
                   /\ IF result = "dropped" THEN Closes(p) ELSE UNCHANGED socket

(* send() under Node: every write has a reservation of its bytes, without  *)
(* their framing, until its callback.                                      *)
NodeSend(p, bytes, result, left, frames) ==
    /\ Node
    /\ IF \/ bytes > maxOutboundBytesPerPeer - Buffered(p)
          \/ bytes > maxOutboundBytesTotal - outboundUsed
       THEN Closes(p) /\ result = "refused" /\ left = 0 /\ frames = 0 /\ UNCHANGED outboundVars
       ELSE \/ /\ result = "sent" /\ left = unflushed[p] + bytes
               /\ Charge(p, Append(writes[p], bytes), left, frames)
               /\ UNCHANGED socket
            \/ result = "threw" /\ left = 0 /\ frames = 0 /\ UNCHANGED <<socket, outboundVars>>

(* The daemon sends while it has not shut down and still knows the peer. *)
Send(p, bytes, result, left, frames) ==
    /\ stopStage = "running"
    /\ Connected(p)
    /\ BunSend(p, bytes, result, left, frames) \/ NodeSend(p, bytes, result, left, frames)
    /\ UNCHANGED <<server, admissions, handshakeTimers, trusted, httpVars, stopVars>>

(* The native socket flushes some of its buffer; control frames come and   *)
(* go with it.  (external)                                                 *)
Flushes(p, left, frames) ==
    /\ Connected(p)
    /\ left <= unflushed[p]
    /\ unflushed' = [unflushed EXCEPT ![p] = left]
    /\ framing' = [framing EXCEPT ![p] = frames]
    /\ UNCHANGED <<server, socketVars, writes, outboundUsed, httpVars, stopVars>>

(* Bun's drain callback; it throws where there is no room to resize.       *)
Drain(p) ==
    /\ Bun /\ Connected(p) /\ writes[p] # <<>>
    /\ Buffered(p) <= Room(p)
    /\ Charge(p, Holding(Buffered(p)), unflushed[p], framing[p])
    /\ UNCHANGED <<server, socketVars, httpVars, stopVars>>

(* The callback of the oldest write of a Node peer, after its bytes were   *)
(* flushed or with an error, which closes a socket that is still open.     *)
WriteReturns(p, failed) ==
    /\ Node /\ writes[p] # <<>>
    /\ LET rest == Tail(writes[p])
           unsent == Reserved(rest, 1..Len(rest))
       IN  /\ failed \/ unflushed[p] <= unsent
           /\ Charge(p, rest, IF unflushed[p] < unsent THEN unflushed[p] ELSE unsent, framing[p])
    /\ IF failed /\ socket[p] = "open" THEN Closes(p) ELSE UNCHANGED socket
    /\ UNCHANGED <<server, admissions, handshakeTimers, trusted, httpVars, stopVars>>

-----------------------------------------------------------------------------
(***************************************************************************)
(* HTTP requests and their responses: fetch, the request listener,         *)
(* boundHttpResponse, finalizeHttpResponse and writeResponse.              *)
(***************************************************************************)

Recharge(h, bytes) ==
    /\ charged' = [charged EXCEPT ![h] = bytes]
    /\ responsesUsed' = responsesUsed - charged[h] + bytes

Advance(h, stage) == Leave(stopStage, [handling EXCEPT ![h] = stage], socket, admissions, writes,
                           transportStopSettled)

httpFrame == <<server, handshakeTimers, trusted, unflushed, framing>>

RequestArrives(h) ==
    /\ stopStage = "running" /\ handling[h] = "idle"
    /\ Advance(h, "handling")
    /\ UNCHANGED <<httpFrame, bodyBytes, chargeVars>>

(* The request ends without a body to buffer: a failed upgrade, a refusal, *)
(* an error, or an event stream, which Bun takes over from the handler.    *)
RequestEnds(h) ==
    /\ handling[h] \in {"handling", "streaming"}
    /\ Advance(h, "idle")
    /\ UNCHANGED <<httpFrame, bodyBytes, chargeVars>>

(* Node's handler pumps an event stream until it ends. *)
StreamBegins(h) ==
    /\ Node /\ handling[h] = "handling"
    /\ Advance(h, "streaming")
    /\ UNCHANGED <<httpFrame, bodyBytes, chargeVars>>

(* The whole permitted size is reserved before the first chunk is read. *)
BodyBegins(h) ==
    /\ handling[h] = "handling"
    /\ maxHttpResponseBytes <= maxInFlightHttpResponseBytes - responsesUsed
    /\ Recharge(h, maxHttpResponseBytes)
    /\ Advance(h, "reading")
    /\ UNCHANGED <<httpFrame, bodyBytes>>

(* The body is complete: for a moment source and copy are both charged,    *)
(* and if there is no room for both the response is a 503.                 *)
BodyComplete(h, total) ==
    /\ handling[h] = "reading" /\ total <= maxHttpResponseBytes
    /\ IF 2 * total <= maxInFlightHttpResponseBytes - (responsesUsed - charged[h])
       THEN Recharge(h, total) /\ Advance(h, IF Bun THEN "returned" ELSE "retained")
       ELSE Recharge(h, 0) /\ Advance(h, "idle")
    /\ bodyBytes' = [bodyBytes EXCEPT ![h] = total]
    /\ UNCHANGED httpFrame

(* The source fails, exceeds the limit, or is not delivered at all (HEAD). *)
BodyDropped(h) ==
    /\ handling[h] = "reading"
    /\ Recharge(h, 0)
    /\ Advance(h, "idle")
    /\ UNCHANGED <<httpFrame, bodyBytes>>

(* The buffered body is pulled, or cancelled by a client that went away;   *)
(* Node then writes it under a reservation of its own.                     *)
BodyPulled(h) ==
    /\ handling[h] \in {"returned", "retained"}
    /\ Recharge(h, 0)
    /\ Advance(h, IF handling[h] = "retained" THEN "pulled" ELSE "idle")
    /\ UNCHANGED <<httpFrame, bodyBytes>>

ChunkWritten(h) ==
    /\ handling[h] = "pulled"
    /\ IF bodyBytes[h] <= maxInFlightHttpResponseBytes - responsesUsed
       THEN Recharge(h, bodyBytes[h]) /\ Advance(h, "writing")
       ELSE Recharge(h, 0) /\ Advance(h, "idle")
    /\ UNCHANGED <<httpFrame, bodyBytes>>

ChunkReturns(h) ==
    /\ handling[h] = "writing"
    /\ Recharge(h, 0)
    /\ Advance(h, "idle")
    /\ UNCHANGED <<httpFrame, bodyBytes>>

HandlerProgress(h) ==
    \/ RequestEnds(h) \/ BodyDropped(h) \/ BodyPulled(h) \/ ChunkWritten(h) \/ ChunkReturns(h)
    \/ \E total \in ResponseSizes : BodyComplete(h, total)

AdapterNext ==
    \/ Stop \/ TransportStopSettles
    \/ \E p \in Peer, h \in Handler : Upgrade(p, h)
    \/ \E p \in Peer :
          \/ MarkAuthenticated(p) \/ HandshakeTimesOut(p) \/ MessageRefused(p)
          \/ CloseEvent(p) \/ Drain(p)
    \/ \E p \in Peer, b \in SendSizes, r \in {"sent", "dropped", "threw", "refused"},
          n \in 0..maxOutboundBytesPerPeer, f \in 0..FrameBytes : Send(p, b, r, n, f)
    \/ \E p \in Peer, n \in 0..maxOutboundBytesPerPeer, f \in 0..FrameBytes : Flushes(p, n, f)
    \/ \E p \in Peer, failed \in BOOLEAN : WriteReturns(p, failed)
    \/ \E h \in Handler :
          RequestArrives(h) \/ StreamBegins(h) \/ BodyBegins(h) \/ HandlerProgress(h)

AdapterSpec == AdapterInit /\ [][AdapterNext]_adapterVars

(* Fairness: deadlines fire, a socket that was closed reports it, and the  *)
(* handlers a stop finds end, because the daemon was shut down before; the *)
(* daemon's own calls and clients may never come.                          *)
AdapterFairSpec ==
    /\ AdapterSpec
    /\ \A p \in Peer : WF_adapterVars(HandshakeTimesOut(p))
    /\ \A p \in Peer : WF_adapterVars(socket[p] = "closing" /\ CloseEvent(p))
    /\ \A h \in Handler : WF_adapterVars(stopStage = "stopping" /\ HandlerProgress(h))

-----------------------------------------------------------------------------
(***************************************************************************)
(* Properties.                                                             *)
(***************************************************************************)

(* Bun's stop counts as complete once no place is reserved, whatever the   *)
(* authenticated sockets still hold and whether their close events came.   *)
Forsaken(p) == Bun /\ stopStage = "stopped" /\ Connected(p) /\ p \notin admissions

(* What is charged is exact and within its limits on every path of sends,  *)
(* drops, drains, failed resizes and writes, closes and responses, and     *)
(* covers every message byte the native sockets still hold; frame headers  *)
(* and control frames come on top.  The one exception are the sockets      *)
(* Bun's stop forsakes.  A place is held by exactly the sockets the daemon *)
(* does not know yet, also when it has stopped; and a server that stopped  *)
(* handles no request and, under Node, has no socket.                      *)
AdapterBudgetsExact ==
    /\ outboundUsed = Reserved([p \in Peer |-> ChargedTo(p)], Peer)
    /\ outboundUsed <= maxOutboundBytesTotal
    /\ responsesUsed = Reserved(charged, Handler)
    /\ responsesUsed <= maxInFlightHttpResponseBytes
    /\ admissions = {p \in Peer : server.authenticates /\ Connected(p) /\ p \notin trusted}
    /\ Cardinality(admissions) <= maxUnauthenticatedSockets
    /\ \A p \in Peer : /\ unflushed[p] <= maxOutboundBytesPerPeer
                       /\ unflushed[p] <= ChargedTo(p) \/ Forsaken(p)
    /\ stopStage = "stopped" =>
          ActiveHandlers(handling) = {} /\ (Node => \A p \in Peer : ~Connected(p))

(* A place is given back even to a peer that never answers, and a stop     *)
(* ends although peers and handlers were busy when it began.               *)
AdapterSettles ==
    /\ \A p \in Peer : p \in admissions ~> p \notin admissions
    /\ stopStage = "stopping" ~> stopStage = "stopped"

(* Both, for both runtimes. *)
ServerSound == []AdapterBudgetsExact /\ AdapterSettles
==============================================================================

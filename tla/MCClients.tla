------------------------------ MODULE MCClients ------------------------------
(***************************************************************************)
(* Small instances of the four clients: the producer connection, the       *)
(* window's broker client, the signing caller and the highlight worker's   *)
(* client.  They share no state, so one run explores them side by side:    *)
(* a behaviour picks one of them and only that one moves.  The connection  *)
(* is picked with two sockets and two commands.                            *)
(***************************************************************************)
EXTENDS BrokerConnection, ProducerClient, CallerClient, HighlightWorker, TLC

CONSTANTS g1, g2, c1, c2, d1, d2, f1, f2, p1, p2, r1, r2, r3, r4

VARIABLE part

MCGeneration == {g1, g2}
MCCommand == {c1, c2}
MCFingerprint == d1 :> f1 @@ d2 :> f2
MCSkew == d1 :> "client-newer" @@ d2 :> "matched"
MCAccepts == d1 :> {p1} @@ d2 :> {p1}
MCResultKey == r1 :> "a" @@ r2 :> "b" @@ r3 :> "c" @@ r4 :> "a"
MCResultBytes == "a" :> 1 @@ "b" :> 2 @@ "c" :> 4

MCInit ==
    /\ Init /\ ProducerInit /\ CallerInit /\ HighlightInit
    /\ part \in {"connection", "producer", "caller", "highlight"}
    /\ part # "connection" => ~bridge
    /\ part # "producer" => running = NoDaemon /\ payload = p1
    /\ part # "caller" => session = NoSession

MCNext ==
    /\ UNCHANGED part
    /\ \/ part = "connection" /\ Next /\ UNCHANGED <<producerVars, callerVars, highlightVars>>
       \/ part = "producer" /\ ProducerNext /\ UNCHANGED <<vars, callerVars, highlightVars>>
       \/ part = "caller" /\ CallerNext /\ UNCHANGED <<vars, producerVars, highlightVars>>
       \/ part = "highlight" /\ HighlightNext /\ UNCHANGED <<vars, producerVars, callerVars>>

MCSpec ==
    /\ MCInit
    /\ [][MCNext]_<<vars, producerVars, callerVars, highlightVars, part>>
    /\ WF_vars(part = "connection" /\ SomeBridgeSettles)
    /\ \A g \in Generation : WF_vars(part = "connection" /\ ClosingEnds(g))
    /\ WF_vars(part = "connection" /\ FactoryReturns)
    /\ WF_producerVars(part = "producer" /\ AttemptProgress)
    /\ WF_producerVars(part = "producer" /\ ConnectionProgress)
    /\ \A r \in CRequest : WF_callerVars(part = "caller" /\ CallProgress(r))
    /\ \A n \in Negotiation : WF_callerVars(part = "caller" /\ TalkProgress(n))
    /\ WF_highlightVars(part = "highlight" /\ HighlightProgress)
==============================================================================

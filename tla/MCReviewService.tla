--------------------------- MODULE MCReviewService ---------------------------
(***************************************************************************)
(* Small instances of the review service and of the server adapters that   *)
(* put it on a port.  They share no state, so a behaviour is one of the    *)
(* review service or one of an adapter, with traffic to its peers or with  *)
(* two requests at a time, and nothing else moves.                         *)
(***************************************************************************)
EXTENDS ReviewService, ServerAdapter, TLC

CONSTANTS s1, p1, p2, t1, l1, l2, c1, r1, r2, q1, q2, h1, h2

VARIABLE part

Published(p, n, v) == [producer |-> p, sequence |-> n, revision |-> v]
MCAddress == {Published(p1, 0, 0), Published(p1, 0, 1), Published(p1, 1, 0), Published(p2, 1, 0)}

MCInit ==
    /\ ReviewInit /\ AdapterInit
    /\ part \in {"review", "traffic", "requests"}
    /\ part = "review" => server.runtime = "bun" /\ server.authenticates

MCNext ==
    /\ UNCHANGED part
    /\ \/ part = "review" /\ ReviewNext /\ UNCHANGED adapterVars
       \/ part = "traffic" /\ AdapterNext /\ handling'[h2] = "idle" /\ UNCHANGED reviewVars
       \/ part = "requests" /\ AdapterNext /\ UNCHANGED <<outboundVars, reviewVars>>

(* The fairness of ReviewFairSpec and of AdapterFairSpec. *)
MCSpec ==
    /\ MCInit
    /\ [][MCNext]_<<reviewVars, adapterVars, part>>
    /\ \A l \in Load : WF_reviewVars(part = "review" /\ ReadSettles(l))
    /\ \A p \in Peer : WF_adapterVars(part # "review" /\ HandshakeTimesOut(p))
    /\ \A p \in Peer : WF_adapterVars(part # "review" /\ socket[p] = "closing" /\ CloseEvent(p))
    /\ \A h \in Handler : WF_adapterVars(/\ part # "review" /\ stopStage = "stopping"
                                       /\ HandlerProgress(h))
==============================================================================

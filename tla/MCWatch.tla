------------------------------- MODULE MCWatch -------------------------------
(***************************************************************************)
(* Small instances of the watch controller and of the portable tree        *)
(* observer.  They meet in the observer's callbacks only, which each       *)
(* module leaves free to its environment, and share no state: a behaviour  *)
(* picks one of them and only that one moves.                              *)
(***************************************************************************)
EXTENDS MCWatchController, PortableTree, TLC

CONSTANTS d1, d2, d3, d4

VARIABLE part

MCDir == {d1, d2, d3, d4}
MCBelow == d1 :> {d1, d2, d3, d4} @@ d2 :> {d2, d4} @@ d3 :> {d3} @@ d4 :> {d4}

MCInit ==
    /\ Init /\ TreeInit
    /\ part \in {"controller", "tree"}
    /\ part # "controller" => degraded /\ disk = 0 /\ applied = NoSignature

MCNext ==
    /\ UNCHANGED part
    /\ \/ part = "controller" /\ Next /\ UNCHANGED treeVars
       \/ part = "tree" /\ TreeNext /\ UNCHANGED vars

MCSpec ==
    /\ MCInit
    /\ [][MCNext]_<<vars, treeVars, part>>
    /\ WF_vars(part = "controller" /\ (CreateReturns \/ CreateThrows))
    /\ WF_vars(part = "controller" /\ Tick)
    /\ WF_vars(part = "controller" /\ OnTimer)
    /\ SF_vars(part = "controller" /\ \E v \in 0..MaxEdits : SignatureResolves(v))
    /\ SF_vars(part = "controller" /\ \E v \in 0..MaxEdits : RefreshResolves(v))
    /\ WF_treeVars(part = "tree" /\ TreeProgress)
=============================================================================

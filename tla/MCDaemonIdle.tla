----------------------------- MODULE MCDaemonIdle -----------------------------
(***************************************************************************)
(* A small instance of BrokerDaemon for idle shutdown and ending grants.   *)
(* A behaviour has one of: a second connection, a command, or a connection *)
(* that sends hello messages before the earlier ones were answered.        *)
(***************************************************************************)
EXTENDS MCBrokerDaemon

VARIABLE scene

Untouched(k) ==
    /\ open[k] /\ k \in attached \ closing /\ auth[k] = "none"
    /\ \A i \in 1..MaxHellos : awaited[k][i] = "none"

OneStepAtATime == \A k \in Socket, i \in 2..MaxHellos : awaited[k][i] = "none"

MCNext ==
    /\ UNCHANGED scene
    /\ DaemonNext
    /\ scene # "producers" => Untouched(k2)' \/ (shuttingDown' /\ attached' \subseteq attached \cup {k1})
    /\ scene # "command" => UNCHANGED nextRequest
    /\ scene # "pipelined" => OneStepAtATime'

MCInit == DaemonInit /\ scene \in {"command", "producers", "pipelined"}

(* The fairness of DaemonFairSpec; no fair step is cut off by a scene. *)
MCSpec ==
    /\ MCInit
    /\ [][MCNext]_<<allVars, scene>>
    /\ \A d \in ClockSteps : WF_allVars(Tick(d))
    /\ WF_allVars(Sweep)
    /\ WF_allVars(IdleTimerFires)
    /\ \A k \in Socket : WF_allVars(k \in closing /\ HandleConnectionClose(k))
===============================================================================

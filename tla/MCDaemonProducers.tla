-------------------------- MODULE MCDaemonProducers --------------------------
(***************************************************************************)
(* A small instance of BrokerDaemon for producers that contest sessions.   *)
(* A behaviour has either two producers and pipelined hello steps, or one  *)
(* producer and a command while the clock stands still after a first sweep. *)
(***************************************************************************)
EXTENDS MCBrokerDaemon

VARIABLE scene

OneProducer == \A j, k \in Socket : principal[j] = principal[k]

MCNext ==
    /\ UNCHANGED scene
    /\ DaemonNext
    /\ scene = "pipelined" => UNCHANGED nextRequest
    /\ scene = "command" =>
          /\ \A k \in Socket, i \in 2..MaxHellos : awaited'[k][i] = "none"
          /\ OneProducer'
          /\ sincePrune' = 0

MCInit ==
    /\ DaemonInit
    /\ scene \in {"pipelined", "command"}
    /\ scene = "command" => OneProducer

MCSpec == MCInit /\ [][MCNext]_<<allVars, scene>>
==============================================================================

---------------------------- MODULE MCBrokerState ----------------------------
(* Small instances of BrokerState.                                          *)
EXTENDS BrokerState, TLC

CONSTANTS s1, s2, k1, k2

MCSid == {s1, s2}
MCSocket == {k1, k2}
MCSymmetry == Permutations(MCSid) \cup Permutations(MCSocket)
=============================================================================

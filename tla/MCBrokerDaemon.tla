---------------------------- MODULE MCBrokerDaemon ----------------------------
(* Small instances of BrokerDaemon.                                         *)
EXTENDS BrokerDaemon

CONSTANTS s1, s2, k1, k2, p1, p2

MCSid == {s1, s2}
MCSocket == {k1, k2}
MCPrincipal == {p1, p2}
MCSymmetry == Permutations(MCSid) \cup Permutations(MCSocket) \cup Permutations(MCPrincipal)
===============================================================================

-------------------------- MODULE MCDaemonLauncher --------------------------
(* Small instances of DaemonLauncher. *)
EXTENDS DaemonLauncher, TLC

CONSTANTS p1, p2, p3, d1, d2

MCProcess == {p1, p2, p3}
MCDaemon == {d1, d2}
MCWindows == Permutations(MCProcess) \cup Permutations(MCDaemon)
=============================================================================

--------------------------- MODULE DaemonLauncher ---------------------------
(***************************************************************************)
(* Starting one daemon from many processes: the launch lock and            *)
(* ensureSessionBrokerAvailable() of                                       *)
(* packages/hunk/src/session/broker/brokerLauncher.ts, and "hunk daemon    *)
(* restart" of packages/hunk/src/session/agent/daemonCommands.ts.          *)
(*                                                                         *)
(* Every window and every restart command is a process of its own, so an   *)
(* action is one system call on the lock file or one awaited answer, even  *)
(* where the code is synchronous.  A process may be killed between any two *)
(* of them.  A deadline may pass at any time.  Launch metadata, a hint     *)
(* only, and the restart of a daemon without the admin scope are left out. *)
(***************************************************************************)
EXTENDS Naturals, FiniteSets

CONSTANTS
    Process,       \* Hunk processes
    Restarter,     \* those that run "hunk daemon restart"; the others are windows
    NoProcess,
    Daemon,        \* daemons that may be running or starting at the same time
    MaxCrashes,    \* processes that are killed
    ProbesFail     \* whether the health probe of a running daemon may fail

ASSUME ProcessAssumption ==
    /\ NoProcess \notin Process
    /\ Restarter \subseteq Process
    /\ MaxCrashes \in Nat
    /\ ProbesFail \in BOOLEAN

VARIABLES
    lockFile,      \* [owner, written, old]; owner NoProcess: there is no file
    alive,         \* processes that were not killed
    pc,            \* [Process -> where it is]
    authorized,    \* [Process -> isCommitAuthorized()]
    found,         \* [Process -> whether the restart found a daemon]
    next,          \* [Process -> where it goes once the lock is released]
    dstate         \* [Daemon -> its state]

vars == <<lockFile, alive, pc, authorized, found, next, dstate>>

Window == Process \ Restarter

NoFile == [owner |-> NoProcess, written |-> FALSE, old |-> FALSE]

Init ==
    /\ lockFile = NoFile
    /\ alive = Process
    /\ pc = [p \in Process |-> "idle"]
    /\ authorized = [p \in Process |-> TRUE]
    /\ found = [p \in Process |-> FALSE]
    /\ next = [p \in Process |-> "idle"]
    /\ dstate = [d \in Daemon |-> "none"]

-----------------------------------------------------------------------------
(***************************************************************************)
(* Daemons.                                                                *)
(***************************************************************************)

Running(d) == dstate[d] \in {"listening", "stopping"}

Listening == \E d \in Daemon : Running(d)

(* isSessionBrokerHealthy() may answer b. *)
IsHealthy(b) == IF b THEN Listening ELSE ~Listening \/ ProbesFail

(* launchSessionBrokerDaemon() by p *)
LaunchDaemon(p) ==
    \E d \in Daemon :
        /\ dstate[d] = "none"
        /\ dstate' = [dstate EXCEPT ![d] = "starting"]

(* A daemon that starts takes the port, or exits because it is taken. *)
DaemonBinds(d) ==
    /\ dstate[d] = "starting"
    /\ dstate' = [dstate EXCEPT ![d] = IF Listening THEN "none" ELSE "listening"]
    /\ UNCHANGED <<lockFile, alive, pc, authorized, found, next>>

(* A daemon ends: it was idle, was asked to stop, or was killed. *)
DaemonExits(d) ==
    /\ Running(d)
    /\ dstate' = [dstate EXCEPT ![d] = "none"]
    /\ UNCHANGED <<lockFile, alive, pc, authorized, found, next>>

-----------------------------------------------------------------------------
(***************************************************************************)
(* tryAcquireDaemonLaunchLock() and release().                             *)
(***************************************************************************)

Goes(p, place) == pc' = [pc EXCEPT ![p] = place]

(* Where p goes with the lock, and without. *)
Acquired(p) == IF p \in Window THEN "protected" ELSE IF found[p] THEN "stop" ELSE "launch"
Denied(p) == IF p \in Window THEN "poll" ELSE "idle"

CreateLock_Overwrites(p) ==
    /\ pc[p] = "create"
    /\ Goes(p, "write")
    /\ lockFile' = [owner |-> p, written |-> FALSE, old |-> FALSE]
    /\ UNCHANGED <<alive, authorized, found, next, dstate>>

(* The exclusive open: the file is made, empty as yet, or is there.        *)
CreateLock(p) ==
    /\ pc[p] = "create"
    /\ \/ /\ lockFile = NoFile
          /\ lockFile' = [owner |-> p, written |-> FALSE, old |-> FALSE]
          /\ Goes(p, "write")
       \/ /\ lockFile # NoFile
          /\ Goes(p, "read")
          /\ UNCHANGED lockFile
    /\ UNCHANGED <<alive, authorized, found, next, dstate>>

(* The content is written to the file that was made, which may be unlinked *)
(* by now; the lock is held all the same.                                  *)
WriteLock(p) ==
    /\ pc[p] = "write"
    /\ lockFile' = [lockFile EXCEPT !.written = @ \/ lockFile.owner = p]
    /\ Goes(p, Acquired(p))
    /\ UNCHANGED <<alive, authorized, found, next, dstate>>

Removable_WhenOld == lockFile # NoFile /\ lockFile.old

(* The file names an owner that is dead, or has no content and is old.     *)
Removable ==
    /\ lockFile # NoFile
    /\ IF lockFile.written THEN lockFile.owner \notin alive ELSE lockFile.old

(* The existing file is read; it stays if it is gone by now or in use.     *)
ReadLock(p) ==
    /\ pc[p] = "read"
    /\ Goes(p, IF Removable THEN "remove" ELSE Denied(p))
    /\ UNCHANGED <<lockFile, alive, authorized, found, next, dstate>>

(* The file that is there now is removed, and the lock is tried again. *)
RemoveLock(p) ==
    /\ pc[p] = "remove"
    /\ lockFile' = NoFile
    /\ Goes(p, "create")
    /\ UNCHANGED <<alive, authorized, found, next, dstate>>

(* release(): the file is read, and removed if it names this process.      *)
ReadOwnLock(p) ==
    /\ pc[p] = "readOwn"
    /\ \/ /\ lockFile.written /\ lockFile.owner = p
          /\ Goes(p, "unlink")
          /\ UNCHANGED next
       \/ /\ ~(lockFile.written /\ lockFile.owner = p)
          /\ Goes(p, next[p])
          /\ next' = [next EXCEPT ![p] = "idle"]
    /\ UNCHANGED <<lockFile, alive, authorized, found, dstate>>

UnlinkLock(p) ==
    /\ pc[p] = "unlink"
    /\ lockFile' = NoFile
    /\ Goes(p, next[p])
    /\ next' = [next EXCEPT ![p] = "idle"]
    /\ UNCHANGED <<alive, authorized, found, dstate>>

(* p leaves the section the lock protects, for "place". *)
Release(p, place) == Goes(p, "readOwn") /\ next' = [next EXCEPT ![p] = place]

-----------------------------------------------------------------------------
(***************************************************************************)
(* ensureSessionBrokerAvailable() of a window, again and again.            *)
(***************************************************************************)

EnsureBegins(p) ==
    /\ p \in Window
    /\ pc[p] = "idle"
    /\ authorized[p]
    /\ Goes(p, "initial")
    /\ UNCHANGED <<lockFile, alive, authorized, found, next, dstate>>

InitialHealth(p) ==
    /\ pc[p] = "initial"
    /\ \E healthy \in BOOLEAN :
          /\ IsHealthy(healthy)
          /\ Goes(p, IF healthy \/ ~authorized[p] THEN "idle" ELSE "create")
    /\ UNCHANGED <<lockFile, alive, authorized, found, next, dstate>>

ProtectedHealth_LeavesLock(p) ==
    /\ pc[p] = "protected"
    /\ \E healthy \in BOOLEAN :
          /\ IsHealthy(healthy)
          /\ \/ /\ healthy \/ ~authorized[p]
                /\ Goes(p, "idle")
                /\ UNCHANGED <<next, dstate>>
             \/ /\ ~healthy /\ authorized[p]
                /\ LaunchDaemon(p)
                /\ Goes(p, "starting")
                /\ UNCHANGED next
    /\ UNCHANGED <<lockFile, alive, authorized, found>>

(* With the lock: the second look, and the launch. *)
ProtectedHealth(p) ==
    /\ pc[p] = "protected"
    /\ \E healthy \in BOOLEAN :
          /\ IsHealthy(healthy)
          /\ \/ /\ healthy \/ ~authorized[p]
                /\ Release(p, "idle")
                /\ UNCHANGED dstate
             \/ /\ ~healthy /\ authorized[p]
                /\ LaunchDaemon(p)
                /\ Goes(p, "starting")
                /\ UNCHANGED next
    /\ UNCHANGED <<lockFile, alive, authorized, found>>

(* The daemon answers, the attempt is over, or its deadline passes. *)
WaitForHealth(p) ==
    /\ pc[p] = "starting"
    /\ \/ (IsHealthy(TRUE) \/ ~authorized[p]) /\ Release(p, "idle")
       \/ authorized[p] /\ IsHealthy(FALSE) /\ Release(p, "poll")
    /\ UNCHANGED <<lockFile, alive, authorized, found, dstate>>

(* Without the lock: another process's daemon answers, the lock is tried   *)
(* again, or the attempt ends with an error.                               *)
Poll(p) ==
    /\ pc[p] = "poll"
    /\ \/ (IsHealthy(TRUE) \/ ~authorized[p]) /\ Goes(p, "idle")
       \/ authorized[p] /\ IsHealthy(FALSE) /\ (Goes(p, "create") \/ Goes(p, "idle"))
    /\ UNCHANGED <<lockFile, alive, authorized, found, next, dstate>>

(* The window's client is stopped: the attempt loses its authority. *)
Revoke(p) ==
    /\ p \in Window
    /\ authorized[p]
    /\ authorized' = [authorized EXCEPT ![p] = FALSE]
    /\ UNCHANGED <<lockFile, alive, pc, found, next, dstate>>

-----------------------------------------------------------------------------
(***************************************************************************)
(* runDaemonRestartCommand()                                               *)
(***************************************************************************)

(* The daemon is asked for its status, and the user for a confirmation.    *)
RestartBegins(p) ==
    /\ p \in Restarter
    /\ pc[p] = "idle"
    /\ \E status \in BOOLEAN :
          /\ IsHealthy(status)
          /\ found' = [found EXCEPT ![p] = status]
    /\ Goes(p, "create")
    /\ UNCHANGED <<lockFile, alive, authorized, next, dstate>>

(* requestStop() is accepted, or there is no daemon to take it. *)
RequestStop(p) ==
    /\ pc[p] = "stop"
    /\ \/ /\ Goes(p, "waitDown")
          /\ \E d \in Daemon :
                /\ Running(d)
                /\ dstate' = [dstate EXCEPT ![d] = "stopping"]
          /\ UNCHANGED next
       \/ /\ IsHealthy(FALSE)
          /\ Release(p, "idle")
          /\ UNCHANGED dstate
    /\ UNCHANGED <<lockFile, alive, authorized, found>>

(* The daemon no longer answers, or it takes too long. *)
WaitDown(p) ==
    /\ pc[p] = "waitDown"
    /\ \/ IsHealthy(FALSE) /\ Goes(p, "launch") /\ UNCHANGED next
       \/ IsHealthy(TRUE) /\ Release(p, "idle")
    /\ UNCHANGED <<lockFile, alive, authorized, found, dstate>>

Relaunch(p) ==
    /\ pc[p] = "launch"
    /\ LaunchDaemon(p)
    /\ Goes(p, "waitUp")
    /\ UNCHANGED <<lockFile, alive, authorized, found, next>>

(* A daemon answers, or the replacement did not become healthy. *)
WaitUp(p) ==
    /\ pc[p] = "waitUp"
    /\ Release(p, "idle")
    /\ UNCHANGED <<lockFile, alive, authorized, found, dstate>>

-----------------------------------------------------------------------------
(* A file that was left without content is older than staleAfterMs; a live *)
(* process is assumed to write sooner than that.                           *)
LockAges ==
    /\ lockFile # NoFile /\ ~lockFile.written /\ ~lockFile.old
    /\ lockFile.owner \notin alive
    /\ lockFile' = [lockFile EXCEPT !.old = TRUE]
    /\ UNCHANGED <<alive, pc, authorized, found, next, dstate>>

Crash(p) ==
    /\ Cardinality(Process \ alive) < MaxCrashes
    /\ alive' = alive \ {p}
    /\ UNCHANGED <<lockFile, pc, authorized, found, next, dstate>>

(* A step p takes on its own once it has begun. *)
Step(p) ==
    \/ InitialHealth(p) \/ CreateLock(p) \/ WriteLock(p) \/ ReadLock(p) \/ RemoveLock(p)
    \/ ProtectedHealth(p) \/ WaitForHealth(p) \/ ReadOwnLock(p) \/ UnlinkLock(p) \/ Poll(p)
    \/ RequestStop(p) \/ WaitDown(p) \/ Relaunch(p) \/ WaitUp(p)

Next ==
    \/ \E p \in alive : EnsureBegins(p) \/ RestartBegins(p) \/ Step(p) \/ Revoke(p) \/ Crash(p)
    \/ \E d \in Daemon : DaemonBinds(d) \/ DaemonExits(d)
    \/ LockAges

Spec == Init /\ [][Next]_vars

(***************************************************************************)
(* Fairness: a live process goes on, a window without a daemon asks for    *)
(* one again (its reconnect timer), and daemons start and stop in the end. *)
(***************************************************************************)
FairSpec ==
    /\ Spec
    /\ \A p \in Process : WF_vars(p \in alive /\ (Step(p) \/ EnsureBegins(p)))
    /\ WF_vars(LockAges)
    /\ \A d \in Daemon : /\ WF_vars(DaemonBinds(d))
                         /\ WF_vars(dstate[d] = "stopping" /\ DaemonExits(d))

-----------------------------------------------------------------------------
(***************************************************************************)
(* Properties.                                                             *)
(***************************************************************************)

Section == {"protected", "starting", "stop", "waitDown", "launch", "waitUp"}

(* The type invariant. *)
TypeOK ==
    /\ lockFile \in [owner : Process, written : BOOLEAN, old : BOOLEAN] \cup {NoFile}
    /\ alive \subseteq Process
    /\ pc \in [Process -> Section \cup {"idle", "initial", "create", "write", "read", "remove",
                                        "readOwn", "unlink", "poll"}]
    /\ authorized \in [Process -> BOOLEAN]
    /\ found \in [Process -> BOOLEAN]
    /\ next \in [Process -> {"idle", "poll"}]
    /\ dstate \in [Daemon -> {"none", "starting", "listening", "stopping"}]

(* The lock serializes who may spawn a daemon                              *)
(* (tryAcquireDaemonLaunchLock): one process at a time is in the section.  *)
LaunchesSerialized ==
    \A p, q \in alive : pc[p] \in Section /\ pc[q] \in Section => p = q

(* The lock does so while no process was killed, whatever probes fail and  *)
(* whichever attempts are called off.                                      *)
SerializedUnlessKilled == alive = Process => LaunchesSerialized

(* A live process never leaves its lock behind, whatever ends its attempt: *)
(* the file it owns is one it is still writing, holding or releasing.      *)
LockReleased ==
    lockFile.owner \in alive => pc[lockFile.owner] \in Section \cup {"write", "readOwn", "unlink"}

(* As long as one window lives and asks, a daemon comes up, also after a   *)
(* process died with the lock in its hands.                                *)
ServiceComesUp ==
    (\E p \in Window : [](p \in alive /\ authorized[p])) => []<>Listening
=============================================================================

------------------------ MODULE DaemonLauncherProofs ------------------------
(***************************************************************************)
(* The launch lock, proved for every number of processes and daemons.      *)
(***************************************************************************)
EXTENDS DaemonLauncher, TLAPS

(* Whoever the file names is still writing it, or wrote it and has not     *)
(* released it: what makes LockReleased inductive.  Killed processes stay  *)
(* where they were, so it speaks of them too.                              *)
Owned ==
    \A p \in Process :
        lockFile.owner = p =>
            \/ pc[p] = "write"
            \/ pc[p] \in Section \cup {"readOwn", "unlink"} /\ lockFile.written

(* While nobody is killed the file is never taken away, so a process that  *)
(* made it finds it until it removes it.                                   *)
Untouched ==
    /\ ~lockFile.old
    /\ \A p \in Process :
          /\ pc[p] # "remove"
          /\ pc[p] \in Section \cup {"write", "readOwn", "unlink"} => lockFile.owner = p

USE DEF vars, Goes, Release

-----------------------------------------------------------------------------
(* The type invariant, action by action. *)
LEMMA LauncherTypeStep == TypeOK /\ [Next]_vars => TypeOK'
<1> SUFFICES ASSUME TypeOK, [Next]_vars PROVE TypeOK'
  OBVIOUS
<1> USE DEF TypeOK, NoFile, Section
<1>1. ASSUME NEW p \in alive, EnsureBegins(p) \/ RestartBegins(p) \/ Revoke(p) \/ Crash(p)
      PROVE  TypeOK'
  BY <1>1 DEF EnsureBegins, RestartBegins, Revoke, Crash
<1>2. ASSUME NEW p \in alive, CreateLock(p) \/ WriteLock(p) \/ RemoveLock(p) \/ UnlinkLock(p)
      PROVE  TypeOK'
  <2>1. CASE CreateLock(p)
    <3>1. CASE lockFile = NoFile
      <4>1. lockFile' = [owner |-> p, written |-> FALSE, old |-> FALSE] /\ Goes(p, "write")
        BY <2>1, <3>1 DEF CreateLock
      <4>2. lockFile' \in [owner : Process, written : BOOLEAN, old : BOOLEAN]
        BY <4>1
      <4> QED
        BY <2>1, <4>1, <4>2 DEF CreateLock
    <3>2. CASE lockFile # NoFile
      BY <2>1, <3>2 DEF CreateLock
    <3> QED
      BY <3>1, <3>2
  <2>2. CASE WriteLock(p)
    <3>1. lockFile' \in [owner : Process, written : BOOLEAN, old : BOOLEAN] \cup {NoFile}
      <4>1. CASE lockFile = NoFile
        <5>1. lockFile.owner # p
          BY <4>1, ProcessAssumption
        <5> QED
          BY <2>2, <4>1, <5>1 DEF WriteLock
      <4>2. CASE lockFile \in [owner : Process, written : BOOLEAN, old : BOOLEAN]
        BY <2>2, <4>2 DEF WriteLock
      <4> QED
        BY <4>1, <4>2
    <3> QED
      BY <2>2, <3>1 DEF WriteLock, Acquired
  <2>3. CASE RemoveLock(p)
    BY <2>3 DEF RemoveLock
  <2>4. CASE UnlinkLock(p)
    BY <2>4 DEF UnlinkLock
  <2> QED
    BY <1>2, <2>1, <2>2, <2>3, <2>4
<1>3. ASSUME NEW p \in alive, InitialHealth(p) \/ ReadLock(p) \/ ReadOwnLock(p) \/ Poll(p)
      PROVE  TypeOK'
  BY <1>3 DEF InitialHealth, ReadLock, ReadOwnLock, Poll, Denied
<1>4. ASSUME NEW p \in alive, ProtectedHealth(p) \/ WaitForHealth(p)
      PROVE  TypeOK'
  <2>1. CASE WaitForHealth(p)
    BY <2>1 DEF WaitForHealth
  <2>2. CASE ProtectedHealth(p) /\ LaunchDaemon(p)
    BY <2>2 DEF ProtectedHealth, LaunchDaemon
  <2>3. CASE ProtectedHealth(p) /\ UNCHANGED dstate
    BY <2>3 DEF ProtectedHealth
  <2> QED
    BY <1>4, <2>1, <2>2, <2>3 DEF ProtectedHealth
<1>5. ASSUME NEW p \in alive, RequestStop(p) \/ WaitDown(p) \/ Relaunch(p) \/ WaitUp(p)
      PROVE  TypeOK'
  <2>1. CASE RequestStop(p)
    BY <2>1 DEF RequestStop
  <2>2. CASE WaitDown(p)
    BY <2>2 DEF WaitDown
  <2>3. CASE Relaunch(p)
    BY <2>3 DEF Relaunch, LaunchDaemon
  <2>4. CASE WaitUp(p)
    BY <2>4 DEF WaitUp
  <2> QED
    BY <1>5, <2>1, <2>2, <2>3, <2>4
<1>6. ASSUME NEW d \in Daemon, DaemonBinds(d) \/ DaemonExits(d)
      PROVE  TypeOK'
  BY <1>6 DEF DaemonBinds, DaemonExits
<1>7. CASE LockAges
  BY <1>7 DEF LockAges
<1>8. CASE UNCHANGED vars
  BY <1>8
<1> QED
  BY <1>1, <1>2, <1>3, <1>4, <1>5, <1>6, <1>7, <1>8 DEF Next, Step

(* The launcher's state has its type, for every number of processes,       *)
(* daemons and crashes.                                                    *)
THEOREM LauncherTypeCorrect == Spec => []TypeOK
<1>1. Init => TypeOK
  BY DEF Init, TypeOK
<1> QED
  BY <1>1, LauncherTypeStep, PTL DEF Spec
-----------------------------------------------------------------------------
(* What the actions of the section do to the lock: nothing, until they     *)
(* leave it for release().                                                 *)
LEMMA InsideSection ==
    ASSUME NEW p \in alive,
           \/ ProtectedHealth(p) \/ WaitForHealth(p)
           \/ RequestStop(p) \/ WaitDown(p) \/ Relaunch(p) \/ WaitUp(p)
    PROVE  /\ lockFile' = lockFile /\ alive' = alive
           /\ pc[p] \in Section
           /\ \E place \in Section \cup {"readOwn"} : Goes(p, place)
<1> USE DEF Section
<1>1. CASE ProtectedHealth(p)
  BY <1>1 DEF ProtectedHealth
<1>2. CASE WaitForHealth(p)
  BY <1>2 DEF WaitForHealth
<1>3. CASE RequestStop(p)
  BY <1>3 DEF RequestStop
<1>4. CASE WaitDown(p)
  BY <1>4 DEF WaitDown
<1>5. CASE Relaunch(p)
  BY <1>5 DEF Relaunch
<1>6. CASE WaitUp(p)
  BY <1>6 DEF WaitUp
<1> QED
  BY <1>1, <1>2, <1>3, <1>4, <1>5, <1>6

(* Nobody but p moves p: an action of another process leaves pc[p] alone. *)
LEMMA OwnedStep == TypeOK /\ Owned /\ [Next]_vars => Owned'
<1> SUFFICES ASSUME TypeOK, Owned, [Next]_vars PROVE Owned'
  OBVIOUS
<1> USE DEF TypeOK, Owned, Section
<1>1. ASSUME NEW p \in alive, EnsureBegins(p) \/ RestartBegins(p) \/ Revoke(p) \/ Crash(p)
      PROVE  Owned'
  BY <1>1 DEF EnsureBegins, RestartBegins, Revoke, Crash
<1>2. ASSUME NEW p \in alive, CreateLock(p) PROVE Owned'
  <2>1. CASE lockFile = NoFile
    <3>1. lockFile' = [owner |-> p, written |-> FALSE, old |-> FALSE] /\ Goes(p, "write")
      BY <1>2, <2>1 DEF CreateLock
    <3> QED
      BY <3>1
  <2>2. CASE lockFile # NoFile
    BY <1>2, <2>2 DEF CreateLock
  <2> QED
    BY <2>1, <2>2
<1>3. ASSUME NEW p \in alive, WriteLock(p) PROVE Owned'
  <2>1. /\ lockFile'.owner = lockFile.owner
        /\ lockFile.owner = p => lockFile'.written
        /\ lockFile.written => lockFile'.written
    BY <1>3 DEF WriteLock, NoFile
  <2>2. Goes(p, Acquired(p)) /\ Acquired(p) \in Section
    BY <1>3 DEF WriteLock, Acquired
  <2> QED
    BY <2>1, <2>2
<1>4. ASSUME NEW p \in alive, RemoveLock(p) \/ UnlinkLock(p) PROVE Owned'
  <2>1. lockFile'.owner = NoProcess
    BY <1>4 DEF RemoveLock, UnlinkLock, NoFile
  <2> QED
    BY <2>1, ProcessAssumption
<1>5. ASSUME NEW p \in alive, InitialHealth(p) \/ ReadLock(p) \/ Poll(p) PROVE Owned'
  BY <1>5 DEF InitialHealth, ReadLock, Poll
<1>6. ASSUME NEW p \in alive, ReadOwnLock(p) PROVE Owned'
  BY <1>6 DEF ReadOwnLock
<1>7. ASSUME NEW p \in alive,
             \/ ProtectedHealth(p) \/ WaitForHealth(p)
             \/ RequestStop(p) \/ WaitDown(p) \/ Relaunch(p) \/ WaitUp(p)
      PROVE  Owned'
  BY <1>7, InsideSection
<1>8. ASSUME NEW d \in Daemon, DaemonBinds(d) \/ DaemonExits(d) PROVE Owned'
  BY <1>8 DEF DaemonBinds, DaemonExits
<1>9. CASE LockAges
  <2>1. lockFile'.owner = lockFile.owner /\ lockFile'.written = lockFile.written /\ pc' = pc
    BY <1>9 DEF LockAges, NoFile
  <2> QED
    BY <2>1
<1>10. CASE UNCHANGED vars
  BY <1>10
<1> QED
  BY <1>1, <1>2, <1>3, <1>4, <1>5, <1>6, <1>7, <1>8, <1>9, <1>10 DEF Next, Step

(* A live process never leaves its lock file behind, whichever return,     *)
(* revocation, timeout or stolen file ends its attempt, and however many   *)
(* other processes are killed.                                             *)
THEOREM LockNeverLeaked == Spec => []LockReleased
<1>1. Init => TypeOK /\ Owned
  BY ProcessAssumption DEF Init, TypeOK, Owned, NoFile
<1>2. TypeOK /\ Owned /\ [Next]_vars => (TypeOK /\ Owned)'
  BY LauncherTypeStep, OwnedStep
<1>3. TypeOK /\ Owned => LockReleased
  BY DEF TypeOK, Owned, LockReleased
<1> QED
  BY <1>1, <1>2, <1>3, PTL DEF Spec

-----------------------------------------------------------------------------
(* Killed processes stay dead. *)
LEMMA NobodyRevives == [Next]_vars => alive' \subseteq alive
<1> SUFFICES ASSUME [Next]_vars PROVE alive' \subseteq alive
  OBVIOUS
<1>1. ASSUME NEW p \in alive, EnsureBegins(p) \/ RestartBegins(p) \/ Revoke(p) \/ Crash(p)
      PROVE  alive' \subseteq alive
  BY <1>1 DEF EnsureBegins, RestartBegins, Revoke, Crash
<1>2. ASSUME NEW p \in alive, Step(p) PROVE alive' = alive
  BY <1>2 DEF Step, InitialHealth, CreateLock, WriteLock, ReadLock, RemoveLock, ProtectedHealth,
              WaitForHealth, ReadOwnLock, UnlinkLock, Poll, RequestStop, WaitDown, Relaunch, WaitUp
<1>3. ASSUME NEW d \in Daemon, DaemonBinds(d) \/ DaemonExits(d) PROVE alive' = alive
  BY <1>3 DEF DaemonBinds, DaemonExits
<1>4. CASE LockAges \/ UNCHANGED vars
  BY <1>4 DEF LockAges
<1> QED
  BY <1>1, <1>2, <1>3, <1>4 DEF Next

(* Without a killed process no file is ever removed by a stranger. *)
LEMMA UntouchedStep == TypeOK /\ (alive = Process => Untouched) /\ [Next]_vars
                         => (alive = Process => Untouched)'
<1> SUFFICES ASSUME TypeOK, alive = Process => Untouched, [Next]_vars, alive' = Process
             PROVE  Untouched'
  OBVIOUS
<1>0. alive = Process /\ Untouched
  BY NobodyRevives DEF TypeOK
<1> USE <1>0 DEF TypeOK, Untouched, Section
<1>1. ASSUME NEW p \in alive, EnsureBegins(p) \/ RestartBegins(p) \/ Revoke(p)
      PROVE  Untouched'
  BY <1>1 DEF EnsureBegins, RestartBegins, Revoke
<1>2. ASSUME NEW p \in alive, Crash(p) PROVE FALSE
  BY <1>2 DEF Crash
<1>3. ASSUME NEW p \in alive, CreateLock(p) PROVE Untouched'
  <2>1. CASE lockFile = NoFile
    <3>1. lockFile' = [owner |-> p, written |-> FALSE, old |-> FALSE] /\ Goes(p, "write")
      BY <1>3, <2>1 DEF CreateLock
    <3>2. \A q \in Process : pc[q] \notin Section \cup {"write", "readOwn", "unlink"}
      BY <2>1, ProcessAssumption DEF NoFile
    <3> QED
      BY <1>3, <3>1, <3>2 DEF CreateLock
  <2>2. CASE lockFile # NoFile
    BY <1>3, <2>2 DEF CreateLock
  <2> QED
    BY <2>1, <2>2
<1>4. ASSUME NEW p \in alive, WriteLock(p) PROVE Untouched'
  <2>1. lockFile'.owner = lockFile.owner /\ lockFile'.old = lockFile.old
    BY <1>4 DEF WriteLock, NoFile
  <2>2. Goes(p, Acquired(p)) /\ Acquired(p) \in Section /\ alive' = alive
    BY <1>4 DEF WriteLock, Acquired
  <2> QED
    BY <1>4, <2>1, <2>2 DEF WriteLock
<1>5. ASSUME NEW p \in alive, RemoveLock(p) PROVE FALSE
  BY <1>5 DEF RemoveLock
<1>6. ASSUME NEW p \in alive, UnlinkLock(p) PROVE Untouched'
  <2>1. lockFile.owner = p
    BY <1>6 DEF UnlinkLock
  <2>2. \A q \in Process \ {p} : pc[q] \notin Section \cup {"write", "readOwn", "unlink"}
    BY <2>1
  <2>3. ~lockFile'.old /\ Goes(p, next[p]) /\ alive' = alive
    BY <1>6 DEF UnlinkLock, NoFile
  <2> QED
    BY <2>2, <2>3
<1>7. ASSUME NEW p \in alive, ReadLock(p) PROVE Untouched'
  <2>1. ~Removable
    BY DEF Removable, NoFile
  <2> QED
    BY <1>7, <2>1 DEF ReadLock, Denied
<1>8. ASSUME NEW p \in alive, InitialHealth(p) \/ ReadOwnLock(p) \/ Poll(p) PROVE Untouched'
  <2>1. CASE InitialHealth(p)
    BY <2>1 DEF InitialHealth
  <2>2. CASE ReadOwnLock(p)
    <3>1. lockFile' = lockFile /\ alive' = alive /\ lockFile.owner = p
      BY <2>2 DEF ReadOwnLock
    <3>2. \E place \in {"unlink", "idle", "poll"} : Goes(p, place)
      BY <2>2 DEF ReadOwnLock
    <3> QED
      BY <3>1, <3>2
  <2>3. CASE Poll(p)
    <3>1. lockFile' = lockFile /\ alive' = alive
      BY <2>3 DEF Poll
    <3>2. \E place \in {"create", "idle"} : Goes(p, place)
      BY <2>3 DEF Poll
    <3> QED
      BY <3>1, <3>2
  <2> QED
    BY <1>8, <2>1, <2>2, <2>3
<1>9. ASSUME NEW p \in alive,
             \/ ProtectedHealth(p) \/ WaitForHealth(p)
             \/ RequestStop(p) \/ WaitDown(p) \/ Relaunch(p) \/ WaitUp(p)
      PROVE  Untouched'
  BY <1>9, InsideSection
<1>10. ASSUME NEW d \in Daemon, DaemonBinds(d) \/ DaemonExits(d) PROVE Untouched'
  BY <1>10 DEF DaemonBinds, DaemonExits
<1>11. CASE LockAges
  BY <1>11 DEF LockAges, NoFile
<1>12. CASE UNCHANGED vars
  BY <1>12
<1> QED
  BY <1>1, <1>2, <1>3, <1>4, <1>5, <1>6, <1>7, <1>8, <1>9, <1>10, <1>11, <1>12
  DEF Next, Step

(* As long as no process was killed, at most one process at a time looks   *)
(* for the daemon under the lock, stops it or spawns it, for every number  *)
(* of windows and restarts.  (After a kill the code does not guarantee     *)
(* it.)                                                                    *)
THEOREM LaunchesAreSerialized == Spec => []SerializedUnlessKilled
<1> DEFINE Inv == TypeOK /\ (alive = Process => Untouched)
<1>1. Init => Inv
  BY ProcessAssumption DEF Init, TypeOK, Untouched, NoFile, Section
<1>2. Inv /\ [Next]_vars => Inv'
  BY LauncherTypeStep, UntouchedStep
<1>3. Inv => SerializedUnlessKilled
  BY DEF Untouched, LaunchesSerialized, SerializedUnlessKilled
<1> QED
  BY <1>1, <1>2, <1>3, PTL DEF Spec
=============================================================================

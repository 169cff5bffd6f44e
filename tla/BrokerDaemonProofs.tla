-------------------------- MODULE BrokerDaemonProofs --------------------------
(***************************************************************************)
(* Theorems about BrokerDaemon, for every set of connections, sessions and *)
(* producers, every limit, and any number of pipelined hello steps.        *)
(***************************************************************************)
EXTENDS BrokerDaemon, BrokerStateProofs

USE DaemonAssumption, IdentityAssumption, ClockAssumption

(* No two bindings of q are for one session.                               *)
DistinctBindings(q) == \A i, j \in 1..Len(q) : q[i].session = q[j].session => i = j

(* Filtering bindings keeps them distinct and adds none.                   *)
LEMMA FilteredBindings ==
    ASSUME NEW q \in Seq(Binding), DistinctBindings(q), NEW S, NEW f, f = Filtered(q, S)
    PROVE  /\ f \in Seq(Binding) /\ Len(f) <= Len(q)
           /\ DistinctBindings(f)
           /\ \A i \in 1..Len(f) : f[i] \in S
           /\ Remembered(f) \subseteq Remembered(q)
<1>1. f \in Seq(Binding) /\ Picture(q, S, Len(q), f)
  BY FilteredPicture
<1>2. Len(f) <= Len(q) /\ Len(f) \in Nat /\ Len(q) \in Nat
  BY <1>1, LenProperties DEF Picture
<1>3. PICK h \in [1..Len(f) -> 1..Len(q)] :
        /\ \A i \in 1..Len(f) : f[i] = q[h[i]] /\ q[h[i]] \in S
        /\ \A i, j \in 1..Len(f) : i < j => h[i] < h[j]
  BY <1>1 DEF Picture
<1>4. DistinctBindings(f)
  <2> SUFFICES ASSUME NEW i \in 1..Len(f), NEW j \in 1..Len(f),
                      f[i].session = f[j].session
               PROVE  i = j
    BY DEF DistinctBindings
  <2>1. h[i] \in 1..Len(q) /\ h[j] \in 1..Len(q) /\ f[i] = q[h[i]] /\ f[j] = q[h[j]]
    BY <1>3
  <2>2. h[i] = h[j]
    BY <2>1 DEF DistinctBindings
  <2>3. ~(i < j) /\ ~(j < i)
    BY <1>3, <2>1, <2>2
  <2> QED
    BY <1>2, <2>3
<1>5. Remembered(f) \subseteq Remembered(q)
  BY <1>3 DEF Remembered
<1> QED
  BY <1>1, <1>2, <1>3, <1>4, <1>5

(* Pruned bindings are sound if the bindings were.                         *)
LEMMA PrunedBindings ==
    ASSUME producerReconnects \in Seq(Binding), DistinctBindings(producerReconnects)
    PROVE  /\ PrunedReconnects \in Seq(Binding)
           /\ Len(PrunedReconnects) <= Len(producerReconnects)
           /\ DistinctBindings(PrunedReconnects)
           /\ Remembered(PrunedReconnects) \subseteq Remembered(producerReconnects)
BY FilteredBindings DEF PrunedReconnects

(* Remembering the owners of sessions nobody is remembered for leaves      *)
(* distinct bindings, no more than the limit, for those and earlier ones.  *)
LEMMA RememberSound ==
    ASSUME producerReconnects \in Seq(Binding), DistinctBindings(producerReconnects),
           principal \in [Socket -> Principal],
           NEW order \in Seq(Sid),
           \A i, j \in 1..Len(order) : order[i] = order[j] => i = j,
           \A i \in 1..Len(order) : /\ order[i] \notin Remembered(producerReconnects)
                                    /\ producerOwners[order[i]] \in Socket,
           NEW q, q = Remember(order)
    PROVE  /\ q \in Seq(Binding) /\ Len(q) <= maxSessions
           /\ DistinctBindings(q)
           /\ \A s \in Remembered(q) : \/ s \in Remembered(producerReconnects)
                                       \/ \E i \in 1..Len(order) : order[i] = s
<1> DEFINE old == PrunedReconnects
           new == [i \in 1..Len(order) |-> [session |-> order[i], age |-> 0,
                                            principal |-> principal[producerOwners[order[i]]]]]
           all == old \o new
           over == Len(all) - maxSessions
<1>1. /\ old \in Seq(Binding) /\ DistinctBindings(old)
      /\ Remembered(old) \subseteq Remembered(producerReconnects)
  BY PrunedBindings
<1>2. Len(order) \in Nat /\ order \in [1..Len(order) -> Sid]
  BY LenProperties
<1>3. new \in Seq(Binding) /\ Len(new) = Len(order)
  <2>1. \A i \in 1..Len(order) : new[i] \in Binding
    BY <1>2, ClockAssumption DEF Binding
  <2>2. new \in [1..Len(order) -> Binding]
    BY <2>1
  <2>3. new \in Seq(Binding)
    BY <1>2, <2>2
  <2>4. Len(new) = Len(order)
    BY <1>2
  <2> QED
    BY <2>3, <2>4
<1>4. \A i \in 1..Len(order) : new[i].session = order[i]
  OBVIOUS
<1> HIDE DEF old, new
<1>5. /\ all \in Seq(Binding) /\ Len(all) = Len(old) + Len(order)
      /\ \A i \in 1..Len(all) : all[i] = IF i <= Len(old) THEN old[i] ELSE new[i - Len(old)]
      /\ Len(old) \in Nat
  <2>1. /\ all \in Seq(Binding) /\ Len(all) = Len(old) + Len(new)
        /\ \A i \in 1..(Len(old) + Len(new)) :
              all[i] = IF i <= Len(old) THEN old[i] ELSE new[i - Len(old)]
    <3>1. old \in Seq(Binding) /\ new \in Seq(Binding)
      BY <1>1, <1>3
    <3> QED
      BY ONLY <3>1, ConcatProperties, Zenon DEF all
  <2>2. Len(old) \in Nat
    BY <1>1, LenProperties
  <2> QED
    BY <1>3, <2>1, <2>2
<1> HIDE DEF all
<1>6. ASSUME NEW i \in 1..Len(all)
      PROVE  IF i <= Len(old) THEN all[i].session \in Remembered(producerReconnects)
             ELSE i - Len(old) \in 1..Len(order) /\ all[i].session = order[i - Len(old)]
  <2>1. CASE i <= Len(old)
    <3>1. i \in 1..Len(old) /\ all[i] = old[i]
      BY <1>2, <1>5, <2>1
    <3> QED
      BY <1>1, <2>1, <3>1 DEF Remembered
  <2>2. CASE ~(i <= Len(old))
    <3>1. i - Len(old) \in 1..Len(order) /\ all[i] = new[i - Len(old)]
      BY <1>2, <1>5, <2>2
    <3> QED
      BY <1>4, <2>2, <3>1
  <2> QED
    BY <2>1, <2>2
<1>7. DistinctBindings(all)
  <2> SUFFICES ASSUME NEW i \in 1..Len(all), NEW j \in 1..Len(all),
                      all[i].session = all[j].session
               PROVE  i = j
    BY DEF DistinctBindings
  <2>1. CASE i <= Len(old) /\ j <= Len(old)
    <3>1. i \in 1..Len(old) /\ j \in 1..Len(old) /\ all[i] = old[i] /\ all[j] = old[j]
      BY <1>2, <1>5, <2>1
    <3> QED
      BY <1>1, <3>1 DEF DistinctBindings
  <2>2. CASE i > Len(old) /\ j > Len(old)
    <3>1. order[i - Len(old)] = order[j - Len(old)]
          /\ i - Len(old) \in 1..Len(order) /\ j - Len(old) \in 1..Len(order)
      BY <1>2, <1>5, <1>6, <2>2
    <3>2. i - Len(old) = j - Len(old)
      BY <3>1
    <3> QED
      BY <1>2, <1>5, <3>2
  <2>3. (i <= Len(old) /\ j <= Len(old)) \/ (i > Len(old) /\ j > Len(old))
    BY <1>2, <1>5, <1>6
  <2> QED
    BY <2>1, <2>2, <2>3
<1>8. \A s \in Remembered(all) : \/ s \in Remembered(producerReconnects)
                                 \/ \E i \in 1..Len(order) : order[i] = s
  <2> SUFFICES ASSUME NEW i \in 1..Len(all)
               PROVE  \/ all[i].session \in Remembered(producerReconnects)
                      \/ \E j \in 1..Len(order) : order[j] = all[i].session
    BY DEF Remembered
  <2> QED
    BY <1>6
<1>9. Len(all) \in Nat /\ maxSessions \in Nat
  BY <1>2, <1>5, LimitsAssumption
<1>10. q = IF Len(all) > maxSessions THEN SubSeq(all, over + 1, Len(all)) ELSE all
  BY DEF Remember, all, old, new
<1>11. CASE Len(all) > maxSessions
  <2>1. over \in Nat /\ over + Len(q) = Len(all) /\ Len(q) = maxSessions /\ q \in Seq(Binding)
        /\ \A i \in 1..Len(q) : q[i] = all[over + i]
    <3>1. \A i \in (over + 1)..Len(all) : all[i] \in Binding
      BY <1>5, <1>9, <1>11, LenProperties
    <3>2. /\ q \in Seq(Binding)
          /\ Len(q) = IF over + 1 <= Len(all) THEN Len(all) - (over + 1) + 1 ELSE 0
          /\ \A i \in 1..(Len(all) - (over + 1) + 1) : q[i] = all[(over + 1) + i - 1]
      BY <1>9, <1>10, <1>11, <3>1, SubSeqProperties
    <3> QED
      BY <1>9, <1>11, <3>2
  <2>2. \A i \in 1..Len(q) : over + i \in 1..Len(all) /\ q[i] = all[over + i]
    BY <1>9, <2>1
  <2>3. DistinctBindings(q)
    <3> SUFFICES ASSUME NEW i \in 1..Len(q), NEW j \in 1..Len(q),
                        q[i].session = q[j].session
                 PROVE  i = j
      BY DEF DistinctBindings
    <3>1. over + i = over + j
      BY <1>7, <2>2 DEF DistinctBindings
    <3> QED
      BY <2>1, <3>1
  <2>4. Remembered(q) \subseteq Remembered(all)
    BY <2>2 DEF Remembered
  <2> QED
    BY <1>8, <2>1, <2>3, <2>4, <1>9
<1>12. CASE ~(Len(all) > maxSessions)
  BY <1>5, <1>7, <1>8, <1>9, <1>10, <1>12
<1> QED
  BY <1>11, <1>12

-----------------------------------------------------------------------------
(* Only a connection in the middle of a hello has a step that may still    *)
(* take effect, and only an authenticated one is bound to a session.       *)
HelloSound ==
    \A k \in Socket :
        /\ auth[k] \in {"none", "authenticated"}
             => \A i \in 1..MaxHellos : awaited[k][i] \in {"none", "outdated"}
        /\ k \notin attached => auth[k] = "none"
        /\ boundSession[k] # NoSession => auth[k] = "authenticated"

(* An owner is bound to its session and to no other; one that lost its     *)
(* authentication is closed or being closed, is offered no challenge and   *)
(* so never gets it back.                                                  *)
OwnersBound ==
    \A s \in Sid : producerOwners[s] # NoSocket =>
        IF auth[producerOwners[s]] = "authenticated" THEN boundSession[producerOwners[s]] = s
        ELSE producerOwners[s] \notin attached \ closing /\ auth[producerOwners[s]] # "offered"

(* The daemon is shut down exactly when its broker is.                      *)
ShutdownAgrees == shuttingDown = shutdownError

(* The inductive invariant: the broker core's own, the properties, and the *)
(* three facts about hellos, owners and shutdown they rest on.             *)
DaemonIInv ==
    /\ IInv
    /\ DaemonTypeOK /\ OwnersTracked /\ BoundIsOwner /\ ReconnectsSound
    /\ HelloSound /\ OwnersBound /\ ShutdownAgrees
    /\ IdleTimerSound

(* The inductive invariant holds initially.                                *)
LEMMA DaemonInitIInv == DaemonInit => DaemonIInv
<1> SUFFICES ASSUME DaemonInit PROVE DaemonIInv
  OBVIOUS
<1>1. IInv /\ Init
  BY InitIInv DEF DaemonInit
<1>2. <<>> \in Seq(Binding) /\ Len(<<>>) = 0
  BY EmptySeq
<1>3. DaemonTypeOK
  <2>1. /\ auth \in [Socket -> AuthStates]
        /\ awaited \in [Socket -> [1..MaxHellos -> Steps]]
    BY DEF DaemonInit, AuthStates, Steps
  <2>2. /\ principal \in [Socket -> Principal]
        /\ boundSession \in [Socket -> Sid \cup {NoSession}]
        /\ producerOwners \in [Sid -> Socket \cup {NoSocket}]
        /\ producerReconnects \in Seq(Binding)
    BY <1>2 DEF DaemonInit
  <2>3. /\ attached \subseteq Socket
        /\ closing \subseteq attached
        /\ granted \subseteq Principal
        /\ idleFor \in 0..idleTimeout
    BY DEF DaemonInit
  <2>4. idleTimer \in BOOLEAN /\ shuttingDown \in BOOLEAN
    BY DEF DaemonInit
  <2> QED
    BY <2>1, <2>2, <2>3, <2>4 DEF DaemonTypeOK
<1>4. OwnersTracked /\ ShutdownAgrees
  BY <1>1 DEF DaemonInit, Init, OwnersTracked, ShutdownAgrees
<1>5. BoundIsOwner /\ HelloSound /\ OwnersBound
  BY DEF DaemonInit, BoundIsOwner, HelloSound, OwnersBound
<1>6. ReconnectsSound
  BY <1>2, LimitsAssumption DEF DaemonInit, ReconnectsSound, Remembered
<1>7. IdleTimerSound
  BY <1>1 DEF DaemonInit, Init, IdleTimerSound, Live
<1> QED
  BY <1>1, <1>3, <1>4, <1>5, <1>6, <1>7 DEF DaemonIInv

-----------------------------------------------------------------------------
(* A connection's close takes from the broker state what the daemon's owner*)
(* map says it owns.                                                       *)
LEMMA CloseRemoves ==
    ASSUME DaemonIInv, NEW k \in Socket, HandleConnectionClose(k),
           NEW S, S = (IF auth[k] = "authenticated" THEN HeldBy(k) ELSE {})
    PROVE  /\ S \in SUBSET Live /\ RemoveSessions(S)
           /\ \A s \in Sid : s \in S <=> producerOwners[s] = k /\ auth[k] = "authenticated"
           /\ OwnersTracked'
<1> USE DEF DaemonIInv
<1>1. \A s \in Sid : s \in HeldBy(k) <=> sessions[s] = k
  BY DEF HeldBy, IInv, TypeOK, OwnersAgree
<1>2. HeldBy(k) \subseteq Sid
  BY DEF HeldBy, IInv, TypeOK
<1>3. k # NoSocket
  BY IdentityAssumption
<1>4. S \in SUBSET Live
  BY <1>1, <1>2, <1>3 DEF Live
<1>5. \A s \in Sid : s \in S <=> producerOwners[s] = k /\ auth[k] = "authenticated"
  BY <1>1 DEF OwnersTracked
<1>6. RemoveSessions(S)
  BY DEF HandleConnectionClose
<1>7. producerOwners' = [s \in Sid |-> IF s \in S THEN NoSocket ELSE producerOwners[s]]
  <2>1. CASE auth[k] = "authenticated" /\ boundSession[k] # NoSession
                /\ producerOwners[boundSession[k]] = k
    <3>1. producerOwners' = [producerOwners EXCEPT ![boundSession[k]] = NoSocket]
      BY <2>1 DEF HandleConnectionClose
    <3>2. \A s \in Sid : s \in S <=> s = boundSession[k]
      BY <1>3, <1>5, <2>1 DEF OwnersBound, DaemonTypeOK
    <3> QED
      BY <3>1, <3>2 DEF DaemonTypeOK
  <2>2. CASE ~(auth[k] = "authenticated" /\ boundSession[k] # NoSession
                 /\ producerOwners[boundSession[k]] = k)
    <3>1. producerOwners' = producerOwners
      BY <2>2 DEF HandleConnectionClose
    <3>2. \A s \in Sid : s \notin S
      BY <1>3, <1>5, <2>2, IdentityAssumption DEF OwnersBound, DaemonTypeOK
    <3> QED
      BY <3>1, <3>2 DEF DaemonTypeOK
  <2> QED
    BY <2>1, <2>2
<1>8. OwnersTracked'
  BY <1>6, <1>7 DEF RemoveSessions, OwnersTracked
<1> QED
  BY <1>4, <1>5, <1>6, <1>8

(* A maintenance pulse takes from the broker state exactly the sessions of *)
(* the owners it retires.                                                  *)
LEMMA MaintainRemoves ==
    ASSUME DaemonIInv, Maintain
    PROVE  /\ Retired \in SUBSET Live /\ Pruned \subseteq Retired
           /\ RemoveSessions(Retired)
           /\ OwnersTracked'
<1> USE DEF DaemonIInv
<1> DEFINE connections == {producerOwners[s] : s \in Retired}
           S == Pruned \cup UNION {HeldBy(k) : k \in connections}
<1>1. Retired \in SUBSET Live
  BY DEF Retired, Live, OwnersTracked
<1>2. Pruned \subseteq Retired
  BY DEF Pruned, Stale, Retired, Live, OwnersTracked
<1>3. ASSUME NEW s \in Retired PROVE HeldBy(producerOwners[s]) = {s}
  <2>1. s \in Sid /\ sessions[s] # NoSocket /\ producerOwners[s] = sessions[s]
    BY <1>1 DEF Live, OwnersTracked
  <2>2. sessionIdsBySocket[sessions[s]] = s
    BY <2>1 DEF IInv, OwnersAgree
  <2> QED
    BY <2>1, <2>2, IdentityAssumption DEF HeldBy
<1>4. UNION {HeldBy(k) : k \in connections} = Retired
  BY <1>3
<1>5. S = Retired
  BY <1>2, <1>4
<1>6. RemoveSessions(S)
  BY DEF Maintain
<1>7. RemoveSessions(Retired)
  BY <1>5, <1>6
<1>8. producerOwners' = [s \in Sid |-> IF s \in Retired THEN NoSocket ELSE producerOwners[s]]
  BY DEF Maintain
<1>9. OwnersTracked'
  BY <1>7, <1>8 DEF RemoveSessions, OwnersTracked
<1> QED
  BY <1>1, <1>2, <1>7, <1>9

(* A registration gives the session to the connection and changes no other *)
(* owner: an authenticated connection owns nothing but what it is bound to.*)
LEMMA RegisterOwns ==
    ASSUME DaemonIInv, NEW k \in Socket, NEW s \in Sid, NEW b \in RetainedSizes,
           Register(k, s, b)
    PROVE  /\ sessions' = [sessions EXCEPT ![s] = k]
           /\ OwnersTracked'
<1> USE DEF DaemonIInv
<1>1. /\ auth[k] = "authenticated" /\ ~shuttingDown
      /\ boundSession[k] \in {NoSession, s}
  BY DEF Register, Authenticated
<1>2. k # NoSocket /\ NoSession \notin Sid
  BY IdentityAssumption
<1>3. \A t \in Sid : sessions[t] = k => t = s
  BY <1>1, <1>2 DEF OwnersTracked, OwnersBound
<1>4. sessionIdsBySocket[k] \in {NoSession, s}
  BY <1>2, <1>3 DEF IInv, TypeOK, OwnersAgree
<1>5. Renamed(k, s) = {}
  BY <1>4 DEF Renamed
<1>6. sessions' = [x \in Sid |-> IF x = s THEN k ELSE IF x \in Renamed(k, s) THEN NoSocket
                                ELSE sessions[x]]
  BY DEF Register, RegisterSession
<1>7. sessions' = [sessions EXCEPT ![s] = k]
  BY <1>5, <1>6 DEF IInv, TypeOK
<1>8. producerOwners' = [producerOwners EXCEPT ![s] = k]
  BY DEF Register
<1> QED
  BY <1>7, <1>8 DEF OwnersTracked

-----------------------------------------------------------------------------
(* A step of the daemon is an operation of the broker core, or leaves it   *)
(* alone.                                                                  *)
LEMMA DaemonOperates ==
    ASSUME DaemonIInv, DaemonNext
    PROVE  Operation \/ UNCHANGED vars
<1> DEFINE Operates == Operation \/ UNCHANGED vars
<1> USE DEF DaemonIInv
<1>1. ASSUME NEW k \in Socket, NEW s \in Sid, NEW b \in RetainedSizes, Register(k, s, b)
      PROVE  Operates
  <2>1. (Replaced(k, s) # {}) \in BOOLEAN /\ RegisterSession(k, s, b, Replaced(k, s) # {})
    BY <1>1 DEF Register
  <2>2. SessionOperation
    BY <2>1 DEF SessionOperation
  <2> QED
    BY <2>2 DEF Operation
<1>2. ASSUME NEW k \in Socket, NEW b \in RetainedSizes, Snapshot(k, b) PROVE Operates
  BY <1>2 DEF Snapshot, Operation, SessionOperation
<1>3. ASSUME NEW k \in Socket, Heartbeat(k) PROVE Operates
  BY <1>3 DEF Heartbeat, Operation, SessionOperation
<1>4. ASSUME NEW k \in Socket, NEW r \in Disclosed, NEW ok \in BOOLEAN, CommandResult(k, r, ok)
      PROVE  Operates
  BY <1>4 DEF CommandResult, Operation, CommandOperation
<1>5. ASSUME NEW k \in Socket, HandleConnectionClose(k) PROVE Operates
  <2>1. PICK S \in SUBSET Live : RemoveSessions(S)
    BY <1>5, CloseRemoves
  <2>2. open' \in [Socket -> BOOLEAN] /\ sincePrune' \in -1..(ttl + 1)
        /\ UNCHANGED <<silence, shutdownError>>
    BY <1>5 DEF HandleConnectionClose, IInv, TypeOK
  <2>3. RemoveOperation
    BY <2>1, <2>2 DEF RemoveOperation
  <2> QED
    BY <2>3 DEF Operation
<1>6. ASSUME Maintain PROVE Operates
  <2>1. PICK S \in SUBSET Live : RemoveSessions(S)
    BY <1>6, MaintainRemoves
  <2>2. open' \in [Socket -> BOOLEAN] /\ sincePrune' \in -1..(ttl + 1)
        /\ UNCHANGED <<silence, shutdownError>>
    BY <1>6 DEF Maintain, IInv, TypeOK
  <2>3. RemoveOperation
    BY <2>1, <2>2 DEF RemoveOperation
  <2> QED
    BY <2>3 DEF Operation
<1>7. ASSUME ShutdownDaemon PROVE Operates
  BY <1>7 DEF ShutdownDaemon, Operation
<1>8. ASSUME NEW s \in Sid, NEW b \in CommandSizes, ApiDispatch(s, b) PROVE Operates
  BY <1>8 DEF ApiDispatch, Operation, CommandOperation
<1>9. ASSUME NEW r \in Request, TimerFires(r) PROVE Operates
  BY <1>9 DEF TimerFires, Operation, CommandOperation
<1>10. ASSUME NEW k \in Socket, Dies(k) PROVE Operates
  BY <1>10 DEF Dies, Operation
<1>11. ASSUME NEW k \in Socket, NEW p \in Principal, Connects(k, p) PROVE Operates
  BY <1>11 DEF Connects, Operation
<1>12. ASSUME NEW d \in ClockSteps, Tick(d) PROVE Operates
  BY <1>12 DEF Tick, Operation
<1>13. ASSUME NEW k \in Socket, NEW i \in 1..MaxHellos,
              HelloInit(k, i) \/ HelloProof(k, i) \/ ChallengeIssued(k, i)
                \/ ProofAccepted(k, i) \/ HelloIgnored(k, i) \/ HelloFailed(k, i)
       PROVE  Operates
  BY <1>13 DEF HelloInit, HelloProof, ChallengeIssued, ProofAccepted, HelloIgnored, HelloFailed
<1>14. ASSUME NEW k \in Socket, HelloMalformed(k) \/ MessageRefused(k) PROVE Operates
  BY <1>14 DEF HelloMalformed, MessageRefused
<1>15. ASSUME NEW p \in Revocable, GrantEnds(p) PROVE Operates
  BY <1>15 DEF GrantEnds
<1>16. ASSUME ApiRequest PROVE Operates
  BY <1>16 DEF ApiRequest
<1> QED
  BY <1>1, <1>2, <1>3, <1>4, <1>5, <1>6, <1>7, <1>8, <1>9, <1>10, <1>11, <1>12, <1>13, <1>14,
     <1>15, <1>16
  DEF DaemonNext, Sweep, Health, IdleTimerFires, StopRequested

(* The broker core's inductive invariant is kept by every step that leaves *)
(* its state alone.                                                        *)
LEMMA IInvFrame ==
    ASSUME IInv, UNCHANGED vars
    PROVE  IInv'
BY NextIInv

(* So the broker core keeps its inductive invariant under the daemon.      *)
LEMMA BrokerStep ==
    ASSUME DaemonIInv, DaemonNext
    PROVE  IInv'
<1>1. CASE Operation
  BY <1>1, OperationIInv DEF DaemonIInv
<1>2. CASE UNCHANGED vars
  BY <1>2, IInvFrame DEF DaemonIInv
<1> QED
  BY <1>1, <1>2, DaemonOperates

-----------------------------------------------------------------------------
(* The steps that move no session; a failing send may close a connection.  *)
QuietStep ==
    /\ UNCHANGED <<auth, boundSession, awaited, attached, principal, producerOwners, sessions,
                   shuttingDown, shutdownError>>
    /\ closing \subseteq closing' /\ closing' \subseteq attached
    /\ granted' \subseteq granted
    /\ \/ NoteActivity /\ UNCHANGED producerReconnects
       \/ UNCHANGED <<idleTimer, idleFor, producerReconnects>>
       \/ \E d \in ClockSteps : Tick(d)

(* The steps of a hello.                                                   *)
HelloStep ==
    /\ UNCHANGED <<vars, attached, principal, bindVars, idleVars, granted, shuttingDown>>
    /\ \/ \E k \in Socket, i \in 1..MaxHellos :
             \/ HelloInit(k, i) \/ HelloProof(k, i) \/ ChallengeIssued(k, i)
             \/ ProofAccepted(k, i) \/ HelloIgnored(k, i) \/ HelloFailed(k, i)
       \/ \E k \in Socket : HelloMalformed(k)

(* A shutdown closes some of the attached sockets.                          *)
StopStep == ShutdownDaemon /\ closing \subseteq closing' /\ closing' \subseteq attached

(* The kinds of step of the daemon.                                        *)
LEMMA DaemonCases ==
    ASSUME DaemonTypeOK, DaemonNext
    PROVE  \/ \E k \in Socket, s \in Sid, b \in RetainedSizes : Register(k, s, b)
           \/ \E k \in Socket : HandleConnectionClose(k)
           \/ Maintain
           \/ StopStep
           \/ \E k \in Socket, p \in Principal : Connects(k, p)
           \/ \E k \in Socket : MessageRefused(k)
           \/ HelloStep
           \/ QuietStep
<1> USE DEF DaemonTypeOK
<1>1. ASSUME NEW k \in Socket, NEW b \in RetainedSizes, Snapshot(k, b) PROVE QuietStep
  BY <1>1 DEF Snapshot, UpdateSnapshot, QuietStep, helloVars, linkVars, ownerVars, bindVars
<1>2. ASSUME NEW k \in Socket, Heartbeat(k) PROVE QuietStep
  BY <1>2 DEF Heartbeat, MarkSessionSeen, QuietStep, helloVars, linkVars, ownerVars, bindVars
<1>3. ASSUME NEW k \in Socket, NEW r, NEW ok \in BOOLEAN, CommandResult(k, r, ok)
      PROVE  QuietStep
  BY <1>3 DEF CommandResult, HandleCommandResult, QuietStep, helloVars, linkVars, ownerVars,
              bindVars
<1>4. ASSUME NEW s \in Sid, NEW b \in CommandSizes, ApiDispatch(s, b) PROVE QuietStep
  BY <1>4 DEF ApiDispatch, DispatchCommand, SendsGranted, QuietStep, helloVars,
              ownerVars, bindVars, idleVars
<1>5. ASSUME NEW r \in Request, TimerFires(r) PROVE QuietStep
  BY <1>5 DEF TimerFires, CommandTimeout, SendsGranted, QuietStep, helloVars,
              ownerVars, bindVars, idleVars
<1>6. ASSUME NEW k \in Socket, Dies(k) PROVE QuietStep
  BY <1>6 DEF Dies, TransportDies, QuietStep, daemonVars, helloVars, linkVars, ownerVars,
              bindVars, idleVars
<1>7. ASSUME NEW d \in ClockSteps, Tick(d) PROVE QuietStep
  BY <1>7 DEF Tick, ClockAdvances, QuietStep, helloVars, linkVars, ownerVars
<1>8. ASSUME NEW p \in Revocable, GrantEnds(p) PROVE QuietStep
  BY <1>8 DEF GrantEnds, QuietStep, vars, helloVars, linkVars, ownerVars, bindVars, idleVars
<1>9. ASSUME ApiRequest PROVE QuietStep
  BY <1>9 DEF ApiRequest, QuietStep, vars, helloVars, linkVars, ownerVars, bindVars
<1>10. ASSUME NEW k \in Socket, NEW i \in 1..MaxHellos,
              HelloInit(k, i) \/ HelloProof(k, i) \/ ChallengeIssued(k, i)
                \/ ProofAccepted(k, i) \/ HelloIgnored(k, i) \/ HelloFailed(k, i)
       PROVE  HelloStep
  <2>1. UNCHANGED <<vars, attached, principal, bindVars, idleVars, granted, shuttingDown>>
    BY <1>10 DEF HelloInit, HelloProof, ChallengeIssued, ProofAccepted, HelloIgnored,
                 HelloFailed, linkVars
  <2> QED
    BY <1>10, <2>1 DEF HelloStep
<1>11. ASSUME NEW k \in Socket, HelloMalformed(k) PROVE HelloStep
  BY <1>11 DEF HelloMalformed, HelloStep
<1>12. ASSUME IdleTimerFires \/ StopRequested PROVE StopStep
  BY <1>12 DEF IdleTimerFires, StopRequested, StopStep, DaemonTypeOK
<1> QED
  BY <1>1, <1>2, <1>3, <1>4, <1>5, <1>6, <1>7, <1>8, <1>9, <1>10, <1>11, <1>12
  DEF DaemonNext, Sweep, Health

(* Every step keeps the two owner maps equal.                              *)
LEMMA OwnersTrackedStep ==
    ASSUME DaemonIInv, DaemonNext
    PROVE  OwnersTracked'
<1> USE DEF DaemonIInv
<1>a. ASSUME UNCHANGED <<sessions, producerOwners>> PROVE OwnersTracked'
  BY <1>a DEF OwnersTracked
<1>1. ASSUME StopStep PROVE OwnersTracked'
  BY <1>1 DEF StopStep, ShutdownDaemon, Shutdown, OwnersTracked
<1>2. ASSUME NEW k \in Socket, NEW p \in Principal, Connects(k, p) PROVE OwnersTracked'
  BY <1>2, <1>a DEF Connects, TransportOpens, ownerVars, bindVars
<1>3. ASSUME NEW k \in Socket, MessageRefused(k) PROVE OwnersTracked'
  BY <1>3, <1>a DEF MessageRefused, vars, ownerVars
<1>4. ASSUME HelloStep PROVE OwnersTracked'
  BY <1>4, <1>a DEF HelloStep, vars, ownerVars, bindVars
<1>5. ASSUME QuietStep PROVE OwnersTracked'
  BY <1>5, <1>a DEF QuietStep
<1> QED
  BY <1>1, <1>2, <1>3, <1>4, <1>5, RegisterOwns, CloseRemoves, MaintainRemoves, DaemonCases

(* The daemon and its broker core shut down together.                      *)
LEMMA ShutdownAgreesStep ==
    ASSUME DaemonIInv, DaemonNext
    PROVE  ShutdownAgrees'
<1> USE DEF DaemonIInv, ShutdownAgrees
<1>1. ASSUME NEW k \in Socket, NEW s \in Sid, NEW b \in RetainedSizes, Register(k, s, b)
      PROVE  ShutdownAgrees'
  BY <1>1 DEF Register, RegisterSession
<1>2. ASSUME NEW k \in Socket, HandleConnectionClose(k) PROVE ShutdownAgrees'
  BY <1>2 DEF HandleConnectionClose
<1>3. ASSUME Maintain PROVE ShutdownAgrees'
  BY <1>3 DEF Maintain
<1>4. ASSUME StopStep PROVE ShutdownAgrees'
  BY <1>4 DEF StopStep, ShutdownDaemon, Shutdown
<1>5. ASSUME NEW k \in Socket, NEW p \in Principal, Connects(k, p) PROVE ShutdownAgrees'
  BY <1>5 DEF Connects, TransportOpens
<1>6. ASSUME NEW k \in Socket, MessageRefused(k) PROVE ShutdownAgrees'
  BY <1>6 DEF MessageRefused, vars
<1>7. ASSUME HelloStep PROVE ShutdownAgrees'
  BY <1>7 DEF HelloStep, vars
<1>8. ASSUME QuietStep PROVE ShutdownAgrees'
  BY <1>8 DEF QuietStep
<1> QED
  BY <1>1, <1>2, <1>3, <1>4, <1>5, <1>6, <1>7, <1>8, DaemonCases

(* Every step keeps the hellos sound.                                      *)
LEMMA HelloSoundStep ==
    ASSUME DaemonIInv, DaemonNext
    PROVE  HelloSound'
<1> USE DEF DaemonIInv, HelloSound, DaemonTypeOK
<1>1. ASSUME NEW k \in Socket, NEW s \in Sid, NEW b \in RetainedSizes, Register(k, s, b)
      PROVE  HelloSound'
  BY <1>1 DEF Register, Authenticated, Retire, Replaced, Outdated
<1>2. ASSUME NEW k \in Socket, HandleConnectionClose(k) PROVE HelloSound'
  BY <1>2 DEF HandleConnectionClose, Outdated
<1>3. ASSUME Maintain PROVE HelloSound'
  BY <1>3 DEF Maintain, Outdated
<1>4. ASSUME StopStep PROVE HelloSound'
  BY <1>4 DEF StopStep, ShutdownDaemon, helloVars
<1>5. ASSUME NEW k \in Socket, NEW p \in Principal, Connects(k, p) PROVE HelloSound'
  BY <1>5 DEF Connects, helloVars
<1>6. ASSUME NEW k \in Socket, MessageRefused(k) PROVE HelloSound'
  BY <1>6 DEF MessageRefused, helloVars
<1>7. ASSUME NEW k \in Socket, NEW i \in 1..MaxHellos, HelloInit(k, i) PROVE HelloSound'
  BY <1>7 DEF HelloInit, Receives, linkVars
<1>8. ASSUME NEW k \in Socket, NEW i \in 1..MaxHellos, HelloProof(k, i) PROVE HelloSound'
  BY <1>8 DEF HelloProof, Receives, linkVars
<1>9. ASSUME NEW k \in Socket, NEW i \in 1..MaxHellos, ChallengeIssued(k, i) PROVE HelloSound'
  BY <1>9 DEF ChallengeIssued, Resumed, linkVars
<1>10. ASSUME NEW k \in Socket, NEW i \in 1..MaxHellos, ProofAccepted(k, i) PROVE HelloSound'
  BY <1>10 DEF ProofAccepted, StillCurrent, Outdated, linkVars
<1>11. ASSUME NEW k \in Socket, NEW i \in 1..MaxHellos, HelloIgnored(k, i) PROVE HelloSound'
  BY <1>11 DEF HelloIgnored, Resumed, linkVars
<1>12. ASSUME NEW k \in Socket, NEW i \in 1..MaxHellos, HelloFailed(k, i) PROVE HelloSound'
  BY <1>12 DEF HelloFailed, Reject, Outdated
<1>13. ASSUME NEW k \in Socket, HelloMalformed(k) PROVE HelloSound'
  BY <1>13 DEF HelloMalformed, Reject, Outdated
<1>14. ASSUME QuietStep PROVE HelloSound'
  BY <1>14 DEF QuietStep
<1> QED
  BY <1>1, <1>2, <1>3, <1>4, <1>5, <1>6, <1>7, <1>8, <1>9, <1>10, <1>11, <1>12, <1>13, <1>14,
     DaemonCases
  DEF HelloStep

(* Every step keeps an owner bound to its one session, or on its way out.  *)
LEMMA OwnersBoundStep ==
    ASSUME DaemonIInv, DaemonNext
    PROVE  OwnersBound'
<1> USE DEF DaemonIInv, HelloSound, OwnersBound, BoundIsOwner, DaemonTypeOK
<1>1. ASSUME NEW k \in Socket, NEW s \in Sid, NEW b \in RetainedSizes, Register(k, s, b)
      PROVE  OwnersBound'
  BY <1>1 DEF Register, Authenticated, Retire, Replaced
<1>2. ASSUME NEW k \in Socket, HandleConnectionClose(k) PROVE OwnersBound'
  BY <1>2 DEF HandleConnectionClose
<1>3. ASSUME Maintain PROVE OwnersBound'
  BY <1>3 DEF Maintain, Retired, Authority
<1>4. ASSUME StopStep PROVE OwnersBound'
  BY <1>4 DEF StopStep, ShutdownDaemon, helloVars
<1>5. ASSUME NEW k \in Socket, NEW p \in Principal, Connects(k, p) PROVE OwnersBound'
  BY <1>5 DEF Connects, helloVars, bindVars
<1>6. ASSUME NEW k \in Socket, MessageRefused(k) PROVE OwnersBound'
  BY <1>6 DEF MessageRefused, helloVars
<1> USE DEF bindVars
<1>7. ASSUME NEW k \in Socket, NEW i \in 1..MaxHellos, HelloInit(k, i) PROVE OwnersBound'
  BY <1>7 DEF HelloInit, Receives, linkVars
<1>8. ASSUME NEW k \in Socket, NEW i \in 1..MaxHellos, HelloProof(k, i) PROVE OwnersBound'
  BY <1>8 DEF HelloProof, Receives, linkVars
<1>9. ASSUME NEW k \in Socket, NEW i \in 1..MaxHellos, ChallengeIssued(k, i) PROVE OwnersBound'
  <2>1. awaited[k][i] = "issue" /\ i \in 1..MaxHellos
    BY <1>9 DEF ChallengeIssued
  <2>2. auth[k] \notin {"none", "authenticated"} /\ k \in attached
    BY <2>1
  <2>3. auth' = [auth EXCEPT ![k] = IF shuttingDown \/ k \in closing THEN @ ELSE "offered"]
        /\ UNCHANGED <<boundSession, attached, closing, producerOwners>>
    BY <1>9 DEF ChallengeIssued, linkVars
  <2>4. CASE shuttingDown \/ k \in closing
    BY <2>3, <2>4
  <2>5. CASE ~(shuttingDown \/ k \in closing)
    <3>1. \A s \in Sid : producerOwners[s] # k
      BY <2>2, <2>5, IdentityAssumption
    <3> QED
      BY <2>3, <3>1
  <2> QED
    BY <2>4, <2>5
<1>10. ASSUME NEW k \in Socket, NEW i \in 1..MaxHellos, ProofAccepted(k, i) PROVE OwnersBound'
  BY <1>10 DEF ProofAccepted, StillCurrent, Outdated, linkVars
<1>11. ASSUME NEW k \in Socket, NEW i \in 1..MaxHellos, HelloIgnored(k, i) PROVE OwnersBound'
  BY <1>11 DEF HelloIgnored, Resumed, linkVars
<1>12. ASSUME NEW k \in Socket, NEW i \in 1..MaxHellos, HelloFailed(k, i) PROVE OwnersBound'
  BY <1>12 DEF HelloFailed, Reject, Outdated
<1>13. ASSUME NEW k \in Socket, HelloMalformed(k) PROVE OwnersBound'
  BY <1>13 DEF HelloMalformed, Reject, Outdated
<1>14. ASSUME QuietStep PROVE OwnersBound'
  BY <1>14 DEF QuietStep
<1> QED
  BY <1>1, <1>2, <1>3, <1>4, <1>5, <1>6, <1>7, <1>8, <1>9, <1>10, <1>11, <1>12, <1>13, <1>14,
     DaemonCases
  DEF HelloStep

(* Every step keeps a bound connection the owner of what it is bound to.   *)
LEMMA BoundIsOwnerStep ==
    ASSUME DaemonIInv, DaemonNext
    PROVE  BoundIsOwner'
<1> USE DEF DaemonIInv, HelloSound, OwnersBound, BoundIsOwner, DaemonTypeOK
<1>1. ASSUME NEW k \in Socket, NEW s \in Sid, NEW b \in RetainedSizes, Register(k, s, b)
      PROVE  BoundIsOwner'
  BY <1>1 DEF Register, Authenticated, Retire, Replaced
<1>2. ASSUME NEW k \in Socket, HandleConnectionClose(k) PROVE BoundIsOwner'
  BY <1>2 DEF HandleConnectionClose
<1>3. ASSUME Maintain PROVE BoundIsOwner'
  BY <1>3 DEF Maintain, Retired, Authority
<1>4. ASSUME StopStep PROVE BoundIsOwner'
  BY <1>4 DEF StopStep, ShutdownDaemon, helloVars
<1>5. ASSUME NEW k \in Socket, NEW p \in Principal, Connects(k, p) PROVE BoundIsOwner'
  BY <1>5 DEF Connects, helloVars, bindVars
<1>6. ASSUME NEW k \in Socket, MessageRefused(k) PROVE BoundIsOwner'
  BY <1>6 DEF MessageRefused, helloVars
<1> USE DEF bindVars
<1>7. ASSUME NEW k \in Socket, NEW i \in 1..MaxHellos, HelloInit(k, i) PROVE BoundIsOwner'
  BY <1>7 DEF HelloInit, Receives, linkVars
<1>8. ASSUME NEW k \in Socket, NEW i \in 1..MaxHellos, HelloProof(k, i) PROVE BoundIsOwner'
  BY <1>8 DEF HelloProof, Receives, linkVars
<1>9. ASSUME NEW k \in Socket, NEW i \in 1..MaxHellos, ChallengeIssued(k, i) PROVE BoundIsOwner'
  BY <1>9 DEF ChallengeIssued, Resumed, linkVars
<1>10. ASSUME NEW k \in Socket, NEW i \in 1..MaxHellos, ProofAccepted(k, i) PROVE BoundIsOwner'
  BY <1>10 DEF ProofAccepted, StillCurrent, Outdated, linkVars
<1>11. ASSUME NEW k \in Socket, NEW i \in 1..MaxHellos, HelloIgnored(k, i) PROVE BoundIsOwner'
  BY <1>11 DEF HelloIgnored, Resumed, linkVars
<1>12. ASSUME NEW k \in Socket, NEW i \in 1..MaxHellos, HelloFailed(k, i) PROVE BoundIsOwner'
  BY <1>12 DEF HelloFailed, Reject, Outdated
<1>13. ASSUME NEW k \in Socket, HelloMalformed(k) PROVE BoundIsOwner'
  BY <1>13 DEF HelloMalformed, Reject, Outdated
<1>14. ASSUME QuietStep PROVE BoundIsOwner'
  BY <1>14 DEF QuietStep
<1> QED
  BY <1>1, <1>2, <1>3, <1>4, <1>5, <1>6, <1>7, <1>8, <1>9, <1>10, <1>11, <1>12, <1>13, <1>14,
     DaemonCases
  DEF HelloStep

(* The members of a filtered sequence of bindings, as the code uses them.  *)
LEMMA WithoutBindings ==
    ASSUME DaemonIInv, NEW s \in Sid, NEW q, q = Without(PrunedReconnects, s)
    PROVE  /\ q \in Seq(Binding) /\ Len(q) <= maxSessions
           /\ DistinctBindings(q)
           /\ Remembered(q) \subseteq Remembered(producerReconnects) \ {s}
<1> DEFINE p == PrunedReconnects
<1>1. producerReconnects \in Seq(Binding) /\ DistinctBindings(producerReconnects)
      /\ Len(producerReconnects) <= maxSessions
  BY DEF DaemonIInv, DaemonTypeOK, ReconnectsSound, DistinctBindings
<1>2. /\ p \in Seq(Binding) /\ Len(p) <= Len(producerReconnects) /\ DistinctBindings(p)
      /\ Remembered(p) \subseteq Remembered(producerReconnects)
  BY <1>1, PrunedBindings
<1>3. q = Filtered(p, {e \in Binding : e.session # s})
  BY DEF Without
<1> HIDE DEF p
<1>4. /\ q \in Seq(Binding) /\ Len(q) <= Len(p) /\ DistinctBindings(q)
      /\ \A i \in 1..Len(q) : q[i] \in {e \in Binding : e.session # s}
      /\ Remembered(q) \subseteq Remembered(p)
  BY <1>2, <1>3, FilteredBindings
<1>5. Len(q) \in Nat /\ Len(p) \in Nat /\ Len(producerReconnects) \in Nat
  BY <1>1, <1>2, <1>4, LenProperties
<1>6. Len(q) <= maxSessions
  BY <1>1, <1>2, <1>4, <1>5, LimitsAssumption
<1>7. s \notin Remembered(q)
  BY <1>4 DEF Remembered
<1> QED
  BY <1>2, <1>4, <1>6, <1>7

(* The bindings after a step: typed, and sound.                            *)
BindingsSound(q, owners) ==
    /\ q \in Seq(Binding) /\ Len(q) <= maxSessions
    /\ DistinctBindings(q)
    /\ \A s \in Remembered(q) : owners[s] = NoSocket

(* They are before it, pruned or not, while no session gains an owner.     *)
LEMMA BindingsKept ==
    ASSUME DaemonIInv, NEW owners, \A s \in Sid : owners[s] \in {producerOwners[s], NoSocket}
    PROVE  /\ BindingsSound(producerReconnects, owners)
           /\ BindingsSound(PrunedReconnects, owners)
<1>1. producerReconnects \in Seq(Binding) /\ DistinctBindings(producerReconnects)
      /\ Len(producerReconnects) <= maxSessions
      /\ \A s \in Remembered(producerReconnects) : producerOwners[s] = NoSocket
  BY DEF DaemonIInv, DaemonTypeOK, ReconnectsSound, DistinctBindings
<1>2. Remembered(producerReconnects) \subseteq Sid
  <2>1. \A i \in 1..Len(producerReconnects) : producerReconnects[i] \in Binding
    BY <1>1, LenProperties
  <2> QED
    BY <2>1 DEF Remembered, Binding
<1>3. /\ PrunedReconnects \in Seq(Binding) /\ DistinctBindings(PrunedReconnects)
      /\ Len(PrunedReconnects) <= Len(producerReconnects)
      /\ Remembered(PrunedReconnects) \subseteq Remembered(producerReconnects)
  BY <1>1, PrunedBindings
<1>4. Len(PrunedReconnects) \in Nat /\ Len(producerReconnects) \in Nat
  BY <1>1, <1>3, LenProperties
<1>5. Len(PrunedReconnects) <= maxSessions
  BY <1>1, <1>3, <1>4, LimitsAssumption
<1>6. \A s \in Remembered(producerReconnects) : owners[s] = NoSocket
  BY <1>1, <1>2
<1> QED
  BY <1>1, <1>3, <1>5, <1>6 DEF BindingsSound

(* And so are those remembered for owners the step takes their sessions    *)
(* from.                                                                   *)
LEMMA BindingsRemembered ==
    ASSUME DaemonIInv, NEW owners, \A s \in Sid : owners[s] \in {producerOwners[s], NoSocket},
           NEW order \in Seq(Sid),
           \A i, j \in 1..Len(order) : order[i] = order[j] => i = j,
           \A i \in 1..Len(order) : /\ producerOwners[order[i]] # NoSocket
                                    /\ owners[order[i]] = NoSocket
    PROVE  BindingsSound(Remember(order), owners)
<1>1. BindingsSound(producerReconnects, producerOwners)
  <2>1. \A s \in Sid : producerOwners[s] \in {producerOwners[s], NoSocket}
    OBVIOUS
  <2> QED
    BY <2>1, BindingsKept
<1>2. BindingsSound(producerReconnects, owners)
  BY BindingsKept
<1>3. \A i \in 1..Len(order) : order[i] \in Sid
  BY LenProperties
<1>4. \A i \in 1..Len(order) : /\ order[i] \notin Remembered(producerReconnects)
                               /\ producerOwners[order[i]] \in Socket
  BY <1>1, <1>3 DEF BindingsSound, DaemonIInv, DaemonTypeOK
<1>5. principal \in [Socket -> Principal]
  BY DEF DaemonIInv, DaemonTypeOK
<1>6. /\ producerReconnects \in Seq(Binding) /\ DistinctBindings(producerReconnects)
      /\ \A s \in Remembered(producerReconnects) : owners[s] = NoSocket
  BY <1>2 DEF BindingsSound
<1> DEFINE q == Remember(order)
<1>7. /\ q \in Seq(Binding) /\ Len(q) <= maxSessions
      /\ DistinctBindings(q)
      /\ \A s \in Remembered(q) : \/ s \in Remembered(producerReconnects)
                                  \/ \E i \in 1..Len(order) : order[i] = s
  BY <1>4, <1>5, <1>6, RememberSound
<1> HIDE DEF q
<1>8. \A s \in Remembered(q) : owners[s] = NoSocket
  BY <1>6, <1>7
<1>9. BindingsSound(q, owners)
  BY <1>7, <1>8 DEF BindingsSound
<1> QED
  BY <1>9 DEF q

(* Time ages bindings and changes nothing else about them.                 *)
LEMMA BindingsAge ==
    ASSUME DaemonIInv, NEW d \in ClockSteps, Tick(d)
    PROVE  BindingsSound(producerReconnects', producerOwners')
<1> DEFINE q == producerReconnects
           r == [i \in 1..Len(q) |-> [q[i] EXCEPT !.age = Saturate(@ + d, ttl)]]
<1>1. producerReconnects' = r /\ producerOwners' = producerOwners
  BY DEF Tick
<1>2. BindingsSound(q, producerOwners)
  <2>1. \A s \in Sid : producerOwners[s] \in {producerOwners[s], NoSocket}
    OBVIOUS
  <2> QED
    BY <2>1, BindingsKept
<1>3. Len(q) \in Nat /\ \A i \in 1..Len(q) : q[i] \in Binding
  BY <1>2, LenProperties DEF BindingsSound
<1>4. ASSUME NEW i \in 1..Len(q) PROVE r[i] \in Binding /\ r[i].session = q[i].session
  <2>1. q[i] \in Binding /\ q[i].age \in 0..ttl
    BY <1>3 DEF Binding
  <2>2. Saturate(q[i].age + d, ttl) \in 0..ttl
    BY <2>1 DEF Saturate
  <2> QED
    BY <2>1, <2>2 DEF Binding
<1>5. r \in Seq(Binding) /\ Len(r) = Len(q)
  <2>1. r \in [1..Len(q) -> Binding]
    BY <1>4
  <2>2. r \in Seq(Binding)
    BY <1>3, <2>1
  <2>3. Len(r) = Len(q)
    BY <1>3
  <2> QED
    BY <2>2, <2>3
<1> HIDE DEF q, r
<1>6. DistinctBindings(r) /\ Remembered(r) = Remembered(q)
  BY <1>2, <1>4, <1>5 DEF BindingsSound, DistinctBindings, Remembered
<1> QED
  BY <1>1, <1>2, <1>5, <1>6 DEF BindingsSound

(* Every step leaves the bindings sound.                                   *)
LEMMA BindingsStep ==
    ASSUME DaemonIInv, DaemonNext
    PROVE  BindingsSound(producerReconnects', producerOwners')
<1> DEFINE Sound == BindingsSound(producerReconnects', producerOwners')
<1>a. producerOwners \in [Sid -> Socket \cup {NoSocket}]
  BY DEF DaemonIInv, DaemonTypeOK
<1>b. ASSUME \A s \in Sid : producerOwners'[s] \in {producerOwners[s], NoSocket},
             producerReconnects' \in {producerReconnects, PrunedReconnects}
      PROVE  Sound
  BY <1>b, BindingsKept
<1>c. ASSUME UNCHANGED <<producerOwners, producerReconnects>> PROVE Sound
  BY <1>b, <1>c
<1>1. ASSUME NEW k \in Socket, NEW s \in Sid, NEW b \in RetainedSizes, Register(k, s, b)
      PROVE  Sound
  <2> DEFINE q == Without(PrunedReconnects, s)
  <2>1. /\ q \in Seq(Binding) /\ Len(q) <= maxSessions /\ DistinctBindings(q)
        /\ Remembered(q) \subseteq Remembered(producerReconnects) \ {s}
    BY WithoutBindings
  <2>2. producerReconnects' = q /\ producerOwners' = [producerOwners EXCEPT ![s] = k]
    BY <1>1 DEF Register
  <2> HIDE DEF q
  <2>3. \A x \in Remembered(producerReconnects) : producerOwners[x] = NoSocket
    BY DEF DaemonIInv, ReconnectsSound
  <2>4. \A x \in Remembered(q) : x # s /\ producerOwners[x] = NoSocket
    BY <2>1, <2>3
  <2>5. \A x \in Remembered(q) : x \in Sid
    <3>1. \A i \in 1..Len(q) : q[i] \in Binding
      BY <2>1, LenProperties
    <3> QED
      BY <3>1 DEF Remembered, Binding
  <2>6. \A x \in Remembered(q) : producerOwners'[x] = NoSocket
    BY <1>a, <2>2, <2>4, <2>5
  <2> QED
    BY <2>1, <2>2, <2>6 DEF BindingsSound
<1>2. ASSUME NEW k \in Socket, HandleConnectionClose(k) PROVE Sound
  <2> DEFINE s == boundSession[k]
             owner == auth[k] = "authenticated" /\ s # NoSession /\ producerOwners[s] = k
  <2>1. /\ producerOwners' = IF owner THEN [producerOwners EXCEPT ![s] = NoSocket]
                             ELSE producerOwners
        /\ producerReconnects' = IF owner /\ principal[k] \in granted THEN Remember(<<s>>)
                                 ELSE producerReconnects
    BY <1>2 DEF HandleConnectionClose
  <2>2. \A x \in Sid : producerOwners'[x] \in {producerOwners[x], NoSocket}
    BY <1>a, <2>1
  <2>3. CASE owner /\ principal[k] \in granted
    <3>1. /\ s \in Sid /\ producerOwners[s] = k /\ k # NoSocket
          /\ producerOwners'[s] = NoSocket
          /\ producerReconnects' = Remember(<<s>>)
      BY <1>a, <2>1, <2>3 DEF DaemonIInv, DaemonTypeOK
    <3>2. <<s>> \in Seq(Sid) /\ Len(<<s>>) = 1 /\ <<s>>[1] = s
      BY <3>1
    <3>3. \A i \in 1..Len(<<s>>) : i = 1
      BY <3>2
    <3> HIDE DEF s
    <3>4. /\ \A i, j \in 1..Len(<<s>>) : <<s>>[i] = <<s>>[j] => i = j
          /\ \A i \in 1..Len(<<s>>) : /\ producerOwners[<<s>>[i]] # NoSocket
                                      /\ producerOwners'[<<s>>[i]] = NoSocket
      BY <3>1, <3>2, <3>3
    <3>5. BindingsSound(Remember(<<s>>), producerOwners')
      BY <2>2, <3>2, <3>4, BindingsRemembered
    <3> QED
      BY <3>1, <3>5
  <2>4. CASE ~(owner /\ principal[k] \in granted)
    BY <1>b, <2>1, <2>2, <2>4
  <2> QED
    BY <2>3, <2>4
<1>3. ASSUME Maintain PROVE Sound
  <2> DEFINE kept == {s \in Retired : (s \in Pruned \/ s \notin Live)
                                        /\ Authority(producerOwners[s])}
  <2>1. PICK order \in SetToSeqs(kept) :
          producerReconnects' = IF kept = {} THEN producerReconnects ELSE Remember(order)
    BY <1>3 DEF Maintain
  <2>2. producerOwners' = [s \in Sid |-> IF s \in Retired THEN NoSocket ELSE producerOwners[s]]
    BY <1>3 DEF Maintain
  <2>3. \A x \in Sid : producerOwners'[x] \in {producerOwners[x], NoSocket}
    BY <2>2
  <2>4. kept \subseteq Sid /\ \A s \in kept : producerOwners[s] # NoSocket
                                              /\ producerOwners'[s] = NoSocket
    BY <2>2 DEF Retired
  <2> HIDE DEF kept
  <2>5. Cardinality(kept) \in Nat
    BY <2>4, SessionsFinite
  <2>6. order \in [1..Cardinality(kept) -> kept]
        /\ \A i, j \in 1..Cardinality(kept) : i # j => order[i] # order[j]
    BY <2>1 DEF SetToSeqs
  <2>7. order \in Seq(Sid) /\ Len(order) = Cardinality(kept)
    <3>1. order \in [1..Cardinality(kept) -> Sid]
      BY <2>4, <2>6
    <3> QED
      BY <2>5, <3>1
  <2>8. /\ \A i, j \in 1..Len(order) : order[i] = order[j] => i = j
        /\ \A i \in 1..Len(order) : /\ producerOwners[order[i]] # NoSocket
                                    /\ producerOwners'[order[i]] = NoSocket
    BY <2>4, <2>6, <2>7
  <2>9. BindingsSound(Remember(order), producerOwners')
    BY <2>3, <2>7, <2>8, BindingsRemembered
  <2>10. CASE kept = {}
    BY <1>b, <2>1, <2>3, <2>10
  <2>11. CASE kept # {}
    BY <2>1, <2>9, <2>11
  <2> QED
    BY <2>10, <2>11
<1>4. ASSUME StopStep PROVE Sound
  <2>1. producerReconnects' = <<>> /\ <<>> \in Seq(Binding) /\ Len(<<>>) = 0
    BY <1>4, EmptySeq DEF StopStep, ShutdownDaemon
  <2> QED
    BY <2>1, LimitsAssumption DEF BindingsSound, DistinctBindings, Remembered
<1>5. ASSUME NEW k \in Socket, NEW p \in Principal, Connects(k, p) PROVE Sound
  BY <1>5, <1>c DEF Connects, bindVars
<1>6. ASSUME NEW k \in Socket, MessageRefused(k) PROVE Sound
  BY <1>6, <1>b DEF MessageRefused
<1>7. ASSUME HelloStep PROVE Sound
  BY <1>7, <1>c DEF HelloStep, bindVars
<1>8. ASSUME QuietStep PROVE Sound
  BY <1>8, <1>c, BindingsAge DEF QuietStep
<1> QED
  BY <1>1, <1>2, <1>3, <1>4, <1>5, <1>6, <1>7, <1>8, DaemonCases DEF DaemonIInv

-----------------------------------------------------------------------------
(* The connections half of the type invariant.                             *)
LinkType ==
    /\ attached \subseteq Socket
    /\ closing \subseteq attached
    /\ principal \in [Socket -> Principal]
    /\ auth \in [Socket -> AuthStates]
    /\ boundSession \in [Socket -> Sid \cup {NoSession}]
    /\ awaited \in [Socket -> [1..MaxHellos -> Steps]]

(* The steps awaited on a connection stay steps when they are outdated.    *)
LEMMA OutdatedType ==
    ASSUME LinkType, NEW k \in Socket
    PROVE  Outdated(k) \in [1..MaxHellos -> Steps]
BY DEF LinkType, Outdated, Steps

(* Every step keeps the connections typed.                                 *)
LEMMA LinkTypeStep ==
    ASSUME LinkType, DaemonTypeOK, DaemonNext
    PROVE  LinkType'
<1>a. "none" \in AuthStates /\ "challenged" \in AuthStates /\ "offered" \in AuthStates
      /\ "authenticated" \in AuthStates
  BY DEF AuthStates
<1>b. "none" \in Steps /\ "issue" \in Steps /\ "proof" \in Steps /\ "outdated" \in Steps
  BY DEF Steps
<1> USE <1>a, <1>b DEF LinkType
<1>1. ASSUME NEW k \in Socket, NEW s \in Sid, NEW b \in RetainedSizes, Register(k, s, b)
      PROVE  LinkType'
  BY <1>1, OutdatedType DEF Register, Retire
<1>2. ASSUME NEW k \in Socket, HandleConnectionClose(k) PROVE LinkType'
  BY <1>2, OutdatedType DEF HandleConnectionClose
<1>3. ASSUME Maintain PROVE LinkType'
  BY <1>3, OutdatedType DEF Maintain
<1>4. ASSUME StopStep PROVE LinkType'
  BY <1>4 DEF StopStep, ShutdownDaemon, helloVars
<1>5. ASSUME NEW k \in Socket, NEW p \in Principal, Connects(k, p) PROVE LinkType'
  BY <1>5 DEF Connects, helloVars
<1>6. ASSUME NEW k \in Socket, MessageRefused(k) PROVE LinkType'
  BY <1>6 DEF MessageRefused, helloVars
<1>7. ASSUME NEW k \in Socket, NEW i \in 1..MaxHellos, HelloInit(k, i) PROVE LinkType'
  BY <1>7 DEF HelloInit, linkVars
<1>8. ASSUME NEW k \in Socket, NEW i \in 1..MaxHellos, HelloProof(k, i) PROVE LinkType'
  BY <1>8 DEF HelloProof, linkVars
<1>9. ASSUME NEW k \in Socket, NEW i \in 1..MaxHellos, ChallengeIssued(k, i) PROVE LinkType'
  BY <1>9 DEF ChallengeIssued, Resumed, linkVars
<1>10. ASSUME NEW k \in Socket, NEW i \in 1..MaxHellos, ProofAccepted(k, i) PROVE LinkType'
  BY <1>10, OutdatedType DEF ProofAccepted, linkVars
<1>11. ASSUME NEW k \in Socket, NEW i \in 1..MaxHellos, HelloIgnored(k, i) PROVE LinkType'
  BY <1>11 DEF HelloIgnored, Resumed, linkVars
<1>12. ASSUME NEW k \in Socket, NEW i \in 1..MaxHellos, HelloFailed(k, i) PROVE LinkType'
  BY <1>12, OutdatedType DEF HelloFailed, Reject
<1>13. ASSUME NEW k \in Socket, HelloMalformed(k) PROVE LinkType'
  BY <1>13, OutdatedType DEF HelloMalformed, Reject
<1>14. ASSUME QuietStep PROVE LinkType'
  BY <1>14 DEF QuietStep
<1> QED
  BY <1>1, <1>2, <1>3, <1>4, <1>5, <1>6, <1>7, <1>8, <1>9, <1>10, <1>11, <1>12, <1>13, <1>14,
     DaemonCases
  DEF HelloStep

(* The idle timer, the idle clock and the rest.                            *)
IdleType ==
    /\ granted \subseteq Principal
    /\ idleTimer \in BOOLEAN
    /\ idleFor \in 0..idleTimeout
    /\ shuttingDown \in BOOLEAN

(* Every step keeps them typed, and the idle timer sound: a step either    *)
(* counts as activity, or leaves the timer alone and nothing new to wait   *)
(* for.                                                                    *)
LEMMA IdleStep ==
    ASSUME DaemonIInv, DaemonNext
    PROVE  IdleType' /\ IdleTimerSound'
<1>a. IdleType /\ IdleTimerSound
  BY DEF DaemonIInv, DaemonTypeOK, IdleType
<1>b. IInv'
  BY BrokerStep
<1>c. Live' = {} => pendingCommands' = {}
  BY <1>b DEF IInv, CommandInv, QueuesSound
<1>d. 0 \in 0..idleTimeout
  OBVIOUS
<1>e. ASSUME NoteActivity PROVE /\ idleFor' \in 0..idleTimeout /\ idleTimer' \in BOOLEAN
                                /\ IdleTimerSound'
  BY <1>e, <1>d DEF NoteActivity, IdleTimerSound
<1>f. ASSUME UNCHANGED idleVars, Live' \subseteq Live, shuttingDown' = shuttingDown
      PROVE  /\ idleFor' \in 0..idleTimeout /\ idleTimer' \in BOOLEAN
             /\ IdleTimerSound'
  BY <1>a, <1>c, <1>f DEF IdleType, IdleTimerSound, idleVars
<1>g. ASSUME UNCHANGED sessions PROVE Live' \subseteq Live
  BY <1>g DEF Live
<1>h. ASSUME NEW S, RemoveSessions(S) PROVE Live' = Live \ S
  BY <1>h DEF Live, RemoveSessions, DaemonIInv, IInv, TypeOK
<1>1. ASSUME NEW k \in Socket, NEW s \in Sid, NEW b \in RetainedSizes, Register(k, s, b)
      PROVE  IdleType' /\ IdleTimerSound'
  <2>1. NoteActivity /\ UNCHANGED <<granted, shuttingDown>>
    BY <1>1 DEF Register
  <2> QED
    BY <2>1, <1>a, <1>e DEF IdleType
<1>2. ASSUME NEW k \in Socket, HandleConnectionClose(k) PROVE IdleType' /\ IdleTimerSound'
  <2>1. PICK S \in SUBSET Live : RemoveSessions(S)
    BY <1>2, CloseRemoves
  <2>2. UNCHANGED <<granted, shuttingDown>> /\ (NoteActivity \/ UNCHANGED idleVars)
    BY <1>2 DEF HandleConnectionClose
  <2>3. Live' \subseteq Live
    BY <2>1, <1>h
  <2> QED
    BY <2>2, <2>3, <1>a, <1>e, <1>f DEF IdleType
<1>3. ASSUME Maintain PROVE IdleType' /\ IdleTimerSound'
  <2>1. RemoveSessions(Retired) /\ Pruned \subseteq Retired
    BY <1>3, MaintainRemoves
  <2>2. UNCHANGED <<granted, shuttingDown>>
    BY <1>3 DEF Maintain
  <2>3. CASE Pruned = {}
    <3>1. UNCHANGED idleVars
      BY <1>3, <2>3 DEF Maintain
    <3>2. Live' \subseteq Live
      BY <2>1, <1>h
    <3> QED
      BY <3>1, <3>2, <2>2, <1>a, <1>f DEF IdleType
  <2>4. CASE Pruned # {}
    <3>1. idleFor' = 0 /\ idleTimer' = (~shuttingDown /\ Live = Pruned)
      BY <1>3, <2>4 DEF Maintain
    <3>2. Live = Pruned => Live' = {}
      BY <2>1, <1>h
    <3>3. IdleTimerSound'
      BY <3>1, <3>2, <2>2, <1>c DEF IdleTimerSound
    <3>4. idleTimer' \in BOOLEAN
      BY <3>1
    <3> QED
      BY <3>1, <3>3, <3>4, <2>2, <1>a, <1>d DEF IdleType
  <2> QED
    BY <2>3, <2>4
<1>4. ASSUME StopStep PROVE IdleType' /\ IdleTimerSound'
  BY <1>4, <1>a DEF StopStep, ShutdownDaemon, IdleType, IdleTimerSound
<1>5. ASSUME NEW k \in Socket, NEW p \in Principal, Connects(k, p)
      PROVE  IdleType' /\ IdleTimerSound'
  <2>1. UNCHANGED <<idleVars, granted, shuttingDown, sessions>>
    BY <1>5 DEF Connects, TransportOpens, ownerVars
  <2> QED
    BY <2>1, <1>a, <1>f, <1>g DEF IdleType
<1>6. ASSUME NEW k \in Socket, MessageRefused(k) PROVE IdleType' /\ IdleTimerSound'
  <2>1. UNCHANGED <<idleVars, granted, shuttingDown, sessions>>
    BY <1>6 DEF MessageRefused, vars, ownerVars
  <2> QED
    BY <2>1, <1>a, <1>f, <1>g DEF IdleType
<1>7. ASSUME HelloStep PROVE IdleType' /\ IdleTimerSound'
  <2>1. UNCHANGED <<idleVars, granted, shuttingDown, sessions>>
    BY <1>7 DEF HelloStep, vars, ownerVars
  <2> QED
    BY <2>1, <1>a, <1>f, <1>g DEF IdleType
<1>8. ASSUME QuietStep PROVE IdleType' /\ IdleTimerSound'
  <2>1. UNCHANGED <<shuttingDown, sessions>> /\ granted' \subseteq granted
    BY <1>8 DEF QuietStep
  <2>2. CASE NoteActivity
    BY <2>1, <2>2, <1>a, <1>e DEF IdleType
  <2>3. CASE UNCHANGED <<idleTimer, idleFor>>
    BY <2>1, <2>3, <1>a, <1>f, <1>g DEF IdleType, idleVars
  <2>4. ASSUME NEW d \in ClockSteps, Tick(d) PROVE IdleType' /\ IdleTimerSound'
    <3>1. idleFor' = Saturate(idleFor + d, idleTimeout) /\ idleTimer' = idleTimer
      BY <2>4 DEF Tick
    <3>2. idleFor' \in 0..idleTimeout
      BY <3>1, <1>a DEF IdleType, Saturate
    <3>3. Live' \subseteq Live
      BY <2>1, <1>g
    <3>4. IdleTimerSound'
      BY <3>1, <3>3, <2>1, <1>a, <1>c DEF IdleTimerSound
    <3> QED
      BY <3>1, <3>2, <3>4, <2>1, <1>a DEF IdleType
  <2> QED
    BY <1>8, <2>2, <2>3, <2>4 DEF QuietStep
<1> QED
  BY <1>1, <1>2, <1>3, <1>4, <1>5, <1>6, <1>7, <1>8, DaemonCases DEF DaemonIInv

(* Every step keeps the type invariant, and the bindings sound.            *)
LEMMA DaemonTypeStep ==
    ASSUME DaemonIInv, DaemonNext
    PROVE  DaemonTypeOK' /\ ReconnectsSound'
<1>1. LinkType'
  <2>1. LinkType /\ DaemonTypeOK
    BY DEF DaemonIInv, DaemonTypeOK, LinkType
  <2> QED
    BY <2>1, LinkTypeStep
<1>2. IdleType'
  BY IdleStep
<1>3. BindingsSound(producerReconnects', producerOwners')
  BY BindingsStep
<1>4. ReconnectsSound'
  BY <1>3 DEF BindingsSound, DistinctBindings, ReconnectsSound
<1>5. producerOwners' \in [Sid -> Socket \cup {NoSocket}]
  BY BrokerStep, OwnersTrackedStep DEF IInv, TypeOK, OwnersTracked
<1>6. producerReconnects' \in Seq(Binding)
  BY <1>3 DEF BindingsSound
<1> QED
  BY <1>1, <1>2, <1>4, <1>5, <1>6 DEF LinkType, IdleType, DaemonTypeOK

-----------------------------------------------------------------------------
(* Every step, or stutter, keeps the inductive invariant.                  *)
LEMMA DaemonNextIInv == DaemonIInv /\ [DaemonNext]_allVars => DaemonIInv'
<1> SUFFICES ASSUME DaemonIInv, [DaemonNext]_allVars PROVE DaemonIInv'
  OBVIOUS
<1>1. CASE DaemonNext
  <2>1. IInv'
    BY <1>1, BrokerStep
  <2>2. DaemonTypeOK' /\ ReconnectsSound'
    BY <1>1, DaemonTypeStep
  <2>3. OwnersTracked' /\ BoundIsOwner' /\ OwnersBound'
    BY <1>1, OwnersTrackedStep, BoundIsOwnerStep, OwnersBoundStep
  <2>4. HelloSound' /\ ShutdownAgrees' /\ IdleTimerSound'
    BY <1>1, HelloSoundStep, ShutdownAgreesStep, IdleStep
  <2> QED
    BY <2>1, <2>2, <2>3, <2>4 DEF DaemonIInv
<1>2. CASE UNCHANGED allVars
  <2>1. UNCHANGED vars /\ UNCHANGED daemonVars
    BY <1>2 DEF allVars
  <2>2. IInv'
    BY <2>1, IInvFrame DEF DaemonIInv
  <2> USE <2>1 DEF DaemonIInv, daemonVars, helloVars, linkVars, bindVars, idleVars, vars, ownerVars,
                   commandVars
  <2>3. DaemonTypeOK'
    BY DEF DaemonTypeOK
  <2>4. OwnersTracked' /\ BoundIsOwner' /\ OwnersBound'
    BY DEF OwnersTracked, BoundIsOwner, OwnersBound
  <2>5. HelloSound' /\ ShutdownAgrees'
    BY DEF HelloSound, ShutdownAgrees
  <2>6. IdleTimerSound' /\ ReconnectsSound'
    BY DEF IdleTimerSound, ReconnectsSound, Remembered, Live
  <2> QED
    BY <2>2, <2>3, <2>4, <2>5, <2>6
<1> QED
  BY <1>1, <1>2

(* The inductive invariant holds in every reachable state of the daemon,   *)
(* the broker core's own included.                                         *)
THEOREM DaemonInvariant == DaemonSpec => []DaemonIInv
BY DaemonInitIInv, DaemonNextIInv, PTL DEF DaemonSpec

(* The daemon's maps agree with the broker state and with each other,      *)
(* whatever hello steps, closes, displacements, sweeps and shutdown        *)
(* interleave, for any number of connections and producers.                *)
THEOREM DaemonSafe == DaemonSpec => []DaemonSound
<1>1. DaemonIInv => DaemonSound
  BY DEF DaemonIInv, DaemonSound
<1> QED
  BY <1>1, DaemonInvariant, PTL

(* Under the daemon, too, the broker core's owner maps agree, its budgets  *)
(* are exact, its queues sound and its shutdown final.                     *)
THEOREM BrokerSafeUnderDaemon ==
    DaemonSpec => [](OwnersAgree /\ BudgetsExact /\ QueuesSound /\ NothingAfterShutdown)
<1>1. IInv => OwnersAgree /\ BudgetsExact /\ QueuesSound
  BY DEF IInv, CommandInv, SessionBudgets, CommandBudgets, BudgetsExact
<1>2. IInv => NothingAfterShutdown
  BY NothingLeft DEF NothingAfterShutdown
<1>3. DaemonIInv => IInv
  BY DEF DaemonIInv
<1> QED
  BY <1>1, <1>2, <1>3, DaemonInvariant, PTL

(* And a caller's promise settles once, and by a result only of the        *)
(* transport that owns the session: no displaced transport and no other    *)
(* producer answers, whatever hellos and displacements interleave.         *)
THEOREM CommandsSafeUnderDaemon == DaemonSpec => SettledOnce /\ ResolvedByOwner
<1>1. ASSUME DaemonIInv, [DaemonNext]_allVars
      PROVE  /\ [\A r \in Request :
                    /\ outcome[r] \in Settled => outcome'[r] = outcome[r]
                    /\ outcome'[r] \in Settled /\ outcome[r] \notin Settled
                         => r \in pendingCommands \/ r = nextRequest]_vars
             /\ [\A r \in Request :
                    outcome'[r] \in {"resolved", "failed"}
                    /\ outcome[r] \notin {"resolved", "failed"}
                      => r \in active /\ answeredBy'[r] = sessions[pendingSession[r]]]_vars
  <2>1. CASE UNCHANGED vars
    BY <2>1
  <2>2. CASE Operation
    <3>1. IInv
      BY <1>1 DEF DaemonIInv
    <3> QED
      BY <2>2, <3>1, OperationSettles
  <2>3. UNCHANGED allVars => UNCHANGED vars
    BY DEF allVars
  <2> QED
    BY <1>1, <2>1, <2>2, <2>3, DaemonOperates
<1> QED
  BY <1>1, DaemonInvariant, PTL DEF DaemonSpec, SettledOnce, ResolvedByOwner

(* The daemon implements the command service the broker core promises: a   *)
(* hello, a displaced connection, a close or a sweep is at most a change   *)
(* of hands, and every command gets one answer, in turn.                   *)
THEOREM DaemonImplementsTheService == DaemonSpec => ImplementsService
<1>1. DaemonInit => Service!ServiceInit
  BY ServiceInits DEF DaemonInit
<1>2. DaemonIInv /\ DaemonIInv' /\ [DaemonNext]_allVars
        => [Service!ServiceNext]_(Service!serviceVars)
  <2> SUFFICES ASSUME DaemonIInv, DaemonIInv', [DaemonNext]_allVars
               PROVE  Service!ServiceNext \/ UNCHANGED Service!serviceVars
    OBVIOUS
  <2>1. IInv /\ IInv'
    BY DEF DaemonIInv
  <2>2. CASE Operation
    BY <2>1, <2>2, OperationServes
  <2>3. CASE UNCHANGED vars
    BY <2>3 DEF vars, ownerVars, commandVars, Service!serviceVars
  <2>4. UNCHANGED allVars => UNCHANGED vars
    BY DEF allVars
  <2> QED
    BY <2>2, <2>3, <2>4, DaemonOperates
<1> QED
  BY <1>1, <1>2, DaemonInvariant, PTL DEF DaemonSpec, ImplementsService, Service!ServiceSpec

(* The idle timer never runs while a session or a command is live.         *)
THEOREM IdleTimerSafe == DaemonSpec => []IdleTimerSound
<1>1. DaemonIInv => IdleTimerSound
  BY DEF DaemonIInv
<1> QED
  BY <1>1, DaemonInvariant, PTL

(* A session changes hands only between transports of one producer, in     *)
(* every step of the daemon and for any set of producers.                  *)
THEOREM TransfersBound == DaemonSpec => TransferByBinding
<1> DEFINE Kept == \A s \in Sid :
             sessions[s] # NoSocket /\ sessions'[s] \notin {NoSocket, sessions[s]}
               => principal'[sessions'[s]] = principal[sessions[s]]
<1>a. ASSUME UNCHANGED sessions PROVE Kept
  BY <1>a
<1>b. ASSUME DaemonIInv, NEW S, RemoveSessions(S) PROVE Kept
  BY <1>b DEF RemoveSessions
<1>1. ASSUME DaemonIInv, NEW k \in Socket, NEW s \in Sid, NEW b \in RetainedSizes,
             Register(k, s, b)
      PROVE  Kept
  <2>1. sessions' = [sessions EXCEPT ![s] = k] /\ sessions = producerOwners
    BY <1>1, RegisterOwns DEF DaemonIInv, OwnersTracked
  <2>2. BindingMatches(k, s) /\ principal' = principal
    BY <1>1 DEF Register
  <2>3. ASSUME sessions[s] # NoSocket, sessions[s] # k
        PROVE  principal[sessions[s]] = principal[k]
    BY <2>1, <2>2, <2>3 DEF BindingMatches, Replaced
  <2> QED
    BY <1>1, <2>1, <2>2, <2>3 DEF DaemonIInv, DaemonTypeOK
<1>2. ASSUME DaemonIInv, DaemonNext PROVE Kept
  <2>1. ASSUME NEW k \in Socket, HandleConnectionClose(k) PROVE Kept
    BY <1>2, <2>1, <1>b, CloseRemoves
  <2>2. ASSUME Maintain PROVE Kept
    BY <1>2, <2>2, <1>b, MaintainRemoves
  <2>3. ASSUME StopStep PROVE Kept
    BY <2>3 DEF StopStep, ShutdownDaemon, Shutdown
  <2>4. ASSUME NEW k \in Socket, NEW p \in Principal, Connects(k, p) PROVE Kept
    BY <2>4, <1>a DEF Connects, TransportOpens, ownerVars
  <2>5. ASSUME NEW k \in Socket, MessageRefused(k) PROVE Kept
    BY <2>5, <1>a DEF MessageRefused, vars, ownerVars
  <2>6. ASSUME HelloStep \/ QuietStep PROVE Kept
    BY <2>6, <1>a DEF HelloStep, QuietStep, vars, ownerVars
  <2>7. DaemonTypeOK
    BY <1>2 DEF DaemonIInv
  <2> HIDE DEF Kept
  <2> QED
    BY <1>1, <1>2, <2>1, <2>2, <2>3, <2>4, <2>5, <2>6, <2>7, DaemonCases
<1>3. ASSUME DaemonIInv, [DaemonNext]_allVars PROVE [Kept]_allVars
  BY <1>2, <1>3
<1>4. DaemonIInv /\ [DaemonNext]_allVars => [Kept]_allVars
  BY <1>3
<1> QED
  BY <1>4, DaemonInvariant, PTL DEF DaemonSpec, TransferByBinding
===============================================================================

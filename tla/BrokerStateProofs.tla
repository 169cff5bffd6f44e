-------------------------- MODULE BrokerStateProofs --------------------------
(***************************************************************************)
(* Theorems about BrokerState, for every set of sessions and sockets,      *)
(* every limit and every bound.                                            *)
(***************************************************************************)
EXTENDS BrokerState, DataLemmas, SequenceTheorems, TLAPS

USE IdentityAssumption, LimitsAssumption, SizesAssumption, ClockAssumption

(* Request ids and their subsets are finite.                               *)
LEMMA RequestsFinite ==
    ASSUME NEW S \in SUBSET Request
    PROVE  IsFiniteSet(S) /\ Cardinality(S) \in Nat
<1>1. IsFiniteSet(1..MaxRequests)
  BY FS_Interval
<1>2. IsFiniteSet(S)
  BY <1>1, FS_Subset DEF Request
<1> QED
  BY <1>2, FS_CardinalityType

(* So are sets of sessions.                                                *)
LEMMA SessionsFinite ==
    ASSUME NEW S \in SUBSET Sid
    PROVE  IsFiniteSet(S) /\ Cardinality(S) \in Nat
<1>1. IsFiniteSet(S)
  BY FS_Subset
<1> QED
  BY <1>1, FS_CardinalityType

(* Removing a member from a FIFO of requests leaves a FIFO of requests.    *)
LEMMA SpliceType ==
    ASSUME NEW q \in Seq(Request), NEW r
    PROVE  Splice(q, r) \in Seq(Request)
<1> DEFINE i == CHOOSE j \in 1..Len(q) : q[j] = r
           e == [j \in 1..(Len(q) - 1) |-> IF j < i THEN q[j] ELSE q[j + 1]]
<1>1. CASE \E j \in 1..Len(q) : q[j] = r
  <2>1. i \in 1..Len(q)
    BY <1>1
  <2>2. Len(q) \in Nat /\ Len(q) >= 1 /\ q \in [1..Len(q) -> Request]
    BY <2>1, LenProperties
  <2> HIDE DEF i
  <2>3. e \in [1..(Len(q) - 1) -> Request]
    BY <2>1, <2>2
  <2>4. e \in Seq(Request)
    BY <2>2, <2>3, IsASeq
  <2> QED
    BY <1>1, <2>4 DEF Splice, i
<1>2. CASE ~ \E j \in 1..Len(q) : q[j] = r
  BY <1>2 DEF Splice
<1> QED
  BY <1>1, <1>2

(* What advancing a FIFO does to it, by type.                              *)
LEMMA AdvanceType ==
    ASSUME NEW q \in Seq(Request), NEW n \in 0..Len(q)
    PROVE  /\ Refused(q, n) \subseteq Request
           /\ AfterRefusals(q, n) \in Seq(Request)
           /\ Head1(q, n) \subseteq Request
<1>1. q \in [1..Len(q) -> Request] /\ Len(q) \in Nat
  BY LenProperties
<1>2. AfterRefusals(q, n) \in Seq(Request)
  <2>1. \A i \in (n + 1)..Len(q) : q[i] \in Request
    BY <1>1
  <2> QED
    BY <1>1, <2>1, SubSeqProperties DEF AfterRefusals
<1> QED
  BY <1>1, <1>2 DEF Refused, Head1

-----------------------------------------------------------------------------
(* The command half of the type invariant.                                 *)
CommandType ==
    /\ pendingCommands \subseteq Request
    /\ pendingSession \in [Request -> Sid \cup {NoSession}]
    /\ pendingSocket \in [Request -> Socket \cup {NoSocket}]
    /\ pendingBytes \in [Request -> Nat]
    /\ active \subseteq Request
    /\ commandQueues \in [Sid -> Seq(Request)]
    /\ commandUsed \in Int /\ queuedUsed \in Int
    /\ nextRequest \in Nat \ {0}
    /\ outcome \in [Request -> Settled \cup {"none", "pending"}]
    /\ sent \in [Socket -> Seq(Request)]

(* Settling requests keeps the command state typed.                        *)
LEMMA SettleType ==
    ASSUME TypeOK, NEW S \in SUBSET Request, NEW how \in Settled, Settle(S, how)
    PROVE  /\ pendingCommands' \subseteq Request
           /\ active' \subseteq Request
           /\ commandUsed' \in Int /\ queuedUsed' \in Int
           /\ outcome' \in [Request -> Settled \cup {"none", "pending"}]
<1>1. Cardinality(S) \in Nat /\ IsFiniteSet(S)
  BY RequestsFinite
<1>2. Reserved(pendingBytes, S) \in Nat
  BY <1>1, ReservedType DEF TypeOK
<1> QED
  BY <1>1, <1>2 DEF TypeOK, Settle

(* Rejecting the commands of sessions keeps the command state typed.       *)
LEMMA RejectType ==
    ASSUME TypeOK, NEW S, RejectPendingCommandsForSessions(S)
    PROVE  CommandType'
<1> DEFINE R == {r \in pendingCommands : pendingSession[r] \in S}
<1>1. R \in SUBSET Request /\ Settle(R, "rejected") /\ "rejected" \in Settled
  BY DEF TypeOK, RejectPendingCommandsForSessions, Settled
<1> HIDE DEF R
<1>2. /\ pendingCommands' \subseteq Request
      /\ active' \subseteq Request
      /\ commandUsed' \in Int /\ queuedUsed' \in Int
      /\ outcome' \in [Request -> Settled \cup {"none", "pending"}]
  BY <1>1, SettleType
<1>3. commandQueues' \in [Sid -> Seq(Request)]
  BY EmptySeq DEF TypeOK, RejectPendingCommandsForSessions
<1> QED
  BY <1>2, <1>3 DEF TypeOK, RejectPendingCommandsForSessions, CommandType

(* Finishing a pending command and advancing its FIFO keeps it typed.      *)
LEMMA FinishType ==
    ASSUME TypeOK, NEW r \in pendingCommands, pendingSession[r] \in Sid,
           NEW how \in Settled, FinishPending(r, how)
    PROVE  CommandType'
<1> DEFINE s == pendingSession[r]
           queue == Splice(commandQueues[s], r)
<1>1. queue \in Seq(Request) /\ r \in Request
  BY SpliceType DEF TypeOK
<1> HIDE DEF queue
<1>2. PICK n \in 0..Len(queue) :
        LET done == Refused(queue, n) \cup {r}
        IN  /\ pendingCommands' = pendingCommands \ done
            /\ commandUsed' = commandUsed - Cardinality(done)
            /\ queuedUsed' = queuedUsed - Reserved(pendingBytes, done)
            /\ outcome' = [x \in Request |->
                             IF x = r THEN how
                             ELSE IF x \in done THEN "rejected" ELSE outcome[x]]
            /\ commandQueues' = [commandQueues EXCEPT ![s] = AfterRefusals(queue, n)]
            /\ active' = (active \ {r}) \cup Head1(queue, n)
            /\ sent' = Written(s, queue, n)
            /\ UNCHANGED <<pendingSession, pendingSocket, pendingBytes, nextRequest>>
  BY DEF FinishPending, queue
<1> DEFINE done == Refused(queue, n) \cup {r}
<1>3. /\ done \subseteq Request
      /\ AfterRefusals(queue, n) \in Seq(Request)
      /\ Head1(queue, n) \subseteq Request
  BY <1>1, AdvanceType
<1> HIDE DEF done
<1>4. Cardinality(done) \in Nat /\ IsFiniteSet(done)
  BY <1>3, RequestsFinite
<1>5. Reserved(pendingBytes, done) \in Nat
  BY <1>3, <1>4, ReservedType DEF TypeOK
<1>6. commandUsed' \in Int /\ queuedUsed' \in Int
  BY <1>2, <1>4, <1>5 DEF TypeOK, done
<1>7. outcome' \in [Request -> Settled \cup {"none", "pending"}]
  BY <1>2 DEF TypeOK, Settled
<1>8. sent' \in [Socket -> Seq(Request)]
  <2>1. queue \in [1..Len(queue) -> Request] /\ Len(queue) \in Nat
    BY <1>1, LenProperties
  <2>2. ASSUME n < Len(queue), NEW k \in Socket
        PROVE  Append(sent[k], queue[n + 1]) \in Seq(Request)
    <3>1. sent[k] \in Seq(Request)
      BY DEF TypeOK
    <3>2. queue[n + 1] \in Request
      BY <2>1, <2>2
    <3> QED
      BY <3>1, <3>2, AppendProperties
  <2> QED
    BY <1>2, <2>1, <2>2 DEF TypeOK, Written
<1> QED
  BY <1>2, <1>3, <1>6, <1>7, <1>8 DEF TypeOK, CommandType

(* Admitting a command keeps the command state typed.                      *)
LEMMA DispatchType ==
    ASSUME TypeOK, NEW s \in Sid, NEW bytes \in CommandSizes, DispatchCommand(s, bytes)
    PROVE  CommandType'
<1> DEFINE r == nextRequest
           queue == Append(commandQueues[s], r)
           bytesOf == [pendingBytes EXCEPT ![r] = bytes]
<1>1. queue \in Seq(Request) /\ r \in Request /\ bytes \in Nat
  BY AppendProperties DEF TypeOK, DispatchCommand
<1>2. bytesOf \in [Request -> Nat]
  BY <1>1 DEF TypeOK
<1> HIDE DEF queue, bytesOf
<1>3. PICK n \in 0..Len(queue) :
        LET done == Refused(queue, n)
        IN  /\ pendingCommands' = (pendingCommands \cup {r}) \ done
            /\ commandUsed' = commandUsed + 1 - Cardinality(done)
            /\ queuedUsed' = queuedUsed + bytes - Reserved(bytesOf, done)
            /\ outcome' = [x \in Request |-> IF x \in done THEN "rejected"
                                             ELSE IF x = r THEN "pending"
                                             ELSE outcome[x]]
            /\ commandQueues' = [commandQueues EXCEPT ![s] = AfterRefusals(queue, n)]
            /\ active' = (active \ done) \cup Head1(queue, n)
            /\ sent' = Written(s, queue, n)
  BY DEF DispatchCommand, queue, bytesOf
<1> DEFINE done == Refused(queue, n)
<1>4. /\ done \subseteq Request
      /\ AfterRefusals(queue, n) \in Seq(Request)
      /\ Head1(queue, n) \subseteq Request
  BY <1>1, AdvanceType
<1> HIDE DEF done
<1>5. Cardinality(done) \in Nat /\ IsFiniteSet(done)
  BY <1>4, RequestsFinite
<1>6. Reserved(bytesOf, done) \in Nat
  BY <1>2, <1>4, <1>5, ReservedType
<1>7. commandUsed' \in Int /\ queuedUsed' \in Int
  <2>1. commandUsed' = commandUsed + 1 - Cardinality(done)
    BY <1>3 DEF done
  <2>2. queuedUsed' = queuedUsed + bytes - Reserved(bytesOf, done)
    BY <1>3 DEF done
  <2>3. commandUsed \in Int /\ queuedUsed \in Int
    BY DEF TypeOK
  <2> QED
    BY <1>1, <1>5, <1>6, <2>1, <2>2, <2>3
<1>8. outcome' \in [Request -> Settled \cup {"none", "pending"}]
  BY <1>3 DEF TypeOK, Settled
<1>9. sent' \in [Socket -> Seq(Request)]
  <2>1. queue \in [1..Len(queue) -> Request] /\ Len(queue) \in Nat
    BY <1>1, LenProperties
  <2>2. ASSUME n < Len(queue), NEW k \in Socket
        PROVE  Append(sent[k], queue[n + 1]) \in Seq(Request)
    <3>1. sent[k] \in Seq(Request)
      BY DEF TypeOK
    <3>2. queue[n + 1] \in Request
      BY <2>1, <2>2
    <3> QED
      BY <3>1, <3>2, AppendProperties
  <2> QED
    BY <1>3, <2>1, <2>2 DEF TypeOK, Written
<1>10. /\ pendingSession' \in [Request -> Sid \cup {NoSession}]
       /\ pendingSocket' \in [Request -> Socket \cup {NoSocket}]
       /\ pendingBytes' \in [Request -> Nat]
       /\ nextRequest' \in Nat \ {0}
  <2>1. /\ pendingSession' = [pendingSession EXCEPT ![r] = s]
        /\ pendingSocket' = [pendingSocket EXCEPT ![r] = sessions[s]]
        /\ pendingBytes' = [pendingBytes EXCEPT ![r] = bytes]
        /\ nextRequest' = nextRequest + 1
    BY DEF DispatchCommand
  <2> QED
    BY <1>1, <2>1 DEF TypeOK
<1> QED
  BY <1>1, <1>3, <1>4, <1>7, <1>8, <1>9, <1>10 DEF TypeOK, CommandType

(* The rest of the type invariant.                                         *)
SessionType ==
    /\ sessions \in [Sid -> Socket \cup {NoSocket}]
    /\ sessionIdsBySocket \in [Socket -> Sid \cup {NoSession}]
    /\ retainedReservations \in [Sid -> Nat]
    /\ sessionReservations \subseteq Sid
    /\ sessionUsed \in Int /\ retainedUsed \in Int

(* A registration keeps the session state typed.                           *)
LEMMA RegisterType ==
    ASSUME TypeOK, NEW k \in Socket, NEW s \in Sid, NEW b \in RetainedSizes,
           NEW replace \in BOOLEAN, RegisterSession(k, s, b, replace)
    PROVE  SessionType'
<1>1. /\ Transferred(k, s) \subseteq Sid
      /\ Abandoned(k, s) \subseteq Sid
      /\ Renamed(k, s) \subseteq Sid
  BY DEF TypeOK, Transferred, Abandoned, Renamed
<1> DEFINE T == Transferred(k, s) \cup Abandoned(k, s)
           A == Abandoned(k, s) \cap sessionReservations
           reserve == IF Transferred(k, s) \cap sessionReservations = {} THEN 1 ELSE 0
<1>2. T \in SUBSET Sid /\ A \in SUBSET Sid
  BY <1>1
<1>3. /\ retainedUsed' = retainedUsed + (b - Reserved(retainedReservations, T))
      /\ sessionUsed' = sessionUsed + reserve - Cardinality(A)
  BY DEF RegisterSession
<1>4. reserve \in Int
  OBVIOUS
<1> HIDE DEF T, A, reserve
<1>5. IsFiniteSet(T) /\ Cardinality(A) \in Nat
  BY <1>2, SessionsFinite
<1>6. Reserved(retainedReservations, T) \in Nat
  BY <1>2, <1>5, ReservedType DEF TypeOK
<1>7. retainedUsed' \in Int /\ sessionUsed' \in Int
  BY <1>3, <1>4, <1>5, <1>6 DEF TypeOK
<1>8. /\ sessions' \in [Sid -> Socket \cup {NoSocket}]
      /\ retainedReservations' \in [Sid -> Nat]
      /\ sessionReservations' \subseteq Sid
  BY DEF TypeOK, RegisterSession
<1>9. sessionIdsBySocket' \in [Socket -> Sid \cup {NoSession}]
  BY DEF TypeOK, RegisterSession, OwnerBySocket
<1> QED
  BY <1>7, <1>8, <1>9 DEF SessionType

(* So does removing sessions.                                              *)
LEMMA RemoveType ==
    ASSUME TypeOK, NEW S \in SUBSET Sid, RemoveSessions(S)
    PROVE  SessionType'
<1>1. IsFiniteSet(S)
  BY SessionsFinite
<1>2. Reserved(retainedReservations, S) \in Nat
  BY <1>1, ReservedType DEF TypeOK
<1>3. Cardinality(S \cap sessionReservations) \in Nat
  BY SessionsFinite
<1> QED
  BY <1>2, <1>3 DEF TypeOK, RemoveSessions, SessionType

-----------------------------------------------------------------------------
(* What a step does to the broker state, whoever takes it: the steps of    *)
(* Next, and those of a daemon that hands on a message of a transport that *)
(* died meanwhile, or removes several sessions at once.                    *)
SessionOperation ==
    \/ \E k \in Socket, s \in Sid, b \in RetainedSizes, replace \in BOOLEAN :
          RegisterSession(k, s, b, replace)
    \/ \E k \in Socket, b \in RetainedSizes : UpdateSnapshot(k, b)
    \/ \E k \in Socket : MarkSessionSeen(k)

(* Sessions are removed, by a sweep, a close or a request.                  *)
RemoveOperation ==
    \E S \in SUBSET Live :
        /\ RemoveSessions(S)
        /\ sincePrune' \in -1..(ttl + 1)
        /\ open' \in [Socket -> BOOLEAN]
        /\ UNCHANGED <<silence, shutdownError>>

(* A command is sent, answered or given up.                                 *)
CommandOperation ==
    \/ \E k \in Socket, r \in Disclosed, ok \in BOOLEAN : HandleCommandResult(k, r, ok)
    \/ \E s \in Sid, b \in CommandSizes : DispatchCommand(s, b)
    \/ \E r \in Request : CommandTimeout(r)

(* All of them.                                                             *)
Operation ==
    \/ SessionOperation
    \/ RemoveOperation
    \/ CommandOperation
    \/ Shutdown
    \/ \E k \in Socket : TransportDies(k) \/ TransportOpens(k)
    \/ \E d \in ClockSteps : ClockAdvances(d)

(* Every step of the broker core is one of them.                           *)
LEMMA NextOperates ==
    ASSUME TypeOK, Next
    PROVE  Operation
<1>1. ASSUME NEW k \in Socket, ProducerSends(k) PROVE Operation
  BY <1>1 DEF ProducerSends, Operation, SessionOperation, CommandOperation
<1>2. ASSUME NEW k \in Socket, UnregisterSocket(k) PROVE Operation
  <2>1. {sessionIdsBySocket[k]} \in SUBSET Live
    BY <1>2 DEF UnregisterSocket, TypeOK, Live
  <2>2. /\ RemoveSessions({sessionIdsBySocket[k]})
        /\ UNCHANGED <<silence, sincePrune, shutdownError, open>>
    BY <1>2 DEF UnregisterSocket
  <2>3. sincePrune' \in -1..(ttl + 1) /\ open' \in [Socket -> BOOLEAN]
    BY <2>2 DEF TypeOK
  <2>4. RemoveOperation
    BY <2>1, <2>2, <2>3 DEF RemoveOperation
  <2> QED
    BY <2>4 DEF Operation
<1>3. ASSUME PruneStaleSessions PROVE Operation
  <2> DEFINE S == IF WallClockJumped THEN {} ELSE Stale
  <2>1. S \in SUBSET Live /\ RemoveSessions(S)
    BY <1>3 DEF PruneStaleSessions, Stale
  <2> HIDE DEF S
  <2>2. sincePrune' \in -1..(ttl + 1) /\ open' \in [Socket -> BOOLEAN]
        /\ UNCHANGED <<silence, shutdownError>>
    BY <1>3 DEF PruneStaleSessions, TypeOK
  <2>3. RemoveOperation
    BY <2>1, <2>2 DEF RemoveOperation
  <2> QED
    BY <2>3 DEF Operation
<1> QED
  BY <1>1, <1>2, <1>3 DEF Next, Operation, CommandOperation

(* Every step keeps the type invariant, given that pending commands target *)
(* sessions.                                                               *)
LEMMA TypeStep ==
    ASSUME TypeOK, QueuesSound, Operation
    PROVE  TypeOK'
<1> DEFINE Rest == /\ silence' \in [Sid -> 0..ttl]
                   /\ sincePrune' \in -1..(ttl + 1)
                   /\ shutdownError' \in BOOLEAN
                   /\ open' \in [Socket -> BOOLEAN]
                   /\ answeredBy' \in [Request -> Socket \cup {NoSocket}]
<1>a. ASSUME NEW r \in pendingCommands PROVE pendingSession[r] \in Sid
  BY DEF QueuesSound, Live
<1>b. ASSUME SessionType', CommandType', Rest PROVE TypeOK'
  BY <1>b DEF SessionType, CommandType, TypeOK
<1>c. ASSUME UNCHANGED commandVars PROVE CommandType'
  BY <1>c DEF commandVars, TypeOK, CommandType
<1>d. ASSUME UNCHANGED <<ownerVars, sizeVars>> PROVE SessionType'
  BY <1>d DEF ownerVars, sizeVars, TypeOK, SessionType
<1>1. ASSUME NEW k \in Socket, NEW s \in Sid, NEW b \in RetainedSizes,
             NEW replace \in BOOLEAN, RegisterSession(k, s, b, replace)
      PROVE  TypeOK'
  <2>1. SessionType'
    BY <1>1, RegisterType
  <2>2. CommandType'
    BY <1>1, RejectType DEF RegisterSession
  <2>3. Rest
    BY <1>1 DEF RegisterSession, RejectPendingCommandsForSessions, TypeOK
  <2> QED
    BY <2>1, <2>2, <2>3, <1>b
<1>2. ASSUME NEW k \in Socket, NEW b \in RetainedSizes, UpdateSnapshot(k, b)
      PROVE  TypeOK'
  <2>1. SessionType'
    BY <1>2 DEF UpdateSnapshot, Resize, ownerVars, TypeOK, SessionType
  <2>2. Rest
    BY <1>2 DEF UpdateSnapshot, commandVars, TypeOK
  <2> QED
    BY <1>2, <2>1, <2>2, <1>b, <1>c DEF UpdateSnapshot
<1>3. ASSUME NEW k \in Socket, MarkSessionSeen(k) PROVE TypeOK'
  <2>1. Rest
    BY <1>3 DEF MarkSessionSeen, commandVars, TypeOK
  <2> QED
    BY <1>3, <2>1, <1>b, <1>c, <1>d DEF MarkSessionSeen
<1>4. ASSUME NEW r \in pendingCommands, NEW how \in Settled, FinishPending(r, how),
             UNCHANGED <<ownerVars, sizeVars, silence, sincePrune, shutdownError, open>>,
             answeredBy' \in [Request -> Socket \cup {NoSocket}]
      PROVE  TypeOK'
  <2>1. CommandType'
    BY <1>4, <1>a, FinishType
  <2>2. Rest
    BY <1>4 DEF TypeOK
  <2> QED
    BY <1>4, <2>1, <2>2, <1>b, <1>d
<1>5. ASSUME NEW k \in Socket, NEW r, NEW ok \in BOOLEAN, HandleCommandResult(k, r, ok)
      PROVE  TypeOK'
  <2>1. answeredBy' \in [Request -> Socket \cup {NoSocket}]
    BY <1>5 DEF HandleCommandResult, TypeOK
  <2> QED
    BY <1>5, <2>1, <1>4 DEF HandleCommandResult, Settled
<1>6. ASSUME NEW r \in Request, CommandTimeout(r) PROVE TypeOK'
  <2>1. answeredBy' \in [Request -> Socket \cup {NoSocket}]
    BY <1>6 DEF CommandTimeout, TypeOK
  <2> QED
    BY <1>6, <2>1, <1>4 DEF CommandTimeout, Settled
<1>7. ASSUME RemoveOperation PROVE TypeOK'
  <2>1. PICK S \in SUBSET Live : RemoveSessions(S)
    BY <1>7 DEF RemoveOperation
  <2>2. S \in SUBSET Sid
    BY <2>1 DEF Live
  <2>3. SessionType' /\ CommandType'
    BY <2>1, <2>2, RemoveType, RejectType DEF RemoveSessions
  <2>4. Rest
    BY <1>7 DEF RemoveOperation, RemoveSessions, RejectPendingCommandsForSessions, TypeOK
  <2> QED
    BY <2>3, <2>4, <1>b
<1>9. ASSUME NEW s \in Sid, NEW b \in CommandSizes, DispatchCommand(s, b) PROVE TypeOK'
  <2>1. Rest
    BY <1>9 DEF DispatchCommand, TypeOK
  <2> QED
    BY <1>9, <2>1, <1>b, <1>d, DispatchType DEF DispatchCommand
<1>10. ASSUME Shutdown PROVE TypeOK'
  <2>1. /\ pendingCommands' \subseteq Request
        /\ active' \subseteq Request
        /\ commandUsed' \in Int /\ queuedUsed' \in Int
        /\ outcome' \in [Request -> Settled \cup {"none", "pending"}]
    BY <1>10, SettleType DEF Shutdown, TypeOK, Settled
  <2>2. commandQueues' \in [Sid -> Seq(Request)]
    BY <1>10, EmptySeq DEF Shutdown
  <2>3. CommandType'
    BY <1>10, <2>1, <2>2 DEF Shutdown, CommandType, TypeOK
  <2>4. Reserved(retainedReservations, Sid) \in Nat
    BY ReservedType DEF TypeOK
  <2>5. Cardinality(sessionReservations) \in Nat
    BY SessionsFinite DEF TypeOK
  <2>6. SessionType'
    BY <1>10, <2>4, <2>5 DEF Shutdown, SessionType, TypeOK
  <2>7. Rest
    BY <1>10 DEF Shutdown, TypeOK
  <2> QED
    BY <2>3, <2>6, <2>7, <1>b
<1>11. ASSUME NEW k \in Socket, TransportDies(k) PROVE TypeOK'
  <2>1. Rest
    BY <1>11 DEF TransportDies, commandVars, TypeOK
  <2> QED
    BY <1>11, <2>1, <1>b, <1>c, <1>d DEF TransportDies
<1>12. ASSUME NEW k \in Socket, TransportOpens(k) PROVE TypeOK'
  <2>1. Rest
    BY <1>12 DEF TransportOpens, TypeOK
  <2>2. CommandType'
    BY <1>12, EmptySeq DEF TransportOpens, TypeOK, CommandType
  <2> QED
    BY <1>12, <2>1, <2>2, <1>b, <1>d DEF TransportOpens
<1>13. ASSUME NEW d \in ClockSteps, ClockAdvances(d) PROVE TypeOK'
  <2>1. Rest
    BY <1>13 DEF ClockAdvances, commandVars, TypeOK, Saturate
  <2> QED
    BY <1>13, <2>1, <1>b, <1>c, <1>d DEF ClockAdvances
<1> QED
  BY <1>1, <1>2, <1>3, <1>5, <1>6, <1>7, <1>9, <1>10, <1>11, <1>12, <1>13
  DEF Operation, SessionOperation, CommandOperation

-----------------------------------------------------------------------------
(* Removing sessions keeps the owner maps inverse to each other.           *)
LEMMA RemoveOwners ==
    ASSUME TypeOK, OwnersAgree, NEW S \in SUBSET Sid, RemoveSessions(S)
    PROVE  OwnersAgree'
BY DEF TypeOK, OwnersAgree, RemoveSessions

(* Every step keeps the owner maps inverse to each other.                  *)
LEMMA OwnerStep ==
    ASSUME TypeOK, OwnersAgree, Operation
    PROVE  OwnersAgree'
<1>a. ASSUME UNCHANGED ownerVars PROVE OwnersAgree'
  BY <1>a DEF ownerVars, OwnersAgree
<1>1. ASSUME NEW k \in Socket, NEW s \in Sid, NEW b \in RetainedSizes,
             NEW replace \in BOOLEAN, RegisterSession(k, s, b, replace)
      PROVE  OwnersAgree'
  <2>1. /\ sessions' = [x \in Sid |-> IF x = s THEN k
                                      ELSE IF x \in Renamed(k, s) THEN NoSocket
                                      ELSE sessions[x]]
        /\ sessionIdsBySocket' = OwnerBySocket(k, s)
    BY <1>1 DEF RegisterSession
  <2>2. \A x \in Sid : sessions'[x] # NoSocket => sessionIdsBySocket'[sessions'[x]] = x
    BY <2>1 DEF TypeOK, OwnersAgree, OwnerBySocket, TakesOver, Renamed
  <2>3. \A y \in Socket : sessionIdsBySocket'[y] # NoSession
                            => sessions'[sessionIdsBySocket'[y]] = y
    BY <2>1 DEF TypeOK, OwnersAgree, OwnerBySocket, TakesOver, Renamed
  <2> QED
    BY <2>2, <2>3 DEF OwnersAgree
<1>2. ASSUME NEW S \in SUBSET Live, RemoveSessions(S) PROVE OwnersAgree'
  <2>1. S \in SUBSET Sid
    BY DEF Live
  <2> QED
    BY <1>2, <2>1, RemoveOwners
<1>4. ASSUME Shutdown PROVE OwnersAgree'
  BY <1>4 DEF Shutdown, OwnersAgree
<1> QED
  BY <1>a, <1>1, <1>2, <1>4
  DEF Operation, SessionOperation, RemoveOperation, CommandOperation, UpdateSnapshot,
      MarkSessionSeen, HandleCommandResult, CommandTimeout, DispatchCommand, TransportDies,
      TransportOpens, ClockAdvances

-----------------------------------------------------------------------------
(* The session half of BudgetsExact.                                       *)
SessionBudgets ==
    /\ sessionReservations = Live
    /\ \A s \in Sid : retainedReservations[s] # 0 <=> s \in Live
    /\ sessionUsed = Cardinality(Live) /\ sessionUsed <= maxSessions
    /\ retainedUsed = Reserved(retainedReservations, Sid) /\ retainedUsed <= maxRetainedBytes

(* What Sid reserves is what a subset reserves plus what the others do.    *)
LEMMA ReservedSplit ==
    ASSUME NEW f \in [Sid -> Nat], NEW S \in SUBSET Sid
    PROVE  /\ Reserved(f, Sid) = Reserved(f, S) + Reserved(f, Sid \ S)
           /\ Reserved(f, S) \in Nat /\ Reserved(f, Sid \ S) \in Nat
<1>1. IsFiniteSet(S) /\ IsFiniteSet(Sid \ S)
  BY SessionsFinite
<1>2. S \cap (Sid \ S) = {} /\ S \cup (Sid \ S) = Sid
  OBVIOUS
<1>3. Reserved(f, S \cup (Sid \ S)) = Reserved(f, S) + Reserved(f, Sid \ S)
  BY <1>1, <1>2, ReservedUnion
<1> QED
  BY <1>1, <1>2, <1>3, ReservedType

(* Removing live sessions releases exactly what they reserved.             *)
LEMMA RemoveBudgets ==
    ASSUME TypeOK, SessionBudgets, NEW S \in SUBSET Live, RemoveSessions(S)
    PROVE  SessionBudgets'
<1>0. S \in SUBSET Sid /\ Live \in SUBSET Sid
  BY DEF Live
<1>1. Live' = Live \ S
  BY DEF RemoveSessions, Live, TypeOK
<1>2. sessionReservations' = Live' /\ S \cap sessionReservations = S
  BY <1>1 DEF RemoveSessions, SessionBudgets
<1>3. Cardinality(Live \ S) = Cardinality(Live) - Cardinality(S)
  <2>1. IsFiniteSet(Live)
    BY <1>0, SessionsFinite
  <2>2. Live \cap S = S
    OBVIOUS
  <2> QED
    BY <2>1, <2>2, FS_Difference
<1>4. Cardinality(S) \in Nat /\ Cardinality(Live) \in Nat
  BY <1>0, SessionsFinite
<1>5. sessionUsed' = Cardinality(Live') /\ sessionUsed' <= maxSessions
  BY <1>1, <1>2, <1>3, <1>4 DEF RemoveSessions, SessionBudgets
<1>6. \A s \in Sid : retainedReservations'[s] # 0 <=> s \in Live'
  BY <1>1 DEF RemoveSessions, SessionBudgets
<1>7. retainedUsed' = Reserved(retainedReservations', Sid)
      /\ retainedUsed' <= maxRetainedBytes
  <2> DEFINE f == retainedReservations
             g == retainedReservations'
  <2>1. f \in [Sid -> Nat] /\ g = [s \in Sid |-> IF s \in S THEN 0 ELSE f[s]]
    BY DEF TypeOK, RemoveSessions
  <2>2. g \in [Sid -> Nat] /\ (\A s \in S : g[s] = 0) /\ \A s \in Sid \ S : g[s] = f[s]
    BY <1>0, <2>1
  <2>3. retainedUsed = Reserved(f, Sid) /\ retainedUsed' = retainedUsed - Reserved(f, S)
    BY DEF SessionBudgets, RemoveSessions
  <2>4. retainedUsed <= maxRetainedBytes
    BY DEF SessionBudgets
  <2> HIDE DEF f, g
  <2>5. Reserved(g, S) = 0 /\ Reserved(g, Sid \ S) = Reserved(f, Sid \ S)
    BY <2>2, ReservedZero, ReservedSame
  <2>6. /\ Reserved(f, Sid) = Reserved(f, S) + Reserved(f, Sid \ S)
        /\ Reserved(g, Sid) = Reserved(g, S) + Reserved(g, Sid \ S)
        /\ Reserved(f, S) \in Nat /\ Reserved(f, Sid \ S) \in Nat
    BY <1>0, <2>1, <2>2, ReservedSplit
  <2>7. retainedUsed' = Reserved(g, Sid) /\ retainedUsed' <= maxRetainedBytes
    BY <2>3, <2>4, <2>5, <2>6
  <2> QED
    BY <2>7 DEF g
<1> QED
  BY <1>2, <1>5, <1>6, <1>7 DEF SessionBudgets

(* Replacing some reservations of Sid changes the total by their difference.*)
LEMMA ReservedReplace ==
    ASSUME NEW f \in [Sid -> Nat], NEW g \in [Sid -> Nat], NEW S \in SUBSET Sid,
           \A x \in Sid \ S : g[x] = f[x]
    PROVE  Reserved(g, Sid) = Reserved(f, Sid) - Reserved(f, S) + Reserved(g, S)
<1>1. Reserved(g, Sid \ S) = Reserved(f, Sid \ S)
  BY ReservedSame
<1>2. /\ Reserved(f, Sid) = Reserved(f, S) + Reserved(f, Sid \ S)
      /\ Reserved(g, Sid) = Reserved(g, S) + Reserved(g, Sid \ S)
      /\ Reserved(f, S) \in Nat /\ Reserved(f, Sid \ S) \in Nat
      /\ Reserved(g, S) \in Nat
  BY ReservedSplit
<1> QED
  BY <1>1, <1>2

(* A registration moves reservations to the new identity, retires those of *)
(* an abandoned one and charges the difference.                            *)
LEMMA RegisterBudgets ==
    ASSUME TypeOK, OwnersAgree, SessionBudgets,
           NEW k \in Socket, NEW s \in Sid, NEW b \in RetainedSizes,
           NEW replace \in BOOLEAN, RegisterSession(k, s, b, replace)
    PROVE  SessionBudgets'
<1> DEFINE R == Renamed(k, s)
           T == Transferred(k, s) \cup Abandoned(k, s)
           Z == {s} \cup R
           f == retainedReservations
           g == retainedReservations'
           reserve == IF Transferred(k, s) \cap sessionReservations = {} THEN 1 ELSE 0
<1>0. b \in Nat \ {0}
  OBVIOUS
<1>1. R \subseteq Live /\ s \notin R /\ Live \subseteq Sid
  BY DEF TypeOK, OwnersAgree, Renamed, Live
<1>2. Live' = (Live \ R) \cup {s}
  BY DEF RegisterSession, Live, TypeOK
<1>3. sessionReservations' = Live'
  BY <1>2 DEF RegisterSession, SessionBudgets
<1> DEFINE Counted == /\ sessionUsed' = Cardinality(Live') /\ sessionUsed' <= maxSessions
                      /\ Reserved(f, T) = Reserved(f, Z)
<1>4. ASSUME s \in Live PROVE Counted
  <2>1. Transferred(k, s) = {s} /\ Abandoned(k, s) = R /\ T = Z
    BY <1>4 DEF Transferred, Abandoned, Live
  <2>2. reserve = 0 /\ R \cap sessionReservations = R
    BY <1>1, <1>4, <2>1 DEF SessionBudgets
  <2>3. IsFiniteSet(Live) /\ Cardinality(Live) \in Nat /\ Cardinality(R) \in Nat
    BY <1>1, SessionsFinite
  <2>4. sessionUsed' = sessionUsed - Cardinality(R)
    <3>1. sessionUsed' = sessionUsed + reserve - Cardinality(R)
      BY <2>1, <2>2 DEF RegisterSession
    <3> QED
      BY <2>2, <2>3, <3>1 DEF TypeOK
  <2>5. Live' = Live \ R /\ Live \cap R = R
    BY <1>1, <1>2, <1>4
  <2>6. Cardinality(Live') = Cardinality(Live) - Cardinality(R)
    BY <2>5, <2>3, FS_Difference
  <2>7. sessionUsed' = Cardinality(Live') /\ sessionUsed' <= maxSessions
    BY <2>4, <2>3, <2>6 DEF SessionBudgets
  <2>8. Reserved(f, T) = Reserved(f, Z)
    BY <2>1
  <2> QED
    BY <2>7, <2>8
<1>5. ASSUME s \notin Live PROVE Counted
  <2>1. Transferred(k, s) = R /\ Abandoned(k, s) = {} /\ T = R
    BY <1>5 DEF TypeOK, OwnersAgree, Transferred, Abandoned, Renamed, Live
  <2>2. Reserved(f, T) = Reserved(f, Z)
    <3>1. Reserved(f, {s}) = 0
      BY <1>5, ReservedZero DEF SessionBudgets
    <3>2. IsFiniteSet({s}) /\ IsFiniteSet(R) /\ \A x \in Z : f[x] \in Nat
      BY <1>1, SessionsFinite DEF TypeOK
    <3>3. Reserved(f, Z) = Reserved(f, {s}) + Reserved(f, R)
      BY <1>1, <3>2, ReservedUnion
    <3>4. Reserved(f, R) \in Nat
      BY <3>2, ReservedType
    <3> QED
      BY <2>1, <3>1, <3>3, <3>4
  <2>3. IsFiniteSet(Live) /\ Cardinality(Live) \in Nat
    BY <1>1, SessionsFinite
  <2>4. sessionUsed' = sessionUsed + reserve /\ reserve <= maxSessions - sessionUsed
    <3>1. /\ sessionUsed' = sessionUsed + reserve - Cardinality({} \cap sessionReservations)
          /\ reserve <= maxSessions - sessionUsed
      BY <2>1 DEF RegisterSession
    <3>2. Cardinality({} \cap sessionReservations) = 0
      BY FS_EmptySet
    <3> QED
      BY <3>1, <3>2 DEF TypeOK
  <2>5. CASE R = {}
    <3>1. reserve = 1 /\ Live' = Live \cup {s}
      BY <1>2, <2>1, <2>5
    <3>2. Cardinality(Live') = Cardinality(Live) + 1
      BY <1>5, <2>3, <3>1, FS_AddElement
    <3> QED
      BY <2>2, <2>3, <2>4, <3>1, <3>2 DEF SessionBudgets
  <2>6. CASE R # {}
    <3>1. PICK p \in Live : R = {p}
      BY <1>1, <2>6 DEF Renamed
    <3>2. reserve = 0
      BY <2>1, <3>1 DEF SessionBudgets
    <3>3. IsFiniteSet(Live \ {p}) /\ Cardinality(Live \ {p}) = Cardinality(Live) - 1
      BY <2>3, FS_RemoveElement
    <3>4. Cardinality((Live \ {p}) \cup {s}) = Cardinality(Live \ {p}) + 1
      BY <1>5, <3>3, FS_AddElement
    <3>5. Cardinality(Live') = Cardinality(Live)
      BY <1>2, <2>3, <3>1, <3>3, <3>4
    <3> QED
      BY <2>2, <2>3, <2>4, <3>2, <3>5 DEF SessionBudgets
  <2> QED
    BY <2>5, <2>6
<1>6. Counted
  BY <1>4, <1>5
<1>7. /\ g = [x \in Sid |-> IF x = s THEN b ELSE IF x \in R THEN 0 ELSE f[x]]
      /\ f \in [Sid -> Nat]
  BY DEF RegisterSession, TypeOK
<1>8. g \in [Sid -> Nat] /\ \A x \in Sid \ Z : g[x] = f[x]
  BY <1>0, <1>7
<1>9. \A x \in Sid : g[x] # 0 <=> x \in Live'
  BY <1>0, <1>2, <1>7 DEF SessionBudgets
<1>10. /\ retainedUsed' = retainedUsed + (b - Reserved(f, T))
       /\ b - Reserved(f, T) <= maxRetainedBytes - retainedUsed
       /\ retainedUsed = Reserved(f, Sid)
  BY DEF RegisterSession, SessionBudgets
<1>11. Reserved(g, Z) = b
  <2>1. g[s] = b /\ \A x \in R : g[x] = 0
    BY <1>1, <1>7
  <2> HIDE DEF g
  <2>2. Reserved(g, R) = 0
    BY <2>1, ReservedZero
  <2>3. Reserved(g, {s}) = b
    BY <1>0, <2>1, ReservedOne
  <2>4. IsFiniteSet({s}) /\ IsFiniteSet(R) /\ \A x \in Z : g[x] \in Nat
    BY <1>1, <1>8, SessionsFinite
  <2>5. Reserved(g, Z) = Reserved(g, {s}) + Reserved(g, R)
    BY <1>1, <2>4, ReservedUnion
  <2> QED
    BY <1>0, <2>2, <2>3, <2>5
<1>12. Z \in SUBSET Sid
  BY <1>1
<1> HIDE DEF Z, f, g, T, R
<1>13. Reserved(g, Sid) = Reserved(f, Sid) - Reserved(f, Z) + Reserved(g, Z)
  BY <1>7, <1>8, <1>12, ReservedReplace
<1>14. Reserved(f, Sid) \in Nat /\ Reserved(f, Z) \in Nat
  BY <1>7, <1>12, ReservedType, SessionsFinite
<1>15. retainedUsed' = Reserved(g, Sid) /\ retainedUsed' <= maxRetainedBytes
  BY <1>0, <1>6, <1>10, <1>11, <1>13, <1>14
<1> QED
  BY <1>3, <1>6, <1>9, <1>15 DEF SessionBudgets, g

(* A snapshot update charges the difference of the two sizes.              *)
LEMMA UpdateBudgets ==
    ASSUME TypeOK, SessionBudgets, NEW k \in Socket, NEW b \in RetainedSizes,
           UpdateSnapshot(k, b)
    PROVE  SessionBudgets'
<1> DEFINE s == sessionIdsBySocket[k]
           f == retainedReservations
           g == retainedReservations'
<1>0. b \in Nat \ {0} /\ s \in Sid /\ f \in [Sid -> Nat]
  BY DEF TypeOK, UpdateSnapshot
<1>1. /\ Live' = Live /\ sessionReservations' = sessionReservations
      /\ sessionUsed' = sessionUsed
  BY DEF UpdateSnapshot, Live, ownerVars
<1>2. /\ g = [f EXCEPT ![s] = b] /\ f[s] # 0
      /\ retainedUsed' = retainedUsed + (b - f[s])
      /\ b - f[s] <= maxRetainedBytes - retainedUsed
      /\ retainedUsed = Reserved(f, Sid)
  BY DEF UpdateSnapshot, Resize, SessionBudgets
<1>3. g \in [Sid -> Nat] /\ g[s] = b /\ \A x \in Sid \ {s} : g[x] = f[x]
  BY <1>0, <1>2
<1>4. \A x \in Sid : g[x] # 0 <=> x \in Live
  BY <1>0, <1>2, <1>3 DEF SessionBudgets
<1> HIDE DEF f, g, s
<1>5. Reserved(f, {s}) = f[s] /\ Reserved(g, {s}) = b /\ f[s] \in Nat
  BY <1>0, <1>3, ReservedOne
<1>6. Reserved(g, Sid) = Reserved(f, Sid) - Reserved(f, {s}) + Reserved(g, {s})
  BY <1>0, <1>3, ReservedReplace
<1>7. Reserved(f, Sid) \in Nat
  BY <1>0, ReservedType
<1>8. retainedUsed' = Reserved(g, Sid) /\ retainedUsed' <= maxRetainedBytes
  BY <1>0, <1>2, <1>5, <1>6, <1>7
<1>9. sessionUsed' = Cardinality(Live') /\ sessionUsed' <= maxSessions
      /\ sessionReservations' = Live'
  BY <1>1 DEF SessionBudgets
<1> QED
  BY <1>1, <1>4, <1>8, <1>9 DEF SessionBudgets, g

(* Every step keeps the session budgets exact.                             *)
LEMMA SessionBudgetStep ==
    ASSUME TypeOK, OwnersAgree, SessionBudgets, Operation
    PROVE  SessionBudgets'
<1>a. ASSUME UNCHANGED <<ownerVars, sizeVars>> PROVE SessionBudgets'
  BY <1>a DEF ownerVars, sizeVars, SessionBudgets, Live
<1>3. ASSUME Shutdown PROVE SessionBudgets'
  <2>1. Live' = {}
    BY <1>3 DEF Shutdown, Live
  <2>2. Reserved(retainedReservations', Sid) = 0
    BY <1>3, ReservedZero DEF Shutdown
  <2>3. Cardinality({}) = 0
    BY FS_EmptySet
  <2>4. Reserved(retainedReservations, Sid) \in Nat /\ Cardinality(Live) \in Nat
    BY ReservedType, SessionsFinite DEF TypeOK, Live
  <2>5. retainedUsed' = 0 /\ sessionUsed' = 0
    BY <1>3, <2>4 DEF Shutdown, SessionBudgets
  <2>6. sessionReservations' = {} /\ \A s \in Sid : retainedReservations'[s] = 0
    BY <1>3 DEF Shutdown
  <2> QED
    BY <2>1, <2>2, <2>3, <2>5, <2>6 DEF SessionBudgets
<1> QED
  BY <1>a, <1>3, RemoveBudgets, RegisterBudgets, UpdateBudgets
  DEF Operation, SessionOperation, RemoveOperation, CommandOperation, MarkSessionSeen,
      HandleCommandResult, CommandTimeout, DispatchCommand, TransportDies, TransportOpens,
      ClockAdvances

-----------------------------------------------------------------------------
(***************************************************************************)
(* The command half: the per-session FIFOs, the command budgets, and the   *)
(* theorems that combine both halves.                                      *)
(***************************************************************************)
(* A FIFO whose members are in admission order.                            *)
Sorted(q) == \A i, j \in 1..Len(q) : i < j => q[i] < q[j]

(* Removing the i-th member of a sorted FIFO closes the gap.               *)
LEMMA SpliceFacts ==
    ASSUME NEW q \in Seq(Request), Sorted(q), NEW i \in 1..Len(q)
    PROVE  /\ Splice(q, q[i]) \in Seq(Request)
           /\ Len(Splice(q, q[i])) = Len(q) - 1
           /\ \A j \in 1..(Len(q) - 1) :
                 Splice(q, q[i])[j] = IF j < i THEN q[j] ELSE q[j + 1]
           /\ Sorted(Splice(q, q[i]))
<1> DEFINE c == CHOOSE j \in 1..Len(q) : q[j] = q[i]
           e == [j \in 1..(Len(q) - 1) |-> IF j < i THEN q[j] ELSE q[j + 1]]
<1>1. q \in [1..Len(q) -> Request] /\ Len(q) \in Nat /\ Len(q) >= 1
  BY LenProperties
<1>2. \A j \in 1..Len(q) : q[j] \in Int
  BY <1>1 DEF Request
<1>3. c \in 1..Len(q) /\ q[c] = q[i]
  OBVIOUS
<1>4. c = i
  BY <1>1, <1>2, <1>3 DEF Sorted
<1>5. Splice(q, q[i]) = e
  BY <1>4 DEF Splice
<1> HIDE DEF c
<1>6. e \in [1..(Len(q) - 1) -> Request]
  BY <1>1
<1>7. e \in Seq(Request) /\ Len(e) = Len(q) - 1
  BY <1>1, <1>6, IsASeq, LenProperties
<1>8. Sorted(e)
  BY <1>1, <1>2, <1>7 DEF Sorted
<1> QED
  BY <1>5, <1>7, <1>8

(* The FIFO that advancing leaves: sorted, disjoint from what was refused, *)
(* and nothing else is lost.                                               *)
LEMMA AdvanceFacts ==
    ASSUME NEW q \in Seq(Request), Sorted(q), NEW n \in 0..Len(q)
    PROVE  /\ AfterRefusals(q, n) \in Seq(Request)
           /\ Len(AfterRefusals(q, n)) = Len(q) - n
           /\ \A j \in 1..(Len(q) - n) : AfterRefusals(q, n)[j] = q[n + j]
           /\ Sorted(AfterRefusals(q, n))
           /\ Refused(q, n) \subseteq Request
           /\ \A j \in 1..(Len(q) - n) : q[n + j] \notin Refused(q, n)
           /\ \A j \in 1..Len(q) : q[j] \notin Refused(q, n)
                 => (j - n) \in 1..(Len(q) - n) /\ AfterRefusals(q, n)[j - n] = q[j]
           /\ Head1(q, n) = IF n < Len(q) THEN {q[n + 1]} ELSE {}
<1> DEFINE a == AfterRefusals(q, n)
<1>1. q \in [1..Len(q) -> Request] /\ Len(q) \in Nat
  BY LenProperties
<1>2. \A j \in 1..Len(q) : q[j] \in Int
  BY <1>1 DEF Request
<1>3. a \in Seq(Request)
  BY AdvanceType
<1>4. Len(a) = Len(q) - n /\ \A j \in 1..(Len(q) - n) : a[j] = q[n + j]
  <2>1. n + 1 \in 1..(Len(q) + 1) /\ Len(q) \in n..Len(q)
    BY <1>1
  <2>2. /\ Len(SubSeq(q, n + 1, Len(q))) = IF n + 1 <= Len(q) THEN Len(q) - (n + 1) + 1 ELSE 0
        /\ \A j \in 1..Len(SubSeq(q, n + 1, Len(q))) :
              SubSeq(q, n + 1, Len(q))[j] = q[(n + 1) + j - 1]
    BY <1>1, <2>1, SubSeqProperties
  <2>3. Len(a) = Len(q) - n
    <3> DEFINE l == Len(q)
    <3>1. Len(a) = IF n + 1 <= l THEN l - (n + 1) + 1 ELSE 0
      BY <2>2 DEF AfterRefusals
    <3>2. l \in Nat /\ n \in Nat /\ n <= l
      BY <1>1
    <3> HIDE DEF l, a
    <3>3. Len(a) = l - n
      BY <3>1, <3>2
    <3> QED
      BY <3>3 DEF l
  <2>4. ASSUME NEW j \in 1..(Len(q) - n) PROVE a[j] = q[n + j]
    <3>1. j \in 1..Len(a) /\ (n + 1) + j - 1 = n + j
      BY <1>1, <2>3
    <3> QED
      BY <2>2, <3>1 DEF AfterRefusals
  <2> QED
    BY <2>3, <2>4
<1>5. Sorted(a)
  BY <1>1, <1>2, <1>4 DEF Sorted
<1>6. Refused(q, n) \subseteq Request
  BY <1>1 DEF Refused
<1>7. \A j \in 1..(Len(q) - n) : q[n + j] \notin Refused(q, n)
  <2>1. ASSUME NEW j \in 1..(Len(q) - n), NEW i \in 1..n PROVE q[i] # q[n + j]
    <3>1. i \in 1..Len(q) /\ (n + j) \in 1..Len(q) /\ i < n + j
      BY <1>1
    <3> QED
      BY <1>2, <3>1 DEF Sorted
  <2> QED
    BY <2>1 DEF Refused
<1>8. \A j \in 1..Len(q) : q[j] \notin Refused(q, n) => j > n
  BY <1>1 DEF Refused
<1>9. ASSUME NEW j \in 1..Len(q), q[j] \notin Refused(q, n)
      PROVE  (j - n) \in 1..(Len(q) - n) /\ a[j - n] = q[j]
  <2>1. j > n /\ (j - n) \in 1..(Len(q) - n) /\ n + (j - n) = j
    BY <1>1, <1>8, <1>9
  <2> QED
    BY <1>4, <2>1
<1>10. Head1(q, n) = IF n < Len(q) THEN {q[n + 1]} ELSE {}
  BY <1>1 DEF Head1
<1> QED
  BY <1>3, <1>4, <1>5, <1>6, <1>7, <1>9, <1>10

(* Settling D out of the pending P gives back exactly what D reserved.     *)
LEMMA CommandsReleased ==
    ASSUME NEW P \in SUBSET Request, NEW D \in SUBSET P, NEW f \in [Request -> Nat]
    PROVE  /\ Cardinality(P \ D) = Cardinality(P) - Cardinality(D)
           /\ Reserved(f, P \ D) = Reserved(f, P) - Reserved(f, D)
           /\ Cardinality(P) \in Nat /\ Cardinality(D) \in Nat
           /\ Reserved(f, P) \in Nat /\ Reserved(f, D) \in Nat
<1>1. /\ IsFiniteSet(P) /\ IsFiniteSet(D) /\ IsFiniteSet(P \ D)
      /\ Cardinality(P) \in Nat /\ Cardinality(D) \in Nat
  BY RequestsFinite
<1>2. P \cap D = D /\ P = (P \ D) \cup D /\ (P \ D) \cap D = {}
  OBVIOUS
<1>3. Cardinality(P \ D) = Cardinality(P) - Cardinality(D)
  BY <1>1, <1>2, FS_Difference
<1>4. Reserved(f, P) \in Nat /\ Reserved(f, D) \in Nat /\ Reserved(f, P \ D) \in Nat
  BY <1>1, ReservedType
<1>5. Reserved(f, (P \ D) \cup D) = Reserved(f, P \ D) + Reserved(f, D)
  BY <1>1, <1>2, ReservedUnion
<1>6. Reserved(f, P) = Reserved(f, P \ D) + Reserved(f, D)
  BY <1>2, <1>5
<1> QED
  BY <1>1, <1>3, <1>4, <1>6

(* What advancing the FIFO q past n refused commands achieves: exactly the *)
(* head of the rest is active, and q is split into the refused commands    *)
(* and the rest.                                                           *)
Advanced(q, n, rest, act) ==
    /\ \A j \in 1..Len(rest) : rest[j] \in act <=> j = 1
    /\ \A j \in 1..Len(rest) : rest[j] \notin Refused(q, n)
    /\ \A j \in 1..Len(rest) : \E m \in 1..Len(q) : rest[j] = q[m]
    /\ \A j \in 1..Len(q) : q[j] \notin Refused(q, n)
          => \E m \in 1..Len(rest) : rest[m] = q[j]
    /\ act \cap Refused(q, n) = {}
    /\ \A x \in Head1(q, n) : \E j \in 1..Len(rest) : rest[j] = x
    /\ \A x \in Head1(q, n) : \A j \in 1..Len(rest) : rest[j] \notin act => x < rest[j]

(* Advancing achieves that when only the head may have been active.        *)
LEMMA AdvanceSound ==
    ASSUME NEW q \in Seq(Request), Sorted(q), NEW n \in 0..Len(q), NEW A,
           \A j \in 1..Len(q) : q[j] \in A => j = 1 /\ n = 0,
           NEW rest, rest = AfterRefusals(q, n),
           NEW act, act = A \cup Head1(q, n)
    PROVE  Advanced(q, n, rest, act)
<1>1. /\ rest \in Seq(Request) /\ Len(rest) = Len(q) - n
      /\ \A j \in 1..(Len(q) - n) : rest[j] = q[n + j]
      /\ Sorted(rest)
      /\ \A j \in 1..(Len(q) - n) : q[n + j] \notin Refused(q, n)
      /\ \A j \in 1..Len(q) : q[j] \notin Refused(q, n)
            => (j - n) \in 1..(Len(q) - n) /\ rest[j - n] = q[j]
      /\ Head1(q, n) = IF n < Len(q) THEN {q[n + 1]} ELSE {}
  <2>1. q \in Seq(Request) /\ Sorted(q) /\ n \in 0..Len(q) /\ rest = AfterRefusals(q, n)
    OBVIOUS
  <2> QED
    BY ONLY <2>1, AdvanceFacts, ZenonT(60)
<1>2. Len(q) \in Nat /\ n \in Nat /\ n <= Len(q) /\ Len(rest) \in Nat
  BY <1>1, LenProperties
<1>3. \A j \in 1..Len(rest) : rest[j] \in Int
  <2>1. rest \in [1..Len(rest) -> Request]
    BY <1>1, LenProperties
  <2> QED
    BY <2>1 DEF Request
<1>4. Head1(q, n) = IF Len(rest) > 0 THEN {rest[1]} ELSE {}
  <2>1. CASE n < Len(q)
    <3>1. 1 \in 1..(Len(q) - n) /\ Len(rest) > 0
      BY <1>1, <1>2, <2>1
    <3>2. rest[1] = q[n + 1]
      BY <1>1, <3>1
    <3> QED
      BY <1>1, <2>1, <3>1, <3>2
  <2>2. CASE ~(n < Len(q))
    <3>1. ~(Len(rest) > 0)
      BY <1>1, <1>2, <2>2
    <3> QED
      BY <1>1, <2>2, <3>1
  <2> QED
    BY <2>1, <2>2
<1>5. ASSUME NEW j \in 1..Len(rest)
      PROVE  /\ rest[j] \notin Refused(q, n)
             /\ \E m \in 1..Len(q) : rest[j] = q[m]
             /\ rest[j] \in A => j = 1
  <2>1. rest[j] = q[n + j] /\ (n + j) \in 1..Len(q)
    BY <1>1, <1>2
  <2>2. rest[j] \in A => n + j = 1 /\ n = 0
    BY <2>1
  <2> QED
    BY <1>1, <1>2, <2>1, <2>2
<1>6. ASSUME NEW j \in 1..Len(rest) PROVE rest[j] \in act <=> j = 1
  <2>1. rest[j] \in Head1(q, n) <=> j = 1
    BY <1>1, <1>2, <1>3, <1>4 DEF Sorted
  <2> QED
    BY <1>5, <2>1
<1>7. act \cap Refused(q, n) = {}
  <2>1. ASSUME NEW x \in A, x \in Refused(q, n) PROVE FALSE
    <3>1. PICK i \in 1..n : x = q[i]
      BY <2>1 DEF Refused
    <3>2. i \in 1..Len(q)
      BY <1>2
    <3> QED
      BY <1>2, <2>1, <3>1, <3>2
  <2>2. Head1(q, n) \cap Refused(q, n) = {}
    BY <1>2, <1>4, <1>5
  <2> QED
    BY <2>1, <2>2
<1>8. \A x \in Head1(q, n) : \E j \in 1..Len(rest) : rest[j] = x
  BY <1>2, <1>4
<1>9. ASSUME NEW x \in Head1(q, n), NEW j \in 1..Len(rest), rest[j] \notin act
      PROVE  x < rest[j]
  <2>1. x = rest[1] /\ 1 \in 1..Len(rest) /\ j # 1
    BY <1>2, <1>4, <1>6, <1>9
  <2> QED
    BY <1>1, <1>2, <2>1 DEF Sorted
<1>10. \A j \in 1..Len(q) : q[j] \notin Refused(q, n)
          => \E m \in 1..Len(rest) : rest[m] = q[j]
  BY <1>1, <1>2
<1> QED
  BY <1>5, <1>6, <1>7, <1>8, <1>9, <1>10 DEF Advanced

-----------------------------------------------------------------------------
(* The command half of BudgetsExact.                                       *)
CommandBudgets ==
    /\ commandUsed = Cardinality(pendingCommands) /\ commandUsed <= maxCommandsTotal
    /\ queuedUsed = Reserved(pendingBytes, pendingCommands)
    /\ queuedUsed <= maxQueuedCommandBytes

(* What history says of the pending commands: ids are handed out in order, *)
(* the outcome of a command tells whether it is pending, and a command not *)
(* yet written is younger than everything its socket received and known to *)
(* no other.                                                               *)
CommandHistory ==
    /\ \A r \in pendingCommands : r < nextRequest
    /\ \A r \in Request : outcome[r] = "pending" <=> r \in pendingCommands
    /\ \A r \in Request : outcome[r] = "none" <=> r >= nextRequest
    /\ \A k \in Socket : \A i \in 1..Len(sent[k]) : sent[k][i] < nextRequest
    /\ \A r \in pendingCommands \ active : \A i \in 1..Len(sent[pendingSocket[r]]) :
          sent[pendingSocket[r]][i] < r
    /\ \A r \in pendingCommands \ active : r \notin Disclosed

(* What is said of commands.                                                *)
CommandInv == QueuesSound /\ CommandBudgets /\ CommandHistory /\ SentInOrder

(* The logs grow by nothing but h, written to socket k.                    *)
OnlyAdds(k, h) ==
    \A x \in Socket : \A i \in 1..Len(sent'[x]) :
        \/ x = k /\ sent'[x][i] = h
        \/ i \in 1..Len(sent[x]) /\ sent'[x][i] = sent[x][i]

(* Writing h to socket k, which received only older commands, keeps every  *)
(* socket's log in order and adds nothing but h.                           *)
LEMMA SentStep ==
    ASSUME TypeOK, SentInOrder, NEW k \in Socket, NEW h \in Request,
           \A i \in 1..Len(sent[k]) : sent[k][i] < h,
           sent' = [sent EXCEPT ![k] = Append(@, h)]
    PROVE  SentInOrder' /\ OnlyAdds(k, h)
<1>1. /\ sent'[k] = Append(sent[k], h)
      /\ \A x \in Socket \ {k} : sent'[x] = sent[x]
      /\ sent[k] \in Seq(Request)
  BY DEF TypeOK
<1>2. /\ Len(sent'[k]) = Len(sent[k]) + 1 /\ Len(sent[k]) \in Nat
      /\ \A i \in 1..Len(sent[k]) : sent'[k][i] = sent[k][i]
      /\ sent'[k][Len(sent[k]) + 1] = h
  BY <1>1, AppendProperties, LenProperties
<1>3. ASSUME NEW x \in Socket, NEW i \in 1..Len(sent'[x])
      PROVE  \/ x = k /\ sent'[x][i] = h
             \/ i \in 1..Len(sent[x]) /\ sent'[x][i] = sent[x][i]
  BY <1>1, <1>2
<1>4. ASSUME NEW x \in Socket, NEW i \in 1..Len(sent'[x]), NEW j \in 1..Len(sent'[x]), i < j
      PROVE  sent'[x][i] < sent'[x][j]
  BY <1>1, <1>2, <1>4 DEF SentInOrder
<1> QED
  BY <1>3, <1>4 DEF SentInOrder, OnlyAdds

(* Whatever is known after such a step was known, or is h.                 *)
LEMMA KnownWritten ==
    ASSUME NEW k, NEW h, OnlyAdds(k, h)
    PROVE  \A r \in Disclosed' : r = h \/ r \in Disclosed
BY DEF OnlyAdds, Disclosed

(* Finishing a pending command keeps the command invariant.                *)
LEMMA FinishStep ==
    ASSUME TypeOK, OwnersAgree, CommandInv, NEW r \in pendingCommands,
           NEW how \in Settled, FinishPending(r, how), UNCHANGED ownerVars
    PROVE  CommandInv'
<1> DEFINE s == pendingSession[r]
           q == commandQueues[s]
           queue == Splice(q, r)
<1>1. /\ s \in Sid /\ s \in Live /\ q \in Seq(Request) /\ Sorted(q) /\ r \in Request
      /\ \E i \in 1..Len(q) : q[i] = r
  BY DEF CommandInv, QueuesSound, Live, TypeOK, Sorted
<1>2. PICK i \in 1..Len(q) : q[i] = r
  BY <1>1
<1>3. \A j \in 1..Len(q) : /\ q[j] \in pendingCommands /\ pendingSession[q[j]] = s
                           /\ q[j] \in active <=> j = 1
  BY <1>1 DEF CommandInv, QueuesSound
<1>4. q \in [1..Len(q) -> Request] /\ Len(q) \in Nat /\ \A j \in 1..Len(q) : q[j] \in Int
  <2>1. q \in [1..Len(q) -> Request] /\ Len(q) \in Nat
    BY <1>1, LenProperties
  <2> QED
    BY <2>1 DEF Request
<1>5. /\ queue \in Seq(Request) /\ Len(queue) = Len(q) - 1 /\ Sorted(queue)
      /\ \A j \in 1..(Len(q) - 1) : queue[j] = IF j < i THEN q[j] ELSE q[j + 1]
  <2>1. q \in Seq(Request) /\ Sorted(q) /\ i \in 1..Len(q) /\ r = q[i]
    BY <1>1, <1>2
  <2> QED
    BY ONLY <2>1, SpliceFacts
<1>6. PICK n \in 0..Len(queue) :
        LET done == Refused(queue, n) \cup {r}
        IN  /\ MayRefuse(s, queue, pendingSocket, n)
            /\ pendingCommands' = pendingCommands \ done
            /\ commandUsed' = commandUsed - Cardinality(done)
            /\ queuedUsed' = queuedUsed - Reserved(pendingBytes, done)
            /\ outcome' = [x \in Request |->
                             IF x = r THEN how
                             ELSE IF x \in done THEN "rejected" ELSE outcome[x]]
            /\ commandQueues' = [commandQueues EXCEPT ![s] = AfterRefusals(queue, n)]
            /\ active' = (active \ {r}) \cup Head1(queue, n)
            /\ sent' = Written(s, queue, n)
            /\ UNCHANGED <<pendingSession, pendingSocket, pendingBytes, nextRequest>>
  BY DEF FinishPending
<1> DEFINE done == Refused(queue, n) \cup {r}
           rest == AfterRefusals(queue, n)
           A == active \ {r}
<1> HIDE DEF queue
\* the members of the spliced queue are the other members of q
<1>7. ASSUME NEW j \in 1..Len(queue)
      PROVE  /\ queue[j] \in pendingCommands \ {r} /\ pendingSession[queue[j]] = s
             /\ queue[j] \in active => j = 1 /\ n = 0
  <2>1. /\ j \in 1..(Len(q) - 1) /\ j \in 1..Len(q) /\ (j + 1) \in 1..Len(q)
        /\ queue[j] = IF j < i THEN q[j] ELSE q[j + 1]
    BY <1>4, <1>5
  <2>2. queue[j] # r
    <3>1. CASE j < i
      <4>1. q[j] < q[i]
        BY <1>1, <1>2, <2>1, <3>1 DEF Sorted
      <4> QED
        BY <1>2, <1>4, <2>1, <3>1, <4>1
    <3>2. CASE ~(j < i)
      <4>1. i < j + 1
        BY <1>2, <2>1, <3>2
      <4>2. q[i] < q[j + 1]
        BY <1>1, <1>2, <2>1, <4>1 DEF Sorted
      <4> QED
        BY <1>2, <1>4, <2>1, <3>2, <4>2
    <3> QED
      BY <3>1, <3>2
  <2>3. queue[j] \in active => j = 1
    BY <1>3, <1>4, <2>1
  <2>4. ASSUME queue[j] \in active PROVE n = 0
    <3>1. queue # <<>> /\ queue[1] \in active
      BY <1>5, <2>3, <2>4, EmptySeq
    <3> QED
      BY <1>6, <3>1 DEF MayRefuse
  <2> QED
    BY <1>3, <2>1, <2>2, <2>3, <2>4
<1>8. ASSUME NEW m \in 1..Len(q), q[m] # r PROVE \E j \in 1..Len(queue) : queue[j] = q[m]
  <2>1. m # i
    BY <1>2, <1>8
  <2>2. CASE m < i
    <3>1. m \in 1..(Len(q) - 1) /\ queue[m] = q[m]
      BY <1>4, <1>5, <2>2
    <3> QED
      BY <1>5, <3>1
  <2>3. CASE m > i
    <3>1. (m - 1) \in 1..(Len(q) - 1) /\ ~(m - 1 < i) /\ (m - 1) + 1 = m
      BY <1>4, <2>3
    <3>2. queue[m - 1] = q[m]
      BY <1>5, <3>1
    <3> QED
      BY <1>5, <3>1, <3>2
  <2> QED
    BY <1>4, <2>1, <2>2, <2>3
<1>9. Advanced(queue, n, rest, active')
  <2>1. \A j \in 1..Len(queue) : queue[j] \in A => j = 1 /\ n = 0
    BY <1>7
  <2>2. active' = A \cup Head1(queue, n)
    BY <1>6
  <2>3. rest = AfterRefusals(queue, n)
    OBVIOUS
  <2>4. queue \in Seq(Request) /\ Sorted(queue)
    BY <1>5
  <2> HIDE DEF A, rest
  <2> QED
    BY <2>1, <2>2, <2>3, <2>4, AdvanceSound
<1>10. /\ rest \in Seq(Request) /\ Sorted(rest) /\ Refused(queue, n) \subseteq Request
  BY <1>5, AdvanceFacts
<1>11. /\ done \subseteq pendingCommands
       /\ \A x \in done : pendingSession[x] = s
       /\ \A x \in Head1(queue, n) : x \in pendingCommands \ done /\ pendingSession[x] = s
  <2>1. \A x \in Refused(queue, n) : \E j \in 1..Len(queue) : x = queue[j]
    <3>1. 1..n \subseteq 1..Len(queue)
      BY <1>4, <1>5
    <3> QED
      BY <3>1 DEF Refused
  <2>2. \A x \in Refused(queue, n) : x \in pendingCommands /\ pendingSession[x] = s
    BY <1>7, <2>1
  <2>3. \A x \in Head1(queue, n) : x \in pendingCommands \ done /\ pendingSession[x] = s
    BY <1>7, <1>9 DEF Advanced
  <2> QED
    BY <2>2, <2>3
<1> HIDE DEF done, rest, q, s, A
<1>12. /\ pendingCommands' = pendingCommands \ done
       /\ commandUsed' = commandUsed - Cardinality(done)
       /\ queuedUsed' = queuedUsed - Reserved(pendingBytes, done)
       /\ outcome' = [x \in Request |-> IF x = r THEN how
                        ELSE IF x \in done THEN "rejected" ELSE outcome[x]]
       /\ commandQueues' = [commandQueues EXCEPT ![s] = rest]
       /\ active' = (active \ {r}) \cup Head1(queue, n)
       /\ sent' = Written(s, queue, n)
       /\ r \in done
       /\ pendingSession' = pendingSession /\ pendingSocket' = pendingSocket
       /\ pendingBytes' = pendingBytes /\ nextRequest' = nextRequest
       /\ sessions' = sessions /\ Live' = Live
  BY <1>6 DEF done, rest, s, ownerVars, Live
<1>13. /\ s \in Sid /\ s \in Live /\ pendingSession[r] = s
       /\ \A y \in pendingCommands \ done : pendingSession[y] = s
             => \E m \in 1..Len(rest) : rest[m] = y
       /\ \A j \in 1..Len(rest) : /\ rest[j] \in pendingCommands \ done
                                  /\ pendingSession[rest[j]] = s
  <2>1. s \in Sid /\ s \in Live /\ pendingSession[r] = s
    BY <1>1 DEF s
  <2>2. ASSUME NEW y \in pendingCommands \ done, pendingSession[y] = s
        PROVE  \E m \in 1..Len(rest) : rest[m] = y
    <3>1. \E m \in 1..Len(q) : q[m] = y
      BY <2>2 DEF CommandInv, QueuesSound, q
    <3>2. y # r /\ y \notin Refused(queue, n)
      BY <2>2 DEF done
    <3>3. \E m \in 1..Len(queue) : queue[m] = y
      BY <1>8, <3>1, <3>2
    <3> QED
      BY <1>9, <3>2, <3>3 DEF Advanced
  <2>3. ASSUME NEW j \in 1..Len(rest)
        PROVE  rest[j] \in pendingCommands \ done /\ pendingSession[rest[j]] = s
    <3>1. rest[j] \notin Refused(queue, n) /\ \E m \in 1..Len(queue) : rest[j] = queue[m]
      BY <1>9 DEF Advanced
    <3> QED
      BY <1>7, <3>1 DEF done
  <2> QED
    BY <2>1, <2>2, <2>3
<1>14. QueuesSound'
  <2>1. /\ commandQueues'[s] = rest
        /\ \A x \in Sid \ {s} : commandQueues'[x] = commandQueues[x]
    BY <1>12, <1>13 DEF TypeOK
  <2>2. \A x \in Sid : \A a, c \in 1..Len(commandQueues'[x]) :
           a < c => commandQueues'[x][a] < commandQueues'[x][c]
    <3>1. \A a, c \in 1..Len(rest) : a < c => rest[a] < rest[c]
      BY <1>10 DEF Sorted
    <3>2. \A x \in Sid : \A a, c \in 1..Len(commandQueues[x]) :
             a < c => commandQueues[x][a] < commandQueues[x][c]
      BY DEF CommandInv, QueuesSound
    <3>3. \A x \in Sid : x = s \/ x \in Sid \ {s}
      OBVIOUS
    <3> HIDE DEF rest, s, q, queue
    <3> QED
      BY ONLY <2>1, <3>1, <3>2, <3>3
  <2>3. ASSUME NEW x \in Sid, NEW j \in 1..Len(commandQueues'[x])
        PROVE  /\ commandQueues'[x][j] \in pendingCommands'
               /\ pendingSession'[commandQueues'[x][j]] = x
               /\ commandQueues'[x][j] \in active' <=> j = 1
    <3>1. CASE x = s
      BY <1>9, <1>12, <1>13, <2>1, <3>1 DEF Advanced
    <3>2. CASE x # s
      <4> DEFINE y == commandQueues[x][j]
      <4>1. commandQueues'[x][j] = y /\ j \in 1..Len(commandQueues[x])
        BY <2>1, <2>3, <3>2
      <4>2. y \in pendingCommands /\ pendingSession[y] = x /\ (y \in active <=> j = 1)
        BY <4>1 DEF CommandInv, QueuesSound
      <4>3. y \notin done /\ y \notin Head1(queue, n) /\ y # r
        BY <1>11, <1>13, <3>2, <4>2
      <4> HIDE DEF y
      <4> QED
        BY <1>12, <4>1, <4>2, <4>3
    <3> QED
      BY <3>1, <3>2
  <2>4. ASSUME NEW y \in pendingCommands'
        PROVE  /\ pendingSession'[y] \in Live'
               /\ pendingSocket'[y] = sessions'[pendingSession'[y]]
               /\ \E j \in 1..Len(commandQueues'[pendingSession'[y]]) :
                     commandQueues'[pendingSession'[y]][j] = y
    <3>1. y \in pendingCommands \ done
      BY <1>12
    <3>2. /\ pendingSession[y] \in Live /\ pendingSession[y] \in Sid
          /\ pendingSocket[y] = sessions[pendingSession[y]]
          /\ \E j \in 1..Len(commandQueues[pendingSession[y]]) :
                commandQueues[pendingSession[y]][j] = y
      BY <3>1 DEF CommandInv, QueuesSound, Live
    <3>3. CASE pendingSession[y] = s
      BY <1>12, <1>13, <2>1, <3>1, <3>2, <3>3
    <3>4. CASE pendingSession[y] # s
      BY <1>12, <2>1, <3>2, <3>4
    <3> QED
      BY <3>3, <3>4
  <2>5. active' \subseteq pendingCommands'
    <3>1. active' \cap Refused(queue, n) = {} /\ active \subseteq pendingCommands
      BY <1>9 DEF Advanced, CommandInv, QueuesSound
    <3> QED
      BY <1>11, <1>12, <3>1 DEF done
  <2> QED
    BY <2>2, <2>3, <2>4, <2>5 DEF QueuesSound
<1>15. CommandBudgets'
  <2>1. /\ Cardinality(pendingCommands \ done) = Cardinality(pendingCommands) - Cardinality(done)
        /\ Reserved(pendingBytes, pendingCommands \ done)
             = Reserved(pendingBytes, pendingCommands) - Reserved(pendingBytes, done)
        /\ Cardinality(pendingCommands) \in Nat /\ Cardinality(done) \in Nat
        /\ Reserved(pendingBytes, pendingCommands) \in Nat
        /\ Reserved(pendingBytes, done) \in Nat
    BY <1>11, CommandsReleased DEF TypeOK
  <2>2. /\ Cardinality(pendingCommands') = Cardinality(pendingCommands \ done)
        /\ Reserved(pendingBytes', pendingCommands')
             = Reserved(pendingBytes, pendingCommands \ done)
    BY <1>12
  <2>3. /\ commandUsed = Cardinality(pendingCommands) /\ commandUsed <= maxCommandsTotal
        /\ queuedUsed = Reserved(pendingBytes, pendingCommands)
        /\ queuedUsed <= maxQueuedCommandBytes
    BY DEF CommandInv, CommandBudgets
  <2>4. /\ commandUsed' = Cardinality(pendingCommands') /\ commandUsed' <= maxCommandsTotal
        /\ queuedUsed' = Reserved(pendingBytes', pendingCommands')
        /\ queuedUsed' <= maxQueuedCommandBytes
    <3>1. /\ commandUsed' = commandUsed - Cardinality(done)
          /\ queuedUsed' = queuedUsed - Reserved(pendingBytes, done)
      BY <1>12
    <3>2. commandUsed' = Cardinality(pendingCommands') /\ commandUsed' <= maxCommandsTotal
      BY <2>1, <2>2, <2>3, <3>1, LimitsAssumption
    <3>3. /\ queuedUsed' = Reserved(pendingBytes', pendingCommands')
          /\ queuedUsed' <= maxQueuedCommandBytes
      BY <2>1, <2>2, <2>3, <3>1, LimitsAssumption
    <3> QED
      BY <3>2, <3>3
  <2> QED
    BY <2>4 DEF CommandBudgets
<1> DEFINE k == sessions[s]
<1>16. \/ sent' = sent
       \/ \E h \in Head1(queue, n) :
            /\ h \notin active
            /\ pendingSocket[h] = k /\ k \in Socket
            /\ sent' = [sent EXCEPT ![k] = Append(@, h)]
  <2>1. CASE n < Len(queue) /\ queue[n + 1] \notin active
    <3>1. sent' = [sent EXCEPT ![k] = Append(@, queue[n + 1])]
      BY <1>12, <2>1 DEF Written
    <3>2. queue[n + 1] \in Head1(queue, n)
      BY <1>5, <2>1, AdvanceFacts
    <3>3. k \in Socket
      BY <1>13 DEF TypeOK, Live
    <3>4. pendingSocket[queue[n + 1]] = k
      BY <1>6, <2>1 DEF MayRefuse, s
    <3> QED
      BY <2>1, <3>1, <3>2, <3>3, <3>4
  <2>2. CASE ~(n < Len(queue) /\ queue[n + 1] \notin active)
    BY <1>12, <2>2 DEF Written
  <2> QED
    BY <2>1, <2>2
<1>17. CommandHistory' /\ SentInOrder'
  <2>1. \A y \in pendingCommands' : y < nextRequest'
    BY <1>12 DEF CommandInv, CommandHistory
  <2>2. ASSUME NEW y \in Request
        PROVE  /\ outcome'[y] = "pending" <=> y \in pendingCommands'
               /\ outcome'[y] = "none" <=> y >= nextRequest'
    <3>1. /\ outcome[y] = "pending" <=> y \in pendingCommands
          /\ outcome[y] = "none" <=> y >= nextRequest
      BY DEF CommandInv, CommandHistory
    <3>2. CASE y \in done
      <4>1. y \in pendingCommands
        BY <1>11, <3>2
      <4>2. outcome'[y] \in Settled
        BY <1>12, <3>2 DEF Settled
      <4>3. outcome'[y] # "pending" /\ outcome'[y] # "none" /\ outcome[y] # "none"
        BY <3>1, <4>1, <4>2 DEF Settled
      <4> QED
        BY <1>12, <3>1, <3>2, <4>1, <4>3
    <3>3. CASE y \notin done
      BY <1>12, <3>1, <3>3
    <3> QED
      BY <3>2, <3>3
  <2>3. ASSUME NEW y \in pendingCommands' \ active'
        PROVE  y \in pendingCommands \ active /\ y \notin done
    BY <1>12
  <2>4. /\ \A x \in Socket : \A j \in 1..Len(sent[x]) : sent[x][j] < nextRequest
        /\ \A y \in pendingCommands \ active : \A j \in 1..Len(sent[pendingSocket[y]]) :
              sent[pendingSocket[y]][j] < y
        /\ SentInOrder
    BY DEF CommandInv, CommandHistory
  <2>5. CASE sent' = sent
    <3>1. SentInOrder'
      BY <2>4, <2>5 DEF SentInOrder
    <3>2. Disclosed' = Disclosed
      BY <2>5 DEF Disclosed
    <3>3. \A y \in pendingCommands' \ active' : y \notin Disclosed'
      BY <2>3, <3>2 DEF CommandInv, CommandHistory
    <3> QED
      BY <1>12, <2>1, <2>2, <2>3, <2>4, <2>5, <3>1, <3>3 DEF CommandHistory
  <2>6. ASSUME NEW h \in Head1(queue, n), h \notin active,
               pendingSocket[h] = k, k \in Socket,
               sent' = [sent EXCEPT ![k] = Append(@, h)]
        PROVE  CommandHistory' /\ SentInOrder'
    <3>1. h \in pendingCommands \ active /\ h \in Request /\ h < nextRequest
      BY <1>11, <2>6 DEF TypeOK, CommandInv, CommandHistory
    <3>2. \A j \in 1..Len(sent[k]) : sent[k][j] < h
      BY <2>4, <2>6, <3>1
    <3> HIDE DEF k
    <3>3. SentInOrder' /\ OnlyAdds(k, h)
      BY <2>4, <2>6, <3>1, <3>2, SentStep
    <3>4. \A x \in Socket : \A j \in 1..Len(sent'[x]) : sent'[x][j] < nextRequest'
      BY <1>12, <2>4, <3>1, <3>3 DEF OnlyAdds
    <3>5. ASSUME NEW y \in pendingCommands' \ active',
                 NEW j \in 1..Len(sent'[pendingSocket'[y]])
          PROVE  sent'[pendingSocket'[y]][j] < y
      <4>1. /\ y \in pendingCommands \ active /\ y \notin done
            /\ pendingSession[y] \in Sid /\ pendingSocket[y] = sessions[pendingSession[y]]
            /\ pendingSocket[y] \in Socket
        BY <2>3, <3>5 DEF CommandInv, QueuesSound, Live, TypeOK
      <4>2. CASE pendingSocket[y] = k /\ sent'[k][j] = h
        <5>1. pendingSession[y] = s
          <6>1. sessions[pendingSession[y]] = sessions[s] /\ sessions[s] \in Socket
            BY <4>1, <4>2 DEF k
          <6>2. \A x \in Sid : sessions[x] \in Socket => sessionIdsBySocket[sessions[x]] = x
            BY IdentityAssumption DEF OwnersAgree
          <6> QED
            BY <1>13, <4>1, <6>1, <6>2
        <5>2. \E m \in 1..Len(rest) : rest[m] = y
          BY <1>13, <4>1, <5>1
        <5>3. h < y
          BY <1>9, <2>6, <3>5, <5>2 DEF Advanced
        <5> QED
          BY <1>12, <4>2, <5>3
      <4>3. CASE j \in 1..Len(sent[pendingSocket[y]])
                   /\ sent'[pendingSocket[y]][j] = sent[pendingSocket[y]][j]
        BY <1>12, <2>4, <4>1, <4>3
      <4> QED
        BY <1>12, <3>3, <3>5, <4>1, <4>2, <4>3 DEF OnlyAdds
    <3>6. ASSUME NEW y \in pendingCommands' \ active' PROVE y \notin Disclosed'
      <4>1. y # h
        BY <1>12, <2>6, <3>6
      <4> QED
        BY <2>3, <3>3, <3>6, <4>1, KnownWritten DEF CommandInv, CommandHistory
    <3> QED
      BY <2>1, <2>2, <3>3, <3>4, <3>5, <3>6 DEF CommandHistory
  <2> QED
    BY <1>16, <2>5, <2>6
<1> QED
  BY <1>14, <1>15, <1>17 DEF CommandInv

-----------------------------------------------------------------------------
(* Settling a set of pending commands together with the queues they are in. *)
LEMMA RejectStep ==
    ASSUME TypeOK, CommandInv, NEW S, NEW R \in SUBSET pendingCommands,
           R = {r \in pendingCommands : pendingSession[r] \in S},
           Settle(R, "rejected"),
           commandQueues' = [s \in Sid |-> IF s \in S THEN <<>> ELSE commandQueues[s]],
           UNCHANGED <<pendingSession, pendingSocket, pendingBytes, nextRequest, sent>>,
           \A s \in Sid \ S : s \in Live => sessions'[s] = sessions[s]
    PROVE  CommandInv'
<1>1. /\ pendingCommands' = pendingCommands \ R
      /\ active' = active \ R
      /\ commandUsed' = commandUsed - Cardinality(R)
      /\ queuedUsed' = queuedUsed - Reserved(pendingBytes, R)
      /\ outcome' = [r \in Request |-> IF r \in R THEN "rejected" ELSE outcome[r]]
      /\ pendingSession' = pendingSession /\ pendingSocket' = pendingSocket
      /\ pendingBytes' = pendingBytes /\ nextRequest' = nextRequest /\ sent' = sent
  BY DEF Settle
<1>2. QueuesSound'
  <2>1. \A s \in Sid : \A j \in 1..Len(commandQueues'[s]) :
           s \notin S /\ commandQueues'[s] = commandQueues[s]
    BY EmptySeq
  <2>2. \A s \in Sid : \A a, c \in 1..Len(commandQueues'[s]) :
           a < c => commandQueues'[s][a] < commandQueues'[s][c]
    BY <2>1 DEF CommandInv, QueuesSound
  <2>3. ASSUME NEW s \in Sid, NEW j \in 1..Len(commandQueues'[s])
        PROVE  /\ commandQueues'[s][j] \in pendingCommands'
               /\ pendingSession'[commandQueues'[s][j]] = s
               /\ commandQueues'[s][j] \in active' <=> j = 1
    <3> DEFINE y == commandQueues[s][j]
    <3>1. s \notin S /\ commandQueues'[s] = commandQueues[s]
      BY <2>1
    <3>2. y \in pendingCommands /\ pendingSession[y] = s /\ (y \in active <=> j = 1)
      BY <3>1 DEF CommandInv, QueuesSound
    <3> HIDE DEF y
    <3>3. y \notin R
      BY <3>1, <3>2
    <3> QED
      BY <1>1, <3>1, <3>2, <3>3 DEF y
  <2>4. ASSUME NEW y \in pendingCommands'
        PROVE  /\ pendingSession'[y] \in Live'
               /\ pendingSocket'[y] = sessions'[pendingSession'[y]]
               /\ \E j \in 1..Len(commandQueues'[pendingSession'[y]]) :
                     commandQueues'[pendingSession'[y]][j] = y
    <3>1. y \in pendingCommands /\ pendingSession[y] \notin S
      BY <1>1
    <3>2. /\ pendingSession[y] \in Live /\ pendingSession[y] \in Sid
          /\ pendingSocket[y] = sessions[pendingSession[y]]
          /\ sessions[pendingSession[y]] # NoSocket
          /\ \E j \in 1..Len(commandQueues[pendingSession[y]]) :
                commandQueues[pendingSession[y]][j] = y
      BY <3>1 DEF CommandInv, QueuesSound, Live
    <3>3. sessions'[pendingSession[y]] = sessions[pendingSession[y]]
      BY <3>1, <3>2
    <3>4. commandQueues'[pendingSession[y]] = commandQueues[pendingSession[y]]
      BY <3>1, <3>2
    <3> QED
      BY <1>1, <3>2, <3>3, <3>4 DEF Live
  <2>5. active' \subseteq pendingCommands'
    BY <1>1 DEF CommandInv, QueuesSound
  <2> QED
    BY <2>2, <2>3, <2>4, <2>5 DEF QueuesSound
<1>3. CommandBudgets'
  <2>1. /\ Cardinality(pendingCommands \ R) = Cardinality(pendingCommands) - Cardinality(R)
        /\ Reserved(pendingBytes, pendingCommands \ R)
             = Reserved(pendingBytes, pendingCommands) - Reserved(pendingBytes, R)
        /\ Cardinality(pendingCommands) \in Nat /\ Cardinality(R) \in Nat
        /\ Reserved(pendingBytes, pendingCommands) \in Nat
        /\ Reserved(pendingBytes, R) \in Nat
    BY CommandsReleased DEF TypeOK
  <2>2. /\ Cardinality(pendingCommands') = Cardinality(pendingCommands \ R)
        /\ Reserved(pendingBytes', pendingCommands')
             = Reserved(pendingBytes, pendingCommands \ R)
    BY <1>1
  <2>3. /\ commandUsed = Cardinality(pendingCommands) /\ commandUsed <= maxCommandsTotal
        /\ queuedUsed = Reserved(pendingBytes, pendingCommands)
        /\ queuedUsed <= maxQueuedCommandBytes
    BY DEF CommandInv, CommandBudgets
  <2>4. commandUsed' = Cardinality(pendingCommands') /\ commandUsed' <= maxCommandsTotal
    BY <1>1, <2>1, <2>2, <2>3, LimitsAssumption
  <2>5. /\ queuedUsed' = Reserved(pendingBytes', pendingCommands')
        /\ queuedUsed' <= maxQueuedCommandBytes
    BY <1>1, <2>1, <2>2, <2>3, LimitsAssumption
  <2> QED
    BY <2>4, <2>5 DEF CommandBudgets
<1>4. CommandHistory' /\ SentInOrder'
  <2>1. ASSUME NEW y \in Request
        PROVE  /\ outcome'[y] = "pending" <=> y \in pendingCommands'
               /\ outcome'[y] = "none" <=> y >= nextRequest'
    <3>1. /\ outcome[y] = "pending" <=> y \in pendingCommands
          /\ outcome[y] = "none" <=> y >= nextRequest
      BY DEF CommandInv, CommandHistory
    <3>2. CASE y \in R
      BY <1>1, <3>1, <3>2
    <3>3. CASE y \notin R
      BY <1>1, <3>1, <3>3
    <3> QED
      BY <3>2, <3>3
  <2>2. \A y \in pendingCommands' \ active' : y \in pendingCommands \ active
    BY <1>1
  <2>3. SentInOrder' /\ Disclosed' = Disclosed
    BY <1>1 DEF CommandInv, SentInOrder, Disclosed
  <2> QED
    BY <1>1, <2>1, <2>2, <2>3 DEF CommandInv, CommandHistory
<1> QED
  BY <1>2, <1>3, <1>4 DEF CommandInv

-----------------------------------------------------------------------------
(* Admitting a command keeps the command invariant.                        *)
LEMMA DispatchStep ==
    ASSUME TypeOK, OwnersAgree, CommandInv, NEW s \in Sid, NEW b \in CommandSizes,
           DispatchCommand(s, b)
    PROVE  CommandInv'
<1> DEFINE r == nextRequest
           q == commandQueues[s]
           queue == Append(q, r)
           bytesOf == [pendingBytes EXCEPT ![r] = b]
           socketOf == [pendingSocket EXCEPT ![r] = sessions[s]]
           P == pendingCommands \cup {r}
<1>1. /\ r \in Request /\ r \in Nat /\ b \in Nat /\ q \in Seq(Request) /\ Sorted(q)
      /\ s \in Live /\ sessions[s] \in Socket
  BY SizesAssumption DEF DispatchCommand, CommandInv, QueuesSound, Live, TypeOK, Sorted, Request
<1>2. /\ \A j \in 1..Len(q) : /\ q[j] \in pendingCommands /\ pendingSession[q[j]] = s
                              /\ q[j] \in active <=> j = 1
                              /\ q[j] < r
      /\ \A y \in pendingCommands : y \in Request /\ y # r /\ y < r
      /\ r \notin active /\ active \subseteq pendingCommands
  <2>1. \A y \in pendingCommands : y \in Request /\ y # r /\ y < r
    BY <1>1 DEF CommandInv, CommandHistory, TypeOK, Request
  <2>2. \A j \in 1..Len(q) : /\ q[j] \in pendingCommands /\ pendingSession[q[j]] = s
                             /\ q[j] \in active <=> j = 1
    BY DEF CommandInv, QueuesSound
  <2>3. active \subseteq pendingCommands
    BY DEF CommandInv, QueuesSound
  <2> QED
    BY <2>1, <2>2, <2>3
<1>3. /\ queue \in Seq(Request) /\ Len(queue) = Len(q) + 1 /\ Len(q) \in Nat
      /\ \A j \in 1..Len(q) : queue[j] = q[j]
      /\ queue[Len(q) + 1] = r
  BY <1>1, AppendProperties, LenProperties
<1>4. Sorted(queue)
  <2>1. ASSUME NEW a \in 1..Len(queue), NEW c \in 1..Len(queue), a < c
        PROVE  queue[a] < queue[c]
    <3>1. a \in 1..Len(q) /\ queue[a] = q[a]
      BY <1>3, <2>1
    <3>2. CASE c = Len(q) + 1
      BY <1>2, <1>3, <3>1, <3>2
    <3>3. CASE c # Len(q) + 1
      <4>1. c \in 1..Len(q)
        BY <1>3, <3>3
      <4> QED
        BY <1>1, <1>3, <2>1, <3>1, <4>1 DEF Sorted
    <3> QED
      BY <3>2, <3>3
  <2> QED
    BY <2>1 DEF Sorted
<1>5. PICK n \in 0..Len(queue) :
        LET done == Refused(queue, n)
        IN  /\ MayRefuse(s, queue, socketOf, n)
            /\ pendingCommands' = P \ done
            /\ commandUsed' = commandUsed + 1 - Cardinality(done)
            /\ queuedUsed' = queuedUsed + b - Reserved(bytesOf, done)
            /\ outcome' = [x \in Request |-> IF x \in done THEN "rejected"
                                             ELSE IF x = r THEN "pending"
                                             ELSE outcome[x]]
            /\ commandQueues' = [commandQueues EXCEPT ![s] = AfterRefusals(queue, n)]
            /\ active' = (active \ done) \cup Head1(queue, n)
            /\ sent' = Written(s, queue, n)
  BY DEF DispatchCommand
<1> DEFINE done == Refused(queue, n)
           rest == AfterRefusals(queue, n)
           act == active \cup Head1(queue, n)
<1>6. /\ bytesOf \in [Request -> Nat] /\ bytesOf[r] = b
      /\ \A y \in pendingCommands : bytesOf[y] = pendingBytes[y]
      /\ socketOf[r] = sessions[s]
      /\ \A y \in pendingCommands : socketOf[y] = pendingSocket[y]
  BY <1>1, <1>2 DEF TypeOK
<1>7. /\ pendingSession' = [pendingSession EXCEPT ![r] = s]
      /\ pendingSocket' = socketOf /\ pendingBytes' = bytesOf /\ nextRequest' = r + 1
      /\ sessions' = sessions /\ Live' = Live
      /\ 1 <= maxCommandsTotal - commandUsed
      /\ b <= maxQueuedCommandBytes - queuedUsed
  BY DEF DispatchCommand, ownerVars, Live
<1>8. /\ pendingSession'[r] = s
      /\ \A y \in pendingCommands : pendingSession'[y] = pendingSession[y]
  BY <1>1, <1>2, <1>7 DEF TypeOK
<1> HIDE DEF queue, bytesOf, socketOf, q
<1>9. ASSUME NEW j \in 1..Len(queue)
      PROVE  /\ queue[j] \in P /\ pendingSession'[queue[j]] = s
             /\ queue[j] \in active => j = 1 /\ n = 0
  <2>1. CASE j = Len(q) + 1
    BY <1>2, <1>3, <1>8, <2>1
  <2>2. CASE j # Len(q) + 1
    <3>1. j \in 1..Len(q) /\ queue[j] = q[j]
      BY <1>3, <2>2
    <3>2. queue[j] \in active => j = 1
      BY <1>2, <3>1
    <3>3. ASSUME queue[j] \in active PROVE n = 0
      <4>1. queue # <<>> /\ queue[1] \in active
        BY <1>3, <3>2, <3>3, EmptySeq
      <4> QED
        BY <1>5, <4>1 DEF MayRefuse
    <3> QED
      BY <1>2, <1>8, <3>1, <3>2, <3>3
  <2> QED
    BY <2>1, <2>2
<1>10. Advanced(queue, n, rest, act)
  <2>1. \A j \in 1..Len(queue) : queue[j] \in active => j = 1 /\ n = 0
    BY <1>9
  <2>2. rest = AfterRefusals(queue, n) /\ act = active \cup Head1(queue, n)
    OBVIOUS
  <2>3. queue \in Seq(Request) /\ Sorted(queue)
    BY <1>3, <1>4
  <2> HIDE DEF rest, act
  <2> QED
    BY <2>1, <2>2, <2>3, AdvanceSound
<1>11. rest \in Seq(Request) /\ Sorted(rest) /\ done \subseteq Request
  BY <1>3, <1>4, AdvanceFacts
<1>12. /\ done \subseteq P
       /\ \A x \in done : pendingSession'[x] = s
       /\ \A x \in Head1(queue, n) : x \in P \ done /\ pendingSession'[x] = s
       /\ act \cap done = {}
  <2>1. \A x \in done : \E j \in 1..Len(queue) : x = queue[j]
    BY <1>3 DEF Refused
  <2>2. \A x \in done : x \in P /\ pendingSession'[x] = s
    BY <1>9, <2>1
  <2>3. \A x \in Head1(queue, n) : x \in P \ done /\ pendingSession'[x] = s
    BY <1>9, <1>10 DEF Advanced
  <2>4. act \cap done = {}
    BY <1>10 DEF Advanced
  <2> QED
    BY <2>2, <2>3, <2>4
<1>13. active' = act
  BY <1>5, <1>12
<1> HIDE DEF done, rest, act
<1>14. /\ pendingCommands' = P \ done
       /\ commandUsed' = commandUsed + 1 - Cardinality(done)
       /\ queuedUsed' = queuedUsed + b - Reserved(bytesOf, done)
       /\ outcome' = [x \in Request |-> IF x \in done THEN "rejected"
                        ELSE IF x = r THEN "pending" ELSE outcome[x]]
       /\ commandQueues' = [commandQueues EXCEPT ![s] = rest]
       /\ sent' = Written(s, queue, n)
  BY <1>5 DEF done, rest
<1>15. /\ \A y \in P \ done : pendingSession'[y] = s => \E m \in 1..Len(rest) : rest[m] = y
       /\ \A j \in 1..Len(rest) : rest[j] \in P \ done /\ pendingSession'[rest[j]] = s
  <2>1. ASSUME NEW y \in P \ done, pendingSession'[y] = s
        PROVE  \E m \in 1..Len(rest) : rest[m] = y
    <3>1. \E m \in 1..Len(queue) : queue[m] = y
      <4>1. CASE y = r
        BY <1>3, <4>1
      <4>2. CASE y # r
        <5>1. y \in pendingCommands /\ pendingSession[y] = s
          BY <1>8, <2>1, <4>2
        <5>2. \E m \in 1..Len(q) : q[m] = y
          BY <5>1 DEF CommandInv, QueuesSound, q
        <5> QED
          BY <1>3, <5>2
      <4> QED
        BY <4>1, <4>2
    <3> QED
      BY <1>10, <2>1, <3>1 DEF Advanced, done
  <2>2. ASSUME NEW j \in 1..Len(rest)
        PROVE  rest[j] \in P \ done /\ pendingSession'[rest[j]] = s
    <3>1. rest[j] \notin done /\ \E m \in 1..Len(queue) : rest[j] = queue[m]
      BY <1>10 DEF Advanced, done
    <3> QED
      BY <1>9, <3>1
  <2> QED
    BY <2>1, <2>2
<1> HIDE DEF r
<1>16. QueuesSound'
  <2>1. /\ commandQueues'[s] = rest
        /\ \A x \in Sid \ {s} : commandQueues'[x] = commandQueues[x]
    BY <1>14 DEF TypeOK
  <2>2. \A x \in Sid : \A a, c \in 1..Len(commandQueues'[x]) :
           a < c => commandQueues'[x][a] < commandQueues'[x][c]
    BY <1>11, <2>1 DEF Sorted, CommandInv, QueuesSound
  <2>3. ASSUME NEW x \in Sid, NEW j \in 1..Len(commandQueues'[x])
        PROVE  /\ commandQueues'[x][j] \in pendingCommands'
               /\ pendingSession'[commandQueues'[x][j]] = x
               /\ commandQueues'[x][j] \in active' <=> j = 1
    <3>1. CASE x = s
      BY <1>10, <1>13, <1>14, <1>15, <2>1, <3>1 DEF Advanced
    <3>2. CASE x # s
      <4> DEFINE y == commandQueues[x][j]
      <4>1. commandQueues'[x][j] = y /\ j \in 1..Len(commandQueues[x])
        BY <2>1, <2>3, <3>2
      <4>2. y \in pendingCommands /\ pendingSession[y] = x /\ (y \in active <=> j = 1)
        BY <4>1 DEF CommandInv, QueuesSound
      <4> HIDE DEF y
      <4>3. y \in P /\ pendingSession'[y] = x
        BY <1>8, <4>2
      <4>4. y \notin done /\ y \notin Head1(queue, n)
        BY <1>12, <3>2, <4>3
      <4> QED
        BY <1>13, <1>14, <4>1, <4>2, <4>3, <4>4 DEF act
    <3> QED
      BY <3>1, <3>2
  <2>4. ASSUME NEW y \in pendingCommands'
        PROVE  /\ pendingSession'[y] \in Live'
               /\ pendingSocket'[y] = sessions'[pendingSession'[y]]
               /\ \E j \in 1..Len(commandQueues'[pendingSession'[y]]) :
                     commandQueues'[pendingSession'[y]][j] = y
    <3>1. y \in P \ done
      BY <1>14
    <3>2. CASE pendingSession'[y] = s
      <4>1. pendingSocket'[y] = sessions[s]
        <5>1. CASE y = r
          BY <1>6, <1>7, <5>1
        <5>2. CASE y # r
          <6>1. y \in pendingCommands /\ pendingSession[y] = s
            BY <1>8, <3>1, <3>2, <5>2
          <6> QED
            BY <1>6, <1>7, <6>1 DEF CommandInv, QueuesSound
        <5> QED
          BY <5>1, <5>2
      <4> QED
        BY <1>1, <1>7, <1>15, <2>1, <3>1, <3>2, <4>1
    <3>3. CASE pendingSession'[y] # s
      <4>1. y \in pendingCommands /\ pendingSession'[y] = pendingSession[y]
        BY <1>8, <3>1, <3>3
      <4>2. /\ pendingSession[y] \in Live /\ pendingSession[y] \in Sid
            /\ pendingSocket[y] = sessions[pendingSession[y]]
            /\ \E j \in 1..Len(commandQueues[pendingSession[y]]) :
                  commandQueues[pendingSession[y]][j] = y
        BY <4>1 DEF CommandInv, QueuesSound, Live
      <4> QED
        BY <1>6, <1>7, <2>1, <3>3, <4>1, <4>2
    <3> QED
      BY <3>2, <3>3
  <2>5. active' \subseteq pendingCommands'
    BY <1>2, <1>12, <1>13, <1>14 DEF act
  <2> QED
    BY <2>2, <2>3, <2>4, <2>5 DEF QueuesSound
<1>17. CommandBudgets'
  <2>1. P \in SUBSET Request /\ done \in SUBSET P
    BY <1>1, <1>2, <1>12
  <2>2. /\ Cardinality(P \ done) = Cardinality(P) - Cardinality(done)
        /\ Reserved(bytesOf, P \ done) = Reserved(bytesOf, P) - Reserved(bytesOf, done)
        /\ Cardinality(done) \in Nat /\ Reserved(bytesOf, done) \in Nat
    BY <1>6, <2>1, CommandsReleased
  <2>3. /\ Cardinality(pendingCommands) \in Nat /\ IsFiniteSet(pendingCommands)
        /\ IsFiniteSet({r})
    BY <1>1, RequestsFinite DEF TypeOK
  <2>4. Cardinality(P) = Cardinality(pendingCommands) + 1
    BY <1>2, <2>3, FS_AddElement
  <2>5. Reserved(bytesOf, P) = Reserved(pendingBytes, pendingCommands) + b
    <3>1. Reserved(bytesOf, pendingCommands) = Reserved(pendingBytes, pendingCommands)
      BY <1>6, ReservedSame
    <3>2. Reserved(bytesOf, {r}) = b
      BY <1>1, <1>6, ReservedOne
    <3>3. pendingCommands \cap {r} = {} /\ \A x \in pendingCommands \cup {r} : bytesOf[x] \in Nat
      BY <1>1, <1>2, <1>6
    <3> QED
      BY <2>3, <3>1, <3>2, <3>3, ReservedUnion
  <2>6. Reserved(pendingBytes, pendingCommands) \in Nat
    BY <2>3, ReservedType DEF TypeOK
  <2>7. /\ commandUsed = Cardinality(pendingCommands)
        /\ queuedUsed = Reserved(pendingBytes, pendingCommands)
    BY DEF CommandInv, CommandBudgets
  <2>8. /\ Cardinality(pendingCommands') = Cardinality(P \ done)
        /\ Reserved(pendingBytes', pendingCommands') = Reserved(bytesOf, P \ done)
    BY <1>7, <1>14
  <2> HIDE DEF P
  <2>9. commandUsed' = Cardinality(pendingCommands') /\ commandUsed' <= maxCommandsTotal
    BY <1>7, <1>14, <2>2, <2>3, <2>4, <2>7, <2>8, LimitsAssumption
  <2>10. /\ queuedUsed' = Reserved(pendingBytes', pendingCommands')
         /\ queuedUsed' <= maxQueuedCommandBytes
    BY <1>1, <1>7, <1>14, <2>2, <2>5, <2>6, <2>7, <2>8, LimitsAssumption
  <2> QED
    BY <2>9, <2>10 DEF CommandBudgets
<1> DEFINE k == sessions[s]
<1>18. \/ sent' = sent
       \/ \E h \in Head1(queue, n) :
            /\ h \notin active
            /\ socketOf[h] = k /\ k \in Socket
            /\ sent' = [sent EXCEPT ![k] = Append(@, h)]
  <2>1. CASE n < Len(queue) /\ queue[n + 1] \notin active
    <3>1. sent' = [sent EXCEPT ![k] = Append(@, queue[n + 1])]
      BY <1>14, <2>1 DEF Written
    <3>2. queue[n + 1] \in Head1(queue, n)
      BY <1>3, <1>4, <2>1, AdvanceFacts
    <3>3. socketOf[queue[n + 1]] = k
      BY <1>5, <2>1 DEF MayRefuse
    <3> QED
      BY <1>1, <2>1, <3>1, <3>2, <3>3
  <2>2. CASE ~(n < Len(queue) /\ queue[n + 1] \notin active)
    BY <1>14, <2>2 DEF Written
  <2> QED
    BY <2>1, <2>2
<1>19. CommandHistory' /\ SentInOrder'
  <2>1. r = nextRequest /\ nextRequest' = r + 1
    BY <1>7 DEF r
  <2>2. \A y \in pendingCommands' : y < nextRequest'
    <3>1. \A y \in pendingCommands : y \in Int /\ y < r
      BY <1>2 DEF Request
    <3>2. \A y \in P : y < r + 1
      BY <1>1, <3>1
    <3> QED
      BY <1>14, <2>1, <3>2
  <2>3. ASSUME NEW y \in Request
        PROVE  /\ outcome'[y] = "pending" <=> y \in pendingCommands'
               /\ outcome'[y] = "none" <=> y >= nextRequest'
    <3>1. /\ outcome[y] = "pending" <=> y \in pendingCommands
          /\ outcome[y] = "none" <=> y >= nextRequest
      BY DEF CommandInv, CommandHistory
    <3>2. y \in Int /\ r \in Int
      BY <1>1 DEF Request
    <3>3. CASE y \in done
      <4>1. y = r \/ y \in pendingCommands
        BY <1>12, <3>3
      <4>2. y < r + 1
        BY <1>2, <3>2, <4>1
      <4> QED
        BY <1>14, <2>1, <3>2, <3>3, <4>2
    <3>4. CASE y \notin done /\ y = r
      BY <1>14, <2>1, <3>2, <3>4
    <3>5. CASE y \notin done /\ y # r
      BY <1>14, <2>1, <3>1, <3>2, <3>5
    <3> QED
      BY <3>3, <3>4, <3>5
  <2>4. /\ \A x \in Socket : \A j \in 1..Len(sent[x]) : sent[x][j] < r
        /\ \A y \in pendingCommands \ active : \A j \in 1..Len(sent[pendingSocket[y]]) :
              sent[pendingSocket[y]][j] < y
        /\ SentInOrder
    BY <2>1 DEF CommandInv, CommandHistory
  <2>5. \A x \in Socket : \A j \in 1..Len(sent[x]) : sent[x][j] \in Int
    <3>1. ASSUME NEW x \in Socket PROVE sent[x] \in [1..Len(sent[x]) -> Request]
      BY LenProperties DEF TypeOK
    <3> QED
      BY <3>1 DEF Request
  <2>6. ASSUME NEW y \in P, y \notin active
        PROVE  socketOf[y] \in Socket /\ \A j \in 1..Len(sent[socketOf[y]]) : sent[socketOf[y]][j] < y
    <3>1. CASE y = r
      BY <1>1, <1>6, <2>4, <3>1
    <3>2. CASE y # r
      <4>1. y \in pendingCommands \ active /\ socketOf[y] = pendingSocket[y]
        BY <1>6, <2>6, <3>2
      <4>2. pendingSocket[y] \in Socket
        BY <4>1 DEF CommandInv, QueuesSound, Live, TypeOK
      <4> QED
        BY <2>4, <4>1, <4>2
    <3> QED
      BY <3>1, <3>2
  <2>7. ASSUME NEW y \in pendingCommands' \ active'
        PROVE  y \in P /\ y \notin active /\ y \notin done
    BY <1>13, <1>14 DEF act
  <2>8. ASSUME NEW y \in P, y \notin active PROVE y \notin Disclosed
    <3>1. CASE y = r
      <4>1. \A x \in Socket : \A j \in 1..Len(sent[x]) : sent[x][j] # r
        BY <1>1, <2>4, <2>5
      <4> QED
        BY <3>1, <4>1 DEF Disclosed
    <3>2. CASE y # r
      BY <1>6, <2>8, <3>2 DEF CommandInv, CommandHistory
    <3> QED
      BY <3>1, <3>2
  <2>9. CASE sent' = sent
    <3>1. SentInOrder'
      BY <2>4, <2>9 DEF SentInOrder
    <3>2. \A x \in Socket : \A j \in 1..Len(sent'[x]) : sent'[x][j] < nextRequest'
      BY <1>1, <2>1, <2>4, <2>5, <2>9
    <3>3. \A y \in pendingCommands' \ active' : \A j \in 1..Len(sent'[pendingSocket'[y]]) :
              sent'[pendingSocket'[y]][j] < y
      BY <1>7, <2>6, <2>7, <2>9
    <3>4. Disclosed' = Disclosed
      BY <2>9 DEF Disclosed
    <3>5. \A y \in pendingCommands' \ active' : y \notin Disclosed'
      BY <2>7, <2>8, <3>4
    <3> QED
      BY <2>2, <2>3, <3>1, <3>2, <3>3, <3>5 DEF CommandHistory
  <2>10. ASSUME NEW h \in Head1(queue, n), h \notin active,
               socketOf[h] = k, k \in Socket,
               sent' = [sent EXCEPT ![k] = Append(@, h)]
        PROVE  CommandHistory' /\ SentInOrder'
    <3>1. h \in P /\ h \in Request /\ h < r + 1 /\ h \in Int
      BY <1>1, <1>2, <1>12 DEF Request
    <3>2. \A j \in 1..Len(sent[k]) : sent[k][j] < h
      BY <2>6, <2>10, <3>1
    <3> HIDE DEF k
    <3>3. SentInOrder' /\ OnlyAdds(k, h)
      BY <2>4, <2>10, <3>1, <3>2, SentStep
    <3>4. \A x \in Socket : \A j \in 1..Len(sent'[x]) : sent'[x][j] < nextRequest'
      <4>1. \A x \in Socket : \A j \in 1..Len(sent[x]) : sent[x][j] < r + 1
        BY <1>1, <2>4, <2>5
      <4> QED
        BY <2>1, <3>1, <3>3, <4>1 DEF OnlyAdds
    <3>5. ASSUME NEW y \in pendingCommands' \ active',
                 NEW j \in 1..Len(sent'[pendingSocket'[y]])
          PROVE  sent'[pendingSocket'[y]][j] < y
      <4>1. /\ y \in P /\ y \notin active /\ y \notin done
            /\ pendingSocket'[y] = socketOf[y] /\ socketOf[y] \in Socket
        BY <1>7, <2>6, <2>7, <3>5
      <4>2. CASE socketOf[y] = k /\ sent'[k][j] = h
        <5>1. pendingSession'[y] = s
          <6>1. CASE y = r
            BY <1>8, <6>1
          <6>2. CASE y # r
            <7>1. y \in pendingCommands /\ pendingSocket[y] = k
              BY <1>6, <4>1, <4>2, <6>2
            <7>2. pendingSession[y] \in Sid /\ sessions[pendingSession[y]] = sessions[s]
              BY <7>1 DEF CommandInv, QueuesSound, Live, k
            <7>3. pendingSession[y] = s
              BY <1>1, <7>2 DEF OwnersAgree, Live
            <7> QED
              BY <1>8, <7>1, <7>3
          <6> QED
            BY <6>1, <6>2
        <5>2. \E m \in 1..Len(rest) : rest[m] = y
          BY <1>15, <4>1, <5>1
        <5>3. h < y
          BY <1>10, <1>13, <2>10, <3>5, <5>2 DEF Advanced
        <5> QED
          BY <4>1, <4>2, <5>3
      <4>3. CASE j \in 1..Len(sent[socketOf[y]])
                   /\ sent'[socketOf[y]][j] = sent[socketOf[y]][j]
        BY <2>6, <4>1, <4>3
      <4> QED
        BY <3>3, <3>5, <4>1, <4>2, <4>3 DEF OnlyAdds
    <3>6. ASSUME NEW y \in pendingCommands' \ active' PROVE y \notin Disclosed'
      <4>1. y # h
        BY <1>13, <2>10, <3>6 DEF act
      <4> QED
        BY <2>7, <2>8, <3>3, <3>6, <4>1, KnownWritten
    <3> QED
      BY <2>2, <2>3, <3>3, <3>4, <3>5, <3>6 DEF CommandHistory
  <2> QED
    BY <1>18, <2>9, <2>10
<1> QED
  BY <1>16, <1>17, <1>19 DEF CommandInv

-----------------------------------------------------------------------------
(* Every step keeps the command invariant.                                 *)
LEMMA CommandStep ==
    ASSUME TypeOK, OwnersAgree, CommandInv, Operation
    PROVE  CommandInv'
<1>a. ASSUME UNCHANGED <<ownerVars, commandVars>> PROVE CommandInv'
  <2>1. QueuesSound'
    BY <1>a DEF ownerVars, commandVars, CommandInv, QueuesSound, Live
  <2>2. CommandBudgets'
    BY <1>a DEF commandVars, CommandInv, CommandBudgets
  <2>3. CommandHistory' /\ SentInOrder'
    BY <1>a DEF commandVars, CommandInv, CommandHistory, SentInOrder, Disclosed
  <2> QED
    BY <2>1, <2>2, <2>3 DEF CommandInv
<1>b. ASSUME NEW S, RejectPendingCommandsForSessions(S),
             \A s \in Sid \ S : s \in Live => sessions'[s] = sessions[s]
      PROVE  CommandInv'
  <2> DEFINE R == {r \in pendingCommands : pendingSession[r] \in S}
  <2>1. R \in SUBSET pendingCommands /\ Settle(R, "rejected")
        /\ R = {r \in pendingCommands : pendingSession[r] \in S}
    BY <1>b DEF RejectPendingCommandsForSessions
  <2> HIDE DEF R
  <2> QED
    BY <1>b, <2>1, RejectStep DEF RejectPendingCommandsForSessions
<1>1. ASSUME NEW k \in Socket, NEW s \in Sid, NEW b \in RetainedSizes,
             NEW replace \in BOOLEAN, RegisterSession(k, s, b, replace)
      PROVE  CommandInv'
  <2>1. \A x \in Sid \ Interrupted(k, s) : x \in Live => sessions'[x] = sessions[x]
    BY <1>1 DEF RegisterSession, Interrupted, TakesOver, Live, TypeOK
  <2> QED
    BY <1>1, <1>b, <2>1 DEF RegisterSession
<1>2. ASSUME NEW S, RemoveSessions(S) PROVE CommandInv'
  <2>1. \A x \in Sid \ S : x \in Live => sessions'[x] = sessions[x]
    BY <1>2 DEF RemoveSessions
  <2> QED
    BY <1>2, <1>b, <2>1 DEF RemoveSessions
<1>3. ASSUME Shutdown PROVE CommandInv'
  <2>1. pendingCommands = {r \in pendingCommands : pendingSession[r] \in Sid}
    BY DEF CommandInv, QueuesSound, Live
  <2>2. commandQueues' = [s \in Sid |-> IF s \in Sid THEN <<>> ELSE commandQueues[s]]
    BY <1>3 DEF Shutdown
  <2>3. Settle(pendingCommands, "rejected")
        /\ UNCHANGED <<pendingSession, pendingSocket, pendingBytes, nextRequest, sent>>
    BY <1>3 DEF Shutdown
  <2>4. \A s \in Sid \ Sid : s \in Live => sessions'[s] = sessions[s]
    OBVIOUS
  <2> QED
    BY <2>1, <2>2, <2>3, <2>4, RejectStep
<1>4. ASSUME NEW r \in pendingCommands, NEW how \in Settled, FinishPending(r, how),
             UNCHANGED <<ownerVars, sizeVars, silence, sincePrune, shutdownError, open>>
      PROVE  CommandInv'
  BY <1>4, FinishStep
<1>5. ASSUME NEW k \in Socket, NEW r, NEW ok \in BOOLEAN, HandleCommandResult(k, r, ok)
      PROVE  CommandInv'
  BY <1>5, <1>4 DEF HandleCommandResult, Settled
<1>6. ASSUME NEW r \in Request, CommandTimeout(r) PROVE CommandInv'
  BY <1>6, <1>4 DEF CommandTimeout, Settled
<1>7. ASSUME NEW k \in Socket, TransportOpens(k) PROVE CommandInv'
  <2>1. /\ sent' = [sent EXCEPT ![k] = <<>>]
        /\ UNCHANGED <<ownerVars, pendingCommands, pendingSession, pendingSocket, pendingBytes,
                       active, commandQueues, commandUsed, queuedUsed, nextRequest, outcome>>
    BY <1>7 DEF TransportOpens
  <2>2. \A x \in Socket : \A i \in 1..Len(sent'[x]) : sent'[x] = sent[x]
    BY <2>1, EmptySeq DEF TypeOK
  <2>3. QueuesSound'
    BY <2>1 DEF ownerVars, CommandInv, QueuesSound, Live
  <2>4. CommandBudgets'
    BY <2>1 DEF CommandInv, CommandBudgets
  <2>5. SentInOrder'
    BY <2>2 DEF CommandInv, SentInOrder
  <2>6. \A r \in pendingCommands : pendingSocket[r] \in Socket
    BY DEF CommandInv, QueuesSound, Live, TypeOK
  <2>7. Disclosed' \subseteq Disclosed
    BY <2>2 DEF Disclosed
  <2>8. CommandHistory'
    BY <2>1, <2>2, <2>6, <2>7 DEF CommandInv, CommandHistory
  <2> QED
    BY <2>3, <2>4, <2>5, <2>8 DEF CommandInv
<1> QED
  BY <1>a, <1>1, <1>2, <1>3, <1>5, <1>6, <1>7, DispatchStep
  DEF Operation, SessionOperation, RemoveOperation, CommandOperation, UpdateSnapshot,
      MarkSessionSeen, TransportDies, ClockAdvances

-----------------------------------------------------------------------------
(* A broker that was shut down has no sessions.                             *)
ShutdownFinal == shutdownError => Live = {}

(* The inductive invariant: each part needs the others.  Typing a settled   *)
(* command needs the queues, the queues need the owner maps to know which   *)
(* socket a session's commands go to, and the budgets need both.            *)
IInv == TypeOK /\ OwnersAgree /\ SessionBudgets /\ CommandInv /\ ShutdownFinal

(* The inductive invariant holds initially.                                *)
LEMMA InitIInv == Init => IInv
<1> SUFFICES ASSUME Init PROVE IInv
  OBVIOUS
<1>0. Live = {} /\ Cardinality({}) = 0 /\ Len(<<>>) = 0
  BY FS_EmptySet, EmptySeq DEF Init, Live
<1>1. TypeOK
  <2>1. /\ <<>> \in Seq(Request)
        /\ 0 \in 0..ttl /\ -1 \in -1..(ttl + 1)
    BY EmptySeq, ClockAssumption
  <2>2. /\ silence \in [Sid -> 0..ttl] /\ sincePrune \in -1..(ttl + 1)
        /\ commandQueues \in [Sid -> Seq(Request)] /\ sent \in [Socket -> Seq(Request)]
    BY <2>1 DEF Init
  <2>3. /\ sessions \in [Sid -> Socket \cup {NoSocket}]
        /\ sessionIdsBySocket \in [Socket -> Sid \cup {NoSession}]
        /\ retainedReservations \in [Sid -> Nat]
        /\ pendingSession \in [Request -> Sid \cup {NoSession}]
        /\ pendingSocket \in [Request -> Socket \cup {NoSocket}]
        /\ pendingBytes \in [Request -> Nat]
        /\ outcome \in [Request -> Settled \cup {"none", "pending"}]
        /\ open \in [Socket -> BOOLEAN]
        /\ answeredBy \in [Request -> Socket \cup {NoSocket}]
    BY DEF Init
  <2>4. /\ sessionReservations \subseteq Sid
        /\ pendingCommands \subseteq Request /\ active \subseteq Request
        /\ sessionUsed \in Int /\ retainedUsed \in Int
        /\ commandUsed \in Int /\ queuedUsed \in Int
        /\ nextRequest \in Nat \ {0}
    BY DEF Init
  <2>5. shutdownError \in BOOLEAN
    BY DEF Init
  <2> QED
    BY <2>2, <2>3, <2>4, <2>5 DEF TypeOK
<1>2. OwnersAgree /\ ShutdownFinal
  BY DEF Init, OwnersAgree, ShutdownFinal
<1>3. Reserved(retainedReservations, Sid) = 0
  BY ReservedZero DEF Init
<1>4. SessionBudgets
  BY <1>0, <1>3, LimitsAssumption DEF Init, SessionBudgets
<1>5. CommandBudgets
  BY <1>0, ReservedNone, LimitsAssumption DEF Init, CommandBudgets
<1>6. QueuesSound /\ SentInOrder
  BY <1>0 DEF Init, QueuesSound, SentInOrder
<1>7. CommandHistory
  BY <1>0 DEF Init, CommandHistory, Request
<1> QED
  BY <1>1, <1>2, <1>4, <1>5, <1>6, <1>7 DEF IInv, CommandInv

(* Once shut down, no step brings a session back.                          *)
LEMMA ShutdownStep ==
    ASSUME IInv, Operation
    PROVE  ShutdownFinal'
<1>1. ASSUME UNCHANGED <<sessions, shutdownError>> PROVE ShutdownFinal'
  BY <1>1 DEF IInv, ShutdownFinal, Live
<1>2. ASSUME NEW S, RemoveSessions(S), UNCHANGED shutdownError PROVE ShutdownFinal'
  BY <1>2 DEF IInv, TypeOK, ShutdownFinal, Live, RemoveSessions
<1>3. ASSUME Shutdown PROVE ShutdownFinal'
  BY <1>3 DEF Shutdown, ShutdownFinal, Live
<1>4. ASSUME NEW k \in Socket, NEW s \in Sid, NEW b \in RetainedSizes,
             NEW replace \in BOOLEAN, RegisterSession(k, s, b, replace)
      PROVE  ShutdownFinal'
  BY <1>4 DEF RegisterSession, AcceptsWork, ShutdownFinal
<1> QED
  BY <1>1, <1>2, <1>3, <1>4
  DEF Operation, SessionOperation, RemoveOperation, CommandOperation, UpdateSnapshot,
      MarkSessionSeen, HandleCommandResult, CommandTimeout, DispatchCommand,
      TransportDies, TransportOpens, ClockAdvances, ownerVars

(* Every operation keeps the inductive invariant.                          *)
LEMMA OperationIInv ==
    ASSUME IInv, Operation
    PROVE  IInv'
<1>1. TypeOK'
  BY TypeStep DEF IInv, CommandInv
<1>2. OwnersAgree'
  BY OwnerStep DEF IInv
<1>3. SessionBudgets'
  BY SessionBudgetStep DEF IInv
<1>4. CommandInv'
  BY CommandStep DEF IInv
<1>5. ShutdownFinal'
  BY ShutdownStep
<1> QED
  BY <1>1, <1>2, <1>3, <1>4, <1>5 DEF IInv

(* Every step, or stutter, keeps the inductive invariant.                  *)
LEMMA NextIInv == IInv /\ [Next]_vars => IInv'
<1> SUFFICES ASSUME IInv, [Next]_vars PROVE IInv'
  OBVIOUS
<1>1. CASE Next
  <2>1. Operation
    BY <1>1, NextOperates DEF IInv
  <2> QED
    BY <2>1, OperationIInv
<1>2. CASE UNCHANGED vars
  <2> USE <1>2 DEF vars, ownerVars, sizeVars, commandVars
  <2>1. TypeOK'
    BY DEF IInv, TypeOK
  <2>2. OwnersAgree' /\ ShutdownFinal'
    BY DEF IInv, OwnersAgree, ShutdownFinal, Live
  <2>3. SessionBudgets' /\ CommandBudgets'
    BY DEF IInv, CommandInv, SessionBudgets, CommandBudgets, Live
  <2>4. QueuesSound' /\ SentInOrder'
    BY DEF IInv, CommandInv, QueuesSound, SentInOrder, Live
  <2>5. CommandHistory'
    <3>1. Disclosed' = Disclosed
      BY DEF Disclosed
    <3> QED
      BY <3>1 DEF IInv, CommandInv, CommandHistory
  <2> QED
    BY <2>1, <2>2, <2>3, <2>4, <2>5 DEF IInv, CommandInv
<1> QED
  BY <1>1, <1>2

(* The inductive invariant holds in every reachable state.                 *)
LEMMA Inductive == Spec => []IInv
BY InitIInv, NextIInv, PTL DEF Spec

-----------------------------------------------------------------------------
(* The values stay in their types: a socket, a session, a request or a     *)
(* count is never lost to an undefined entry of a map.                     *)
THEOREM TypeCorrect == Spec => []TypeOK
BY Inductive, PTL DEF IInv

(* The two owner maps stay inverse to each other through every takeover,   *)
(* rename, disconnect, sweep and shutdown.                                 *)
THEOREM OwnershipSafe == Spec => []OwnersAgree
BY Inductive, PTL DEF IInv

(* Every budget is exact and within its limit, for every choice of limits. *)
THEOREM BudgetsSafe == Spec => []BudgetsExact
<1>1. IInv => BudgetsExact
  BY DEF IInv, CommandInv, SessionBudgets, CommandBudgets, BudgetsExact
<1> QED
  BY <1>1, Inductive, PTL

(* Every pending command waits in its session's queue, whose head is the   *)
(* one command its owner is working on.                                    *)
THEOREM QueuesSafe == Spec => []QueuesSound
<1>1. IInv => QueuesSound
  BY DEF IInv, CommandInv
<1> QED
  BY <1>1, Inductive, PTL

(* A socket receives commands in admission order, each at most once.       *)
THEOREM OrderSafe == Spec => []SentInOrder
<1>1. IInv => SentInOrder
  BY DEF IInv, CommandInv
<1> QED
  BY <1>1, Inductive, PTL

(* Without sessions nothing is pending and no budget is charged.           *)
LEMMA NothingLeft ==
    ASSUME IInv, shutdownError
    PROVE  /\ Live = {} /\ pendingCommands = {}
           /\ sessionUsed = 0 /\ retainedUsed = 0 /\ commandUsed = 0 /\ queuedUsed = 0
<1>1. Live = {}
  BY DEF IInv, ShutdownFinal
<1>2. pendingCommands = {}
  BY <1>1 DEF IInv, CommandInv, QueuesSound
<1>3. sessionUsed = 0 /\ commandUsed = 0
  BY <1>1, <1>2, FS_EmptySet DEF IInv, CommandInv, CommandBudgets, SessionBudgets
<1>4. queuedUsed = 0
  BY <1>2, ReservedNone DEF IInv, CommandInv, CommandBudgets
<1>5. \A s \in Sid : retainedReservations[s] = 0
  BY <1>1 DEF IInv, SessionBudgets
<1>6. retainedUsed = 0
  BY <1>5, ReservedZero DEF IInv, SessionBudgets
<1> QED
  BY <1>1, <1>2, <1>3, <1>4, <1>6

(* Nothing is owned, pending or reserved after shutdown().                 *)
THEOREM ShutdownSafe == Spec => []NothingAfterShutdown
<1>1. IInv => NothingAfterShutdown
  BY NothingLeft DEF NothingAfterShutdown
<1> QED
  BY <1>1, Inductive, PTL

-----------------------------------------------------------------------------
(* The outcome of x may change only if x is pending or just being admitted,*)
(* and x is answered only if it is the active command of its session, by   *)
(* the owner of that session.                                              *)
OutcomeMoves(x) ==
    outcome'[x] # outcome[x] =>
      /\ x \in pendingCommands \/ x = nextRequest
      /\ outcome'[x] \in {"resolved", "failed"} =>
            x \in active /\ answeredBy'[x] = sessions[pendingSession[x]]

(* Finishing r touches the outcomes of r and of commands queued behind it. *)
LEMMA FinishOutcome ==
    ASSUME IInv, NEW r \in pendingCommands, NEW how \in Settled, FinishPending(r, how),
           how \in {"resolved", "failed"} =>
              r \in active /\ answeredBy'[r] = sessions[pendingSession[r]]
    PROVE  \A x \in Request : OutcomeMoves(x)
<1> DEFINE s == pendingSession[r]
           q == commandQueues[s]
           queue == Splice(q, r)
<1>1. /\ s \in Sid /\ q \in Seq(Request) /\ Sorted(q)
      /\ \A j \in 1..Len(q) : q[j] \in pendingCommands
  BY DEF IInv, CommandInv, QueuesSound, Live, TypeOK, Sorted
<1>2. PICK i \in 1..Len(q) : q[i] = r
  BY DEF IInv, CommandInv, QueuesSound
<1>3. /\ Len(queue) = Len(q) - 1
      /\ \A j \in 1..(Len(q) - 1) : queue[j] = IF j < i THEN q[j] ELSE q[j + 1]
  <2>1. q \in Seq(Request) /\ Sorted(q) /\ i \in 1..Len(q) /\ r = q[i]
    BY <1>1, <1>2
  <2> QED
    BY ONLY <2>1, SpliceFacts
<1>4. Len(q) \in Nat
  BY <1>1, LenProperties
<1>5. \A j \in 1..Len(queue) : queue[j] \in pendingCommands
  BY <1>1, <1>3, <1>4
<1>6. PICK refused \in 0..Len(queue) :
        outcome' = [x \in Request |->
                      IF x = r THEN how
                      ELSE IF x \in Refused(queue, refused) \cup {r} THEN "rejected"
                      ELSE outcome[x]]
  BY DEF FinishPending
<1> HIDE DEF queue
<1>7. Refused(queue, refused) \subseteq pendingCommands
  BY <1>3, <1>4, <1>5 DEF Refused
<1> QED
  BY <1>6, <1>7 DEF OutcomeMoves

(* Every step moves only the outcomes it may.                              *)
LEMMA OutcomeStep ==
    ASSUME IInv, Operation
    PROVE  \A x \in Request : OutcomeMoves(x)
<1> DEFINE Moves == \A x \in Request : OutcomeMoves(x)
<1>a. ASSUME UNCHANGED outcome PROVE Moves
  BY <1>a DEF OutcomeMoves
<1>b. ASSUME NEW R \in SUBSET pendingCommands, Settle(R, "rejected") PROVE Moves
  BY <1>b DEF Settle, OutcomeMoves
<1>c. ASSUME NEW S, RejectPendingCommandsForSessions(S) PROVE Moves
  BY <1>b, <1>c DEF RejectPendingCommandsForSessions
<1>1. ASSUME NEW k \in Socket, NEW r \in Disclosed, NEW ok \in BOOLEAN,
             HandleCommandResult(k, r, ok)
      PROVE  Moves
  <2>1. r \in pendingCommands /\ pendingSocket[r] = k /\ r \in Request
    BY <1>1 DEF HandleCommandResult, IInv, TypeOK
  <2>2. r \in active
    BY <2>1 DEF IInv, CommandInv, CommandHistory
  <2>3. answeredBy'[r] = sessions[pendingSession[r]]
    <3>1. answeredBy' = [answeredBy EXCEPT ![r] = k] /\ answeredBy \in [Request -> Socket \cup {NoSocket}]
      BY <1>1 DEF HandleCommandResult, IInv, TypeOK
    <3>2. sessions[pendingSession[r]] = k
      BY <2>1 DEF IInv, CommandInv, QueuesSound
    <3> QED
      BY <2>1, <3>1, <3>2
  <2>4. PICK how \in {"resolved", "failed"} : FinishPending(r, how)
    BY <1>1 DEF HandleCommandResult
  <2> QED
    BY <2>1, <2>2, <2>3, <2>4, FinishOutcome DEF Settled
<1>2. ASSUME NEW r \in Request, CommandTimeout(r) PROVE Moves
  BY <1>2, FinishOutcome DEF CommandTimeout, Settled
<1>3. ASSUME NEW s \in Sid, NEW b \in CommandSizes, DispatchCommand(s, b) PROVE Moves
  <2> DEFINE q == commandQueues[s]
             queue == Append(q, nextRequest)
  <2>1. /\ q \in Seq(Request) /\ nextRequest \in Request
        /\ \A j \in 1..Len(q) : q[j] \in pendingCommands
    BY <1>3 DEF DispatchCommand, IInv, CommandInv, QueuesSound, TypeOK
  <2>2. /\ Len(queue) = Len(q) + 1 /\ Len(q) \in Nat
        /\ \A j \in 1..Len(q) : queue[j] = q[j]
        /\ queue[Len(q) + 1] = nextRequest
    BY <2>1, AppendProperties, LenProperties
  <2>3. \A j \in 1..Len(queue) : queue[j] \in pendingCommands \cup {nextRequest}
    BY <2>1, <2>2
  <2>4. PICK refused \in 0..Len(queue) :
          outcome' = [x \in Request |-> IF x \in Refused(queue, refused) THEN "rejected"
                                        ELSE IF x = nextRequest THEN "pending"
                                        ELSE outcome[x]]
    BY <1>3 DEF DispatchCommand
  <2> HIDE DEF queue
  <2>5. Refused(queue, refused) \subseteq pendingCommands \cup {nextRequest}
    BY <2>2, <2>3 DEF Refused
  <2> QED
    BY <2>4, <2>5 DEF OutcomeMoves
<1>4. ASSUME NEW S, RemoveSessions(S) PROVE Moves
  BY <1>4, <1>c DEF RemoveSessions
<1>5. ASSUME NEW k \in Socket, NEW s \in Sid, NEW b \in RetainedSizes,
             NEW replace \in BOOLEAN, RegisterSession(k, s, b, replace)
      PROVE  Moves
  BY <1>5, <1>c DEF RegisterSession
<1>6. ASSUME Shutdown PROVE Moves
  BY <1>6, <1>b DEF Shutdown
<1> QED
  BY <1>a, <1>1, <1>2, <1>3, <1>4, <1>5, <1>6
  DEF Operation, SessionOperation, RemoveOperation, CommandOperation, UpdateSnapshot,
      MarkSessionSeen, TransportDies, TransportOpens, ClockAdvances, commandVars

(* So an operation settles a command at most once, and answers it only for *)
(* the owner of its session.                                               *)
LEMMA OperationSettles ==
    ASSUME IInv, Operation
    PROVE  /\ \A r \in Request :
                 /\ outcome[r] \in Settled => outcome'[r] = outcome[r]
                 /\ outcome'[r] \in Settled /\ outcome[r] \notin Settled
                      => r \in pendingCommands \/ r = nextRequest
           /\ \A r \in Request :
                 outcome'[r] \in {"resolved", "failed"} /\ outcome[r] \notin {"resolved", "failed"}
                   => r \in active /\ answeredBy'[r] = sessions[pendingSession[r]]
<1>1. \A r \in Request : OutcomeMoves(r)
  BY OutcomeStep
<1>2. \A r \in pendingCommands : outcome[r] = "pending"
  BY DEF IInv, TypeOK, CommandInv, CommandHistory
<1>3. nextRequest \in Request => outcome[nextRequest] = "none"
  BY DEF IInv, TypeOK, CommandInv, CommandHistory
<1>4. \A r \in Request :
        /\ outcome[r] \in Settled => outcome'[r] = outcome[r]
        /\ outcome'[r] \in Settled /\ outcome[r] \notin Settled
             => r \in pendingCommands \/ r = nextRequest
  BY <1>1, <1>2, <1>3 DEF OutcomeMoves, Settled
<1> QED
  BY <1>1, <1>4 DEF OutcomeMoves

(* A caller's promise settles exactly once, whatever order the answer, the *)
(* timer, a takeover, a disconnect and shutdown come in.                   *)
THEOREM SettlesOnce == Spec => SettledOnce
<1>1. ASSUME IInv, [Next]_vars
      PROVE  [\A r \in Request :
                /\ outcome[r] \in Settled => outcome'[r] = outcome[r]
                /\ outcome'[r] \in Settled /\ outcome[r] \notin Settled
                     => r \in pendingCommands \/ r = nextRequest]_vars
  <2>1. CASE UNCHANGED vars
    BY <2>1
  <2>2. CASE Next
    <3>1. Operation
      BY <1>1, <2>2, NextOperates DEF IInv
    <3> QED
      BY <1>1, <3>1, OperationSettles
  <2> QED
    BY <1>1, <2>1, <2>2
<1> QED
  BY <1>1, Inductive, PTL DEF Spec, SettledOnce

(* A result settles a command only if it comes from the transport that     *)
(* owns the command's session, whatever request of whichever producer a    *)
(* transport names: the owner check of handleCommandResult, and queues     *)
(* that follow the owner maps.                                             *)
THEOREM AnswersFromOwner == Spec => ResolvedByOwner
<1>1. ASSUME IInv, [Next]_vars
      PROVE  [\A r \in Request :
                outcome'[r] \in {"resolved", "failed"} /\ outcome[r] \notin {"resolved", "failed"}
                  => r \in active /\ answeredBy'[r] = sessions[pendingSession[r]]]_vars
  <2>1. CASE UNCHANGED vars
    BY <2>1
  <2>2. CASE Next
    <3>1. Operation
      BY <1>1, <2>2, NextOperates DEF IInv
    <3> QED
      BY <1>1, <3>1, OperationSettles
  <2> QED
    BY <1>1, <2>1, <2>2
<1> QED
  BY <1>1, Inductive, PTL DEF Spec, ResolvedByOwner

(* A sweep never removes a session seen since the previous sweep, for any  *)
(* TTL and any jump of the wall clock.                                     *)
THEOREM SweepsSpareTheSeen == Spec => SweepSparesTheSeen
<1>1. ASSUME TypeOK, [Next]_vars
      PROVE  [sincePrune' = 0 /\ sincePrune > 0 =>
                \A s \in Live : silence[s] < sincePrune => sessions'[s] = sessions[s]]_vars
  <2>1. CASE UNCHANGED sincePrune
    BY <2>1
  <2>2. CASE UNCHANGED vars
    BY <2>2
  <2>3. CASE PruneStaleSessions
    <3>1. \A s \in Live : silence[s] < sincePrune /\ ~WallClockJumped => s \notin Stale
      BY <1>1, ClockAssumption DEF TypeOK, WallClockJumped, Stale, Live
    <3>2. \A s \in Live : silence[s] < sincePrune
             => s \notin (IF WallClockJumped THEN {} ELSE Stale)
      BY <3>1
    <3> QED
      BY <2>3, <3>2 DEF PruneStaleSessions, RemoveSessions, Live
  <2>4. ASSUME NEW d \in ClockSteps, ClockAdvances(d), sincePrune > 0 PROVE sincePrune' # 0
    BY <1>1, <2>4, ClockAssumption DEF TypeOK, ClockAdvances, Saturate
  <2>5. CASE \E d \in ClockSteps : ClockAdvances(d)
    BY <2>4, <2>5
  <2>6. ASSUME NEW k \in Socket, ProducerSends(k) PROVE UNCHANGED sincePrune
    <3>1. ASSUME NEW s \in Sid, NEW b \in RetainedSizes, NEW replace \in BOOLEAN,
                 RegisterSession(k, s, b, replace)
          PROVE  UNCHANGED sincePrune
      BY <3>1 DEF RegisterSession
    <3>2. ASSUME NEW b \in RetainedSizes, UpdateSnapshot(k, b) PROVE UNCHANGED sincePrune
      BY <3>2 DEF UpdateSnapshot
    <3>3. ASSUME MarkSessionSeen(k) PROVE UNCHANGED sincePrune
      BY <3>3 DEF MarkSessionSeen
    <3>4. ASSUME NEW r, NEW ok \in BOOLEAN, HandleCommandResult(k, r, ok)
          PROVE  UNCHANGED sincePrune
      BY <3>4 DEF HandleCommandResult
    <3> QED
      BY <2>6, <3>1, <3>2, <3>3, <3>4 DEF ProducerSends
  <2>7. ASSUME NEW k \in Socket, UnregisterSocket(k) PROVE UNCHANGED sincePrune
    BY <2>7 DEF UnregisterSocket
  <2>8. ASSUME NEW s \in Sid, NEW b \in CommandSizes, DispatchCommand(s, b)
        PROVE  UNCHANGED sincePrune
    BY <2>8 DEF DispatchCommand
  <2>9. ASSUME NEW r \in Request, CommandTimeout(r) PROVE UNCHANGED sincePrune
    BY <2>9 DEF CommandTimeout
  <2>10. ASSUME Shutdown PROVE UNCHANGED sincePrune
    BY <2>10 DEF Shutdown
  <2>11. ASSUME NEW k \in Socket, TransportDies(k) \/ TransportOpens(k)
         PROVE  UNCHANGED sincePrune
    BY <2>11 DEF TransportDies, TransportOpens
  <2> QED
    BY <1>1, <2>1, <2>2, <2>3, <2>5, <2>6, <2>7, <2>8, <2>9, <2>10, <2>11 DEF Next
<1> QED
  BY <1>1, TypeCorrect, PTL DEF Spec, SweepSparesTheSeen

-----------------------------------------------------------------------------
(***************************************************************************)
(* BrokerState implements CommandService: whatever maps, queues, budgets   *)
(* and timers the broker core keeps, callers and producers see owners,     *)
(* queues and answers move as the service says.                            *)
(***************************************************************************)

(* The initial states map to initial states.                               *)
LEMMA ServiceInits == Init => Service!ServiceInit
BY DEF Init, Service!ServiceInit

(* The FIFO without its i-th member, as the code and the service have it.  *)
LEMMA SpliceIsWithout ==
    ASSUME NEW q \in Seq(Request), Sorted(q), NEW i \in 1..Len(q)
    PROVE  Splice(q, q[i]) = Service!Without(q, i)
<1> DEFINE c == CHOOSE j \in 1..Len(q) : q[j] = q[i]
<1>1. q \in [1..Len(q) -> Request] /\ Len(q) \in Nat
  BY LenProperties
<1>2. \A j \in 1..Len(q) : q[j] \in Int
  BY <1>1 DEF Request
<1>3. c \in 1..Len(q) /\ q[c] = q[i]
  OBVIOUS
<1>4. c = i
  BY <1>1, <1>2, <1>3 DEF Sorted
<1> QED
  BY <1>4 DEF Splice, Service!Without

(* The FIFO of a session without an owner is empty, and only the head of a *)
(* FIFO is active.                                                         *)
LEMMA QueueFacts ==
    ASSUME IInv, NEW s \in Sid
    PROVE  /\ commandQueues[s] \in Seq(Request) /\ Sorted(commandQueues[s])
           /\ Len(commandQueues[s]) \in Nat
           /\ \A i \in 1..Len(commandQueues[s]) :
                 /\ commandQueues[s][i] \in pendingCommands
                 /\ pendingSession[commandQueues[s][i]] = s
                 /\ commandQueues[s][i] \in active <=> i = 1
           /\ sessions[s] = NoSocket => commandQueues[s] = <<>>
<1>1. commandQueues[s] \in Seq(Request) /\ Sorted(commandQueues[s])
  BY DEF IInv, TypeOK, CommandInv, QueuesSound, Sorted
<1>2. Len(commandQueues[s]) \in Nat
  BY <1>1, LenProperties
<1>3. \A i \in 1..Len(commandQueues[s]) :
         /\ commandQueues[s][i] \in pendingCommands
         /\ pendingSession[commandQueues[s][i]] = s
         /\ commandQueues[s][i] \in active <=> i = 1
  BY DEF IInv, CommandInv, QueuesSound
<1>4. ASSUME sessions[s] = NoSocket PROVE commandQueues[s] = <<>>
  <2>1. ~(1 \in 1..Len(commandQueues[s]))
    BY <1>3, <1>4 DEF IInv, CommandInv, QueuesSound, Live
  <2> QED
    BY <1>1, <1>2, <2>1, EmptySeq
<1> QED
  BY <1>1, <1>2, <1>3, <1>4

(* Finishing a command is the service's Finish: those the owner refuses    *)
(* meanwhile are the ones behind it, and only if it was the first.         *)
LEMMA FinishImplements ==
    ASSUME IInv, NEW r \in pendingCommands, NEW how \in {"resolved", "failed", "timedOut"},
           FinishPending(r, how), UNCHANGED sessions,
           how # "timedOut" => r \in active
    PROVE  Service!ServiceNext
<1> DEFINE s == pendingSession[r]
           q == commandQueues[s]
           rest == Splice(q, r)
<1>1. s \in Sid /\ \E i \in 1..Len(q) : q[i] = r
  BY DEF IInv, CommandInv, QueuesSound, Live
<1>2. PICK i \in 1..Len(q) : q[i] = r
  BY <1>1
<1>3. /\ q \in Seq(Request) /\ Sorted(q) /\ Len(q) \in Nat
      /\ \A j \in 1..Len(q) : q[j] \in active <=> j = 1
  BY <1>1, QueueFacts
<1>4. /\ rest = Service!Without(q, i) /\ Len(rest) = Len(q) - 1
      /\ \A j \in 1..(Len(q) - 1) : rest[j] = IF j < i THEN q[j] ELSE q[j + 1]
  <2>1. q \in Seq(Request) /\ Sorted(q) /\ i \in 1..Len(q) /\ r = q[i]
    BY <1>2, <1>3
  <2>2. rest = Service!Without(q, i)
    BY ONLY <2>1, SpliceIsWithout
  <2>3. /\ Len(rest) = Len(q) - 1
        /\ \A j \in 1..(Len(q) - 1) : rest[j] = IF j < i THEN q[j] ELSE q[j + 1]
    BY ONLY <2>1, SpliceFacts
  <2> QED
    BY <2>2, <2>3
<1>5. PICK n \in 0..Len(rest) :
         /\ MayRefuse(s, rest, pendingSocket, n)
         /\ commandQueues' = [commandQueues EXCEPT ![s] = AfterRefusals(rest, n)]
         /\ outcome' = [x \in Request |->
                          IF x = r THEN how
                          ELSE IF x \in Refused(rest, n) \cup {r} THEN "rejected"
                          ELSE outcome[x]]
  BY DEF FinishPending
<1> HIDE DEF rest
<1>6. i > 1 => how = "timedOut" /\ n = 0
  <2>1. ASSUME i > 1 PROVE n = 0
    <3>1. 1 \in 1..(Len(q) - 1) /\ rest[1] = q[1] /\ q[1] \in active
      BY <1>2, <1>3, <1>4, <2>1
    <3>2. rest # <<>>
      BY <1>3, <1>4, <3>1, EmptySeq
    <3> QED
      BY <1>5, <3>1, <3>2 DEF MayRefuse
  <2> QED
    BY <1>2, <1>3, <2>1
<1>7. Service!Finish(s, i, how, n)
  <2>1. \A x : x \in Refused(rest, n) <=> x \in {rest[j] : j \in 1..n}
    BY DEF Refused
  <2>2. outcome' = [x \in Request |->
                      IF x = q[i] THEN how
                      ELSE IF x \in {rest[j] : j \in 1..n} THEN "rejected"
                      ELSE outcome[x]]
    BY <1>2, <1>5, <2>1
  <2> QED
    BY <1>4, <1>5, <1>6, <2>2 DEF Service!Finish, AfterRefusals
<1>8. n \in 0..Len(q)
  BY <1>3, <1>4
<1> QED
  BY <1>1, <1>2, <1>7, <1>8 DEF Service!ServiceNext

(* A dispatched command waits behind the others, or is refused at once.    *)
LEMMA DispatchImplements ==
    ASSUME IInv, NEW s \in Sid, NEW b \in CommandSizes, DispatchCommand(s, b)
    PROVE  Service!ServiceNext
<1> DEFINE r == nextRequest
           q == commandQueues[s]
           queue == Append(q, r)
<1>1. /\ q \in Seq(Request) /\ Len(q) \in Nat
      /\ \A j \in 1..Len(q) : q[j] \in active <=> j = 1
  BY QueueFacts
<1>2. /\ r \in Request /\ sessions[s] # NoSocket /\ UNCHANGED sessions
      /\ outcome[r] = "none" /\ r \notin active
  BY DEF DispatchCommand, ownerVars, IInv, CommandInv, CommandHistory, QueuesSound, TypeOK, Request
<1>3. PICK n \in 0..Len(queue) :
         /\ MayRefuse(s, queue, [pendingSocket EXCEPT ![r] = sessions[s]], n)
         /\ commandQueues' = [commandQueues EXCEPT ![s] = AfterRefusals(queue, n)]
         /\ outcome' = [x \in Request |-> IF x \in Refused(queue, n) THEN "rejected"
                                          ELSE IF x = r THEN "pending"
                                          ELSE outcome[x]]
  BY DEF DispatchCommand
<1>4. /\ queue \in Seq(Request) /\ Len(queue) = Len(q) + 1
      /\ \A j \in 1..Len(q) : queue[j] = q[j]
      /\ queue[Len(q) + 1] = r
  BY <1>1, <1>2, AppendProperties
<1> HIDE DEF queue
<1>5. CASE n = 0
  <2>1. AfterRefusals(queue, 0) = queue
    <3>1. SubSeq(queue, 1, Len(queue)) = queue
      BY <1>4, SubSeqFull
    <3> QED
      BY <3>1 DEF AfterRefusals
  <2>2. Refused(queue, 0) = {}
    BY DEF Refused
  <2>3. /\ commandQueues' = [commandQueues EXCEPT ![s] = Append(@, r)]
        /\ outcome' = [outcome EXCEPT ![r] = "pending"]
    BY <1>3, <1>5, <2>1, <2>2 DEF queue, IInv, TypeOK
  <2>4. Service!Admit(s)
    BY <1>2, <2>3 DEF Service!Admit
  <2> QED
    BY <2>4 DEF Service!ServiceNext
<1>6. CASE n # 0
  <2>1. Len(q) = 0
    <3>1. ASSUME 1 \in 1..Len(q) PROVE FALSE
      <4>1. queue # <<>> /\ queue[1] \in active
        BY <1>1, <1>4, <3>1, EmptySeq
      <4> QED
        BY <1>3, <1>6, <4>1 DEF MayRefuse
    <3> QED
      BY <1>1, <3>1
  <2>2. n = 1 /\ q = <<>>
    BY <1>1, <1>4, <1>6, <2>1, EmptySeq
  <2>3. AfterRefusals(queue, n) = <<>>
    <3>1. AfterRefusals(queue, n) \in Seq(Request) /\ Len(AfterRefusals(queue, n)) = 0
      <4>1. Sorted(queue)
        BY <1>4, <2>1 DEF Sorted
      <4>2. 1 \in 0..Len(queue) /\ Len(queue) - 1 = 0
        BY <1>4, <2>1
      <4>3. /\ AfterRefusals(queue, 1) \in Seq(Request)
            /\ Len(AfterRefusals(queue, 1)) = Len(queue) - 1
        BY <1>4, <4>1, <4>2, AdvanceFacts, Zenon
      <4> QED
        BY <2>2, <4>2, <4>3
    <3> QED
      BY <3>1, EmptySeq
  <2>4. Refused(queue, n) = {r}
    BY <1>4, <2>1, <2>2 DEF Refused
  <2>5. commandQueues' = commandQueues /\ outcome' = [outcome EXCEPT ![r] = "rejected"]
    BY <1>3, <2>2, <2>3, <2>4 DEF IInv, TypeOK
  <2>6. Service!Admit(s)
    BY <1>2, <2>2, <2>5 DEF Service!Admit
  <2> QED
    BY <2>6 DEF Service!ServiceNext
<1> QED
  BY <1>5, <1>6

(* Sessions that change hands lose their commands, and no other ones do.   *)
LEMMA ChangeImplements ==
    ASSUME IInv, IInv', NEW S, NEW R, R = {r \in pendingCommands : pendingSession[r] \in S},
           Settle(R, "rejected"),
           commandQueues' = [s \in Sid |-> IF s \in S THEN <<>> ELSE commandQueues[s]],
           \A s \in Sid : s \in S /\ sessions[s] # NoSocket => sessions'[s] # sessions[s],
           \A s \in Sid \ S : sessions[s] # NoSocket => sessions'[s] = sessions[s]
    PROVE  Service!ServiceNext
<1> DEFINE kept == {s \in Sid : sessions'[s] = sessions[s]}
<1>1. sessions' \in [Sid -> Socket \cup {NoSocket}]
  BY DEF IInv, TypeOK
<1>2. \A s, t \in Sid : sessions'[s] = sessions'[t] /\ sessions'[s] # NoSocket => s = t
  BY DEF IInv, OwnersAgree
<1>3. commandQueues' = [s \in Sid |-> IF s \in kept THEN commandQueues[s] ELSE <<>>]
  <2>1. ASSUME NEW s \in Sid
        PROVE  (IF s \in S THEN <<>> ELSE commandQueues[s])
                 = IF s \in kept THEN commandQueues[s] ELSE <<>>
    <3>1. sessions[s] = NoSocket => commandQueues[s] = <<>>
      BY QueueFacts
    <3> QED
      BY <3>1
  <2> QED
    BY <2>1
<1>4. ASSUME NEW r \in Request
      PROVE  r \in R <=> \E s \in Sid \ kept : \E i \in 1..Len(commandQueues[s]) :
                            commandQueues[s][i] = r
  <2>1. ASSUME r \in R
        PROVE  \E s \in Sid \ kept : \E i \in 1..Len(commandQueues[s]) : commandQueues[s][i] = r
    <3>1. /\ pendingSession[r] \in S /\ pendingSession[r] \in Sid
          /\ sessions[pendingSession[r]] # NoSocket
          /\ \E i \in 1..Len(commandQueues[pendingSession[r]]) :
                commandQueues[pendingSession[r]][i] = r
      BY <2>1 DEF IInv, CommandInv, QueuesSound, Live
    <3> QED
      BY <3>1
  <2>2. ASSUME NEW s \in Sid \ kept, NEW i \in 1..Len(commandQueues[s]), commandQueues[s][i] = r
        PROVE  r \in R
    <3>1. r \in pendingCommands /\ pendingSession[r] = s
      BY <2>2, QueueFacts
    <3>2. sessions[s] # NoSocket
      BY <3>1 DEF IInv, CommandInv, QueuesSound, Live
    <3> QED
      BY <3>1, <3>2
  <2> QED
    BY <2>1, <2>2
<1>5. outcome' = [r \in Request |->
                    IF \E s \in Sid \ kept : \E i \in 1..Len(commandQueues[s]) :
                          commandQueues[s][i] = r
                    THEN "rejected" ELSE outcome[r]]
  BY <1>4 DEF Settle
<1>6. Service!ChangeHands
  BY <1>1, <1>2, <1>3, <1>5 DEF Service!ChangeHands
<1> QED
  BY <1>6 DEF Service!ServiceNext

(* Every operation on the broker state, whoever takes it, is a step of the *)
(* service, or changes nothing a caller or a producer can see.             *)
LEMMA OperationServes ==
    ASSUME IInv, IInv', Operation
    PROVE  Service!ServiceNext \/ UNCHANGED Service!serviceVars
<1>a. ASSUME UNCHANGED <<sessions, commandQueues, outcome>>
      PROVE  UNCHANGED Service!serviceVars
  BY <1>a DEF Service!serviceVars
<1>b. ASSUME NEW S, RejectPendingCommandsForSessions(S),
             \A s \in Sid : s \in S /\ sessions[s] # NoSocket => sessions'[s] # sessions[s],
             \A s \in Sid \ S : sessions[s] # NoSocket => sessions'[s] = sessions[s]
      PROVE  Service!ServiceNext
  <2> DEFINE R == {r \in pendingCommands : pendingSession[r] \in S}
  <2>1. Settle(R, "rejected") /\ R = {r \in pendingCommands : pendingSession[r] \in S}
    BY <1>b DEF RejectPendingCommandsForSessions
  <2> HIDE DEF R
  <2> QED
    BY <1>b, <2>1, ChangeImplements DEF RejectPendingCommandsForSessions
<1>1. ASSUME NEW k \in Socket, NEW s \in Sid, NEW b \in RetainedSizes,
             NEW replace \in BOOLEAN, RegisterSession(k, s, b, replace)
      PROVE  Service!ServiceNext
  <2>1. sessions' = [x \in Sid |-> IF x = s THEN k
                                   ELSE IF x \in Renamed(k, s) THEN NoSocket ELSE sessions[x]]
    BY <1>1 DEF RegisterSession
  <2>2. ASSUME NEW x \in Sid, x \in Interrupted(k, s), sessions[x] # NoSocket
        PROVE  sessions'[x] # sessions[x]
    BY <2>1, <2>2, IdentityAssumption DEF Interrupted, Renamed, TakesOver
  <2>3. ASSUME NEW x \in Sid \ Interrupted(k, s), sessions[x] # NoSocket
        PROVE  sessions'[x] = sessions[x]
    BY <2>1, <2>3 DEF Interrupted, TakesOver
  <2>4. RejectPendingCommandsForSessions(Interrupted(k, s))
    BY <1>1 DEF RegisterSession
  <2> QED
    BY <1>b, <2>2, <2>3, <2>4
<1>2. ASSUME NEW S \in SUBSET Live, RemoveSessions(S)
      PROVE  Service!ServiceNext
  BY <1>2, <1>b DEF RemoveSessions, Live
<1>3. ASSUME Shutdown
      PROVE  Service!ServiceNext
  <2>1. pendingCommands = {r \in pendingCommands : pendingSession[r] \in Sid}
    BY DEF IInv, CommandInv, QueuesSound, Live
  <2>2. /\ Settle(pendingCommands, "rejected")
        /\ commandQueues' = [s \in Sid |-> IF s \in Sid THEN <<>> ELSE commandQueues[s]]
        /\ \A s \in Sid : sessions'[s] = NoSocket
    BY <1>3 DEF Shutdown
  <2>3. \A s \in Sid : s \in Sid /\ sessions[s] # NoSocket => sessions'[s] # sessions[s]
    BY <2>2
  <2>4. \A s \in Sid \ Sid : sessions[s] # NoSocket => sessions'[s] = sessions[s]
    OBVIOUS
  <2> QED
    BY <2>1, <2>2, <2>3, <2>4, ChangeImplements
<1>4. ASSUME NEW k \in Socket, NEW r \in Disclosed, NEW ok \in BOOLEAN,
             HandleCommandResult(k, r, ok)
      PROVE  Service!ServiceNext
  <2>1. r \in pendingCommands /\ r \in Request /\ UNCHANGED sessions
    BY <1>4 DEF HandleCommandResult, IInv, TypeOK, ownerVars
  <2>2. r \in active
    BY <2>1 DEF IInv, CommandInv, CommandHistory
  <2>3. PICK how \in {"resolved", "failed"} : FinishPending(r, how)
    BY <1>4 DEF HandleCommandResult
  <2> QED
    BY <2>1, <2>2, <2>3, FinishImplements
<1>5. ASSUME NEW r \in Request, CommandTimeout(r)
      PROVE  Service!ServiceNext
  BY <1>5, FinishImplements DEF CommandTimeout, ownerVars
<1>6. ASSUME NEW k \in Socket, TransportDies(k) \/ TransportOpens(k)
      PROVE  UNCHANGED <<sessions, commandQueues, outcome>>
  BY <1>6 DEF TransportDies, TransportOpens, ownerVars, commandVars
<1>7. ASSUME NEW d \in ClockSteps, ClockAdvances(d)
      PROVE  UNCHANGED <<sessions, commandQueues, outcome>>
  BY <1>7 DEF ClockAdvances, ownerVars, commandVars
<1>8. CASE SessionOperation
  BY <1>8, <1>1, <1>a DEF SessionOperation, UpdateSnapshot, MarkSessionSeen, ownerVars, commandVars
<1>9. CASE RemoveOperation
  BY <1>9, <1>2 DEF RemoveOperation
<1>10. CASE CommandOperation
  BY <1>10, <1>4, <1>5, DispatchImplements DEF CommandOperation
<1> QED
  BY <1>a, <1>3, <1>6, <1>7, <1>8, <1>9, <1>10 DEF Operation

(* So is every step of the broker core.                                    *)
LEMMA ServiceSteps == IInv /\ IInv' /\ [Next]_vars => [Service!ServiceNext]_(Service!serviceVars)
<1> SUFFICES ASSUME IInv, IInv', [Next]_vars
             PROVE  Service!ServiceNext \/ UNCHANGED Service!serviceVars
  OBVIOUS
<1>1. CASE Next
  BY <1>1, NextOperates, OperationServes DEF IInv
<1>2. CASE UNCHANGED vars
  BY <1>2 DEF vars, ownerVars, commandVars, Service!serviceVars
<1> QED
  BY <1>1, <1>2

(* The broker core implements its service, for every number of sessions,   *)
(* sockets and commands and every limit.                                   *)
THEOREM ImplementsTheService == Spec => ImplementsService
<1>1. Spec => []IInv
  BY Inductive
<1> QED
  BY <1>1, ServiceInits, ServiceSteps, PTL DEF Spec, ImplementsService, Service!ServiceSpec
=============================================================================

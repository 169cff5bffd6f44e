----------------------------- MODULE ClientProofs -----------------------------
(***************************************************************************)
(* Proofs about the four clients, which share no state: the producer       *)
(* connection with its sockets, timers and publication (SocketsSound) and  *)
(* its command queue (CommandsSound), the window's broker client and its   *)
(* refusals (WindowSound), the highlight worker's client and cache         *)
(* (HighlightSound), and the signing caller, whose recovery is shared      *)
(* (RecoveryShared) and whose session only advances (SessionAdvances).     *)
(***************************************************************************)
EXTENDS BrokerConnection, ProducerClient, CallerClient, HighlightWorker, DataLemmas

-----------------------------------------------------------------------------
(***************************************************************************)
(* The producer connection.                                                *)
(***************************************************************************)
-----------------------------------------------------------------------------
(* The inductive invariant.                                                 *)

(* What the connection's own variables hold.                                *)
SocketTypeOK ==
    /\ status \in [Generation -> {"connecting", "active", "closing", "close-failed", "closed"}]
    /\ link \in [Generation -> {"connecting", "open", "closing", "closed"}]
    /\ hello \in [Generation -> {"none", "requested", "answering", "proved", "verifying"}]
    /\ current \in Generation \cup {NoGeneration}
    /\ reconnectTimer \in Generation \cup {NoGeneration}
    /\ retrying \in Generation \cup {NoGeneration}
    /\ heartbeatTimer \in Generation \cup {NoGeneration}
    /\ preparing \subseteq Generation
    /\ handshakeTimers \subseteq Generation
    /\ socketHeld \in BOOLEAN /\ constructing \in BOOLEAN /\ stopped \in BOOLEAN
    /\ bridge \in BOOLEAN /\ missed \in BOOLEAN /\ refused \in BOOLEAN
    /\ fresh \in [Generation -> BOOLEAN]

(* A socket that is held is the current generation's, none is made while    *)
(* one is held, and the timers are those of the socket that is held.        *)
TimersOwned ==
    /\ socketHeld => current # NoGeneration
    /\ constructing => ~socketHeld
    /\ ~socketHeld => heartbeatTimer = NoGeneration /\ handshakeTimers = {}
    /\ heartbeatTimer \in {NoGeneration, current}
    /\ handshakeTimers \subseteq {current}

(* What NeverStranded hides: a reconnect that constructs is the current     *)
(* generation's own, so that it is scheduled again if the factory throws.   *)
RetryPending ==
    current # NoGeneration /\ ~stopped /\ ~socketHeld =>
        \/ refused \/ reconnectTimer = current \/ current \in preparing
        \/ constructing /\ retrying = current

(* A connection that was stopped has no timer.                              *)
TimersSilent ==
    stopped => /\ reconnectTimer = NoGeneration /\ heartbeatTimer = NoGeneration
               /\ handshakeTimers = {}

(* A generation is activated on a socket that has opened: one that opens    *)
(* later does not become active by opening.                                 *)
OpenBeforeActive ==
    \A g \in Generation : status[g] = "active" => link[g] # "connecting"

(* What is said of sockets, timers and generations.                         *)
SocketPart ==
    /\ SocketTypeOK /\ TimersOwned /\ RetryPending /\ TimersSilent /\ OpenBeforeActive
    /\ NoOrphanSocket /\ HeartbeatRuns /\ PublishedIsCurrent

(* A queue q and the commands x at the bridge, with the budgets n and b:    *)
(* the queue is the generation cur's, no command is there twice, and the    *)
(* budgets are exact and within their limits.                               *)
Accounted(q, x, n, b, cur) ==
    /\ q \in Seq(Entry)
    /\ x \subseteq Entry
    /\ \A e, f \in x : e = f
    /\ \A i \in 1..Len(q) : q[i].generation = cur
    /\ \A i, j \in 1..Len(q) : q[i].command = q[j].command => i = j
    /\ \A i \in 1..Len(q), e \in x : q[i].command # e.command
    /\ n = Len(q) + Cardinality(x)
    /\ b = Bytes(ToSet(q) \cup x)
    /\ n <= maxPreBridgeCommands
    /\ b <= maxQueuedCommandBytes

(* The queue before the bridge: a command runs exactly while the queue      *)
(* drains, and a lost socket leaves nothing behind.                         *)
QueuePart ==
    /\ Accounted(queuedMessages, executingMessages, countUsed, bytesUsed, current)
    /\ draining \in BOOLEAN
    /\ draining <=> executingMessages # {}
    /\ ~socketHeld \/ stopped => queuedMessages = <<>>

(* Every command that waits or runs is one its daemon connection asked for. *)
AnswerPart ==
    /\ awaiting \in [Generation -> SUBSET Command]
    /\ stray = FALSE
    /\ \A e \in ToSet(queuedMessages) : e.command \in awaiting[e.generation]
    /\ \A e \in executingMessages :
          link[e.generation] = "closed" \/ e.command \in awaiting[e.generation]

(* The inductive invariant.                                                 *)
ConnectionIInv == SocketPart /\ QueuePart /\ AnswerPart

(* The factory, the reconnects and the prepareReconnect promises.          *)
LEMMA ConnectingKeepsSockets ==
    ASSUME SocketPart, executingMessages \subseteq Entry,
           \/ Start \/ ConnectThrows \/ ReconnectFires
           \/ \E g \in Generation : ConnectReturns(g) \/ PrepareResolves(g) \/ PrepareRejects(g)
    PROVE  SocketPart'
<1> USE GenerationAssumption
    DEF SocketPart, SocketTypeOK, TimersOwned, RetryPending, TimersSilent, OpenBeforeActive,
        NoOrphanSocket, HeartbeatRuns, PublishedIsCurrent,
        IsGenerationActive, IsGenerationCurrent, Settled, socketVars, connectVars, timerVars, sessionVars, Entry
<1>1. ASSUME Start
      PROVE  SocketPart'
  BY <1>1 DEF Start
<1>2. ASSUME NEW g \in Generation, ConnectReturns(g)
      PROVE  SocketPart'
  <2>1. SocketTypeOK'
    BY <1>2 DEF ConnectReturns, Unused
  <2>2. TimersOwned'
    BY <1>2 DEF ConnectReturns, Unused
  <2>3. RetryPending'
    BY <1>2 DEF ConnectReturns, Unused
  <2>4. TimersSilent'
    BY <1>2 DEF ConnectReturns, Unused
  <2>5. OpenBeforeActive'
    BY <1>2 DEF ConnectReturns, Unused
  <2>6. NoOrphanSocket'
    BY <1>2 DEF ConnectReturns, Unused
  <2>7. HeartbeatRuns'
    BY <1>2 DEF ConnectReturns, Unused
  <2>8. PublishedIsCurrent'
    BY <1>2 DEF ConnectReturns, Unused
  <2> QED
    BY <2>1, <2>2, <2>3, <2>4, <2>5, <2>6, <2>7, <2>8
<1>3. ASSUME ConnectThrows
      PROVE  SocketPart'
  BY <1>3 DEF ConnectThrows, ScheduleReconnect
<1>4. ASSUME ReconnectFires
      PROVE  SocketPart'
  BY <1>4 DEF ReconnectFires
<1>5. ASSUME NEW g \in Generation, PrepareResolves(g)
      PROVE  SocketPart'
  BY <1>5 DEF PrepareResolves
<1>6. ASSUME NEW g \in Generation, PrepareRejects(g)
      PROVE  SocketPart'
  BY <1>6 DEF PrepareRejects, ScheduleReconnect
<1> HIDE DEF SocketPart
<1> QED
  BY <1>1, <1>2, <1>3, <1>4, <1>5, <1>6, Zenon

(* The steps from an open socket to an active generation.                  *)
LEMMA HelloKeepsSockets ==
    ASSUME SocketPart, executingMessages \subseteq Entry,
           \E g \in Generation :
              \/ SocketOpens(g) \/ HelloMessage(g) \/ ChallengeAnswered(g) \/ AckVerified(g)
              \/ HelloFails(g) \/ GenerationCloses(g)
    PROVE  SocketPart'
<1> USE GenerationAssumption
    DEF SocketPart, SocketTypeOK, TimersOwned, RetryPending, TimersSilent, OpenBeforeActive,
        NoOrphanSocket, HeartbeatRuns, PublishedIsCurrent,
        IsGenerationActive, IsGenerationCurrent, Settled, socketVars, connectVars, timerVars, sessionVars, Entry
<1>1. ASSUME NEW g \in Generation, SocketOpens(g)
      PROVE  SocketPart'
  <2>1. CASE IsGenerationCurrent(g) /\ status[g] = "connecting" /\ ~Authentication
    <3>1. SocketTypeOK' /\ TimersOwned' /\ RetryPending' /\ TimersSilent'
          /\ OpenBeforeActive' /\ NoOrphanSocket'
      BY <1>1, <2>1 DEF SocketOpens, Activate
    <3>2. HeartbeatRuns'
      BY <1>1, <2>1 DEF SocketOpens, Activate
    <3>3. PublishedIsCurrent'
      BY <1>1, <2>1 DEF SocketOpens, Activate
    <3> QED
      BY <3>1, <3>2, <3>3
  <2>2. CASE ~(IsGenerationCurrent(g) /\ status[g] = "connecting" /\ ~Authentication)
    BY <1>1, <2>2 DEF SocketOpens
  <2> QED
    BY <2>1, <2>2
<1>2. ASSUME NEW g \in Generation, HelloMessage(g)
      PROVE  SocketPart'
  BY <1>2 DEF HelloMessage
<1>3. ASSUME NEW g \in Generation, ChallengeAnswered(g)
      PROVE  SocketPart'
  BY <1>3 DEF ChallengeAnswered
<1>4. ASSUME NEW g \in Generation, AckVerified(g)
      PROVE  SocketPart'
  BY <1>4 DEF AckVerified, Activate, StillAuthenticates, CanAuthenticate
<1>5. ASSUME NEW g \in Generation, HelloFails(g)
      PROVE  SocketPart'
  BY <1>5 DEF HelloFails, CanAuthenticate, CloseGeneration, Hangup
<1>6. ASSUME NEW g \in Generation, GenerationCloses(g)
      PROVE  SocketPart'
  BY <1>6 DEF GenerationCloses, CloseGeneration, Hangup
<1> HIDE DEF SocketPart
<1> QED
  BY <1>1, <1>2, <1>3, <1>4, <1>5, <1>6, Zenon

(* Commands, their answers and the published session.                      *)
LEMMA CommandsKeepSockets ==
    ASSUME SocketPart, executingMessages \subseteq Entry,
           \/ \E g \in Generation, c \in Command, size \in CommandSizes :
                 CommandArrives(g, c, size) \/ CommandRejected(g, c, size)
           \/ \E e \in executingMessages : BridgeSettles(e)
           \/ \E b \in BOOLEAN : SetBridge(b)
           \/ SessionChanges \/ SnapshotThrows
    PROVE  SocketPart'
<1> USE GenerationAssumption
    DEF SocketPart, SocketTypeOK, TimersOwned, RetryPending, TimersSilent, OpenBeforeActive,
        NoOrphanSocket, HeartbeatRuns, PublishedIsCurrent,
        IsGenerationActive, IsGenerationCurrent, Settled, socketVars, connectVars, timerVars, sessionVars, Entry
<1>1. ASSUME NEW g \in Generation, NEW c \in Command, NEW size \in CommandSizes,
             CommandArrives(g, c, size)
      PROVE  SocketPart'
  BY <1>1 DEF CommandArrives
<1>2. ASSUME NEW g \in Generation, NEW c \in Command, NEW size \in CommandSizes,
             CommandRejected(g, c, size)
      PROVE  SocketPart'
  BY <1>2 DEF CommandRejected, CloseGeneration, Hangup
<1>3. ASSUME NEW e \in executingMessages, BridgeSettles(e)
      PROVE  SocketPart'
  <2>1. /\ UNCHANGED <<status, link>> \/ CloseGeneration(e.generation)
        /\ UNCHANGED <<hello, current, socketHeld, connectVars, timerVars, stopped, bridge,
                       sessionVars>>
    BY <1>3 DEF BridgeSettles, AnswersThrough
  <2>2. CASE UNCHANGED <<status, link>>
    BY <2>1, <2>2
  <2>3. CASE CloseGeneration(e.generation)
    BY <2>1, <2>3 DEF CloseGeneration, Hangup
  <2> QED
    BY <2>1, <2>2, <2>3
<1>4. ASSUME NEW b \in BOOLEAN, SetBridge(b)
      PROVE  SocketPart'
  BY <1>4 DEF SetBridge
<1>5. ASSUME SessionChanges
      PROVE  SocketPart'
  BY <1>5 DEF SessionChanges
<1>6. ASSUME SnapshotThrows
      PROVE  SocketPart'
  BY <1>6 DEF SnapshotThrows
<1> HIDE DEF SocketPart
<1> QED
  BY <1>1, <1>2, <1>3, <1>4, <1>5, <1>6, Zenon

(* Every way a socket, or the connection, ends.                            *)
LEMMA ClosingKeepsSockets ==
    ASSUME SocketPart, executingMessages \subseteq Entry,
           \/ \E g \in Generation : SocketClosed(g) \/ RemoteCloses(g)
           \/ Stop \/ LifecycleDefect
           \/ \E e \in executingMessages : AnswerDefect(e)
    PROVE  SocketPart'
<1> USE GenerationAssumption
    DEF SocketPart, SocketTypeOK, TimersOwned, RetryPending, TimersSilent, OpenBeforeActive,
        NoOrphanSocket, HeartbeatRuns, PublishedIsCurrent,
        IsGenerationActive, IsGenerationCurrent, Settled, socketVars, connectVars, timerVars, sessionVars, Entry
<1>1. ASSUME NEW g \in Generation, SocketClosed(g)
      PROVE  SocketPart'
  <2>1. SocketTypeOK'
    BY <1>1 DEF SocketClosed, StopHeartbeat, ScheduleReconnect
  <2>2. TimersOwned'
    BY <1>1 DEF SocketClosed, StopHeartbeat, ScheduleReconnect
  <2>3. RetryPending'
    BY <1>1 DEF SocketClosed, StopHeartbeat, ScheduleReconnect
  <2>4. TimersSilent'
    BY <1>1 DEF SocketClosed, StopHeartbeat, ScheduleReconnect
  <2>5. OpenBeforeActive'
    BY <1>1 DEF SocketClosed, StopHeartbeat, ScheduleReconnect
  <2>6. NoOrphanSocket'
    BY <1>1 DEF SocketClosed, StopHeartbeat, ScheduleReconnect
  <2>7. HeartbeatRuns'
    BY <1>1 DEF SocketClosed, StopHeartbeat, ScheduleReconnect
  <2>8. PublishedIsCurrent'
    BY <1>1 DEF SocketClosed, StopHeartbeat, ScheduleReconnect
  <2> QED
    BY <2>1, <2>2, <2>3, <2>4, <2>5, <2>6, <2>7, <2>8
<1>2. ASSUME Stop
      PROVE  SocketPart'
  BY <1>2 DEF Stop, Hangup
<1>3. ASSUME LifecycleDefect
      PROVE  SocketPart'
  BY <1>3 DEF LifecycleDefect, Hangup
<1>4. ASSUME NEW e \in executingMessages, AnswerDefect(e)
      PROVE  SocketPart'
  BY <1>4 DEF AnswerDefect, Hangup
<1>5. ASSUME NEW g \in Generation, RemoteCloses(g)
      PROVE  SocketPart'
  BY <1>5 DEF RemoteCloses
<1> HIDE DEF SocketPart
<1> QED
  BY <1>1, <1>2, <1>3, <1>4, <1>5, Zenon


-----------------------------------------------------------------------------
(* Facts about the queue.                                                   *)

(* A queue has finitely many members, the values at its places.             *)
LEMMA QueueSet ==
    ASSUME NEW T, NEW q \in Seq(T)
    PROVE  /\ ToSet(q) = {q[i] : i \in 1..Len(q)}
           /\ ToSet(q) \subseteq T
           /\ IsFiniteSet(ToSet(q))
<1>1. Len(q) \in Nat /\ q \in [1..Len(q) -> T] /\ DOMAIN q = 1..Len(q)
  BY LenProperties
<1>2. ToSet(q) = {q[i] : i \in 1..Len(q)}
  BY <1>1 DEF ToSet
<1>3. q \in Surjection(1..Len(q), ToSet(q))
  BY <1>1, <1>2 DEF Surjection
<1>4. IsFiniteSet(1..Len(q))
  BY <1>1, FS_Interval
<1>5. IsFiniteSet(ToSet(q))
  BY <1>3, <1>4, FS_Surjection
<1> QED
  BY <1>1, <1>2, <1>5

(* The bytes of disjoint sets of entries add up.                            *)
LEMMA BytesUnion ==
    ASSUME NEW S \in SUBSET Entry, NEW T \in SUBSET Entry, IsFiniteSet(S), IsFiniteSet(T),
           S \cap T = {}
    PROVE  /\ Bytes(S) \in Nat /\ Bytes(T) \in Nat
           /\ Bytes(S \cup T) = Bytes(S) + Bytes(T)
<1> DEFINE sizes == [e \in Entry |-> e.size]
<1>1. \A e \in Entry : sizes[e] = e.size /\ sizes[e] \in Nat
  BY CommandAssumption DEF Entry
<1> HIDE DEF sizes
<1>2. ASSUME NEW U \in SUBSET Entry
      PROVE  Bytes(U) = Reserved(sizes, U)
  <2>1. \A e \in U : [f \in U |-> f.size][e] = sizes[e]
    BY <1>1
  <2> QED
    BY <2>1, ReservedSame DEF Bytes
<1>3. Reserved(sizes, S) \in Nat /\ Reserved(sizes, T) \in Nat
  BY <1>1, ReservedType
<1>4. Reserved(sizes, S \cup T) = Reserved(sizes, S) + Reserved(sizes, T)
  BY <1>1, ReservedUnion
<1> QED
  BY <1>2, <1>3, <1>4

(* One entry has reserved its size.                                         *)
LEMMA BytesOne ==
    ASSUME NEW e \in Entry
    PROVE  Bytes({e}) = e.size /\ e.size \in Nat
<1>1. e.size \in Nat
  BY CommandAssumption DEF Entry
<1> DEFINE f == [x \in {e} |-> x.size]
<1>2. f[e] = e.size
  OBVIOUS
<1> HIDE DEF f
<1>3. Reserved(f, {e}) = e.size
  BY <1>1, <1>2, ReservedOne
<1> QED
  BY <1>1, <1>3 DEF Bytes, f

(* A queue of one generation: its commands are all the generation's own,    *)
(* and none is another's.                                                   *)
LEMMA OwnQueue ==
    ASSUME NEW cur, NEW q \in Seq(Entry), \A i \in 1..Len(q) : q[i].generation = cur
    PROVE  /\ Of(cur, q) = q /\ Others(cur, q) = <<>>
           /\ \A g : g # cur => Of(g, q) = <<>> /\ Others(g, q) = q
           /\ q # <<>> => First(cur, q) = 1 /\ 1 \in 1..Len(q)
<1>1. Len(q) \in Nat /\ \A i \in 1..Len(q) : q[i] \in Entry
  BY LenProperties
<1>2. Of(cur, q) = q /\ Others(cur, q) = <<>>
  BY <1>1, FilteredAll, FilteredNone DEF Of, Others
<1>3. ASSUME NEW g, g # cur
      PROVE  Of(g, q) = <<>> /\ Others(g, q) = q
  BY <1>1, <1>3, FilteredAll, FilteredNone DEF Of, Others
<1>4. ASSUME q # <<>>
      PROVE  First(cur, q) = 1 /\ 1 \in 1..Len(q)
  <2>1. 1 \in 1..Len(q)
    BY <1>1, <1>4, EmptySeq
  <2>2. First(cur, q) = Min(1..Len(q))
    <3>1. {i \in 1..Len(q) : q[i].generation = cur} = 1..Len(q)
      OBVIOUS
    <3> QED
      BY <3>1 DEF First
  <2>3. \A x \in 1..Len(q) : (\A y \in 1..Len(q) : x =< y) <=> x = 1
    BY <1>1, <2>1
  <2>4. Min(1..Len(q)) = 1
    BY <2>1, <2>3 DEF Min
  <2> QED
    BY <2>1, <2>2, <2>4
<1> QED
  BY <1>2, <1>3, <1>4

(* What is left when the first command is taken.                            *)
LEMMA Dequeued ==
    ASSUME NEW q \in Seq(Entry), 1 \in 1..Len(q)
    PROVE  /\ RemoveAt(q, 1) \in Seq(Entry)
           /\ Len(RemoveAt(q, 1)) = Len(q) - 1
           /\ \A i \in 1..(Len(q) - 1) : RemoveAt(q, 1)[i] = q[i + 1]
<1>1. Len(q) \in Nat /\ \A i \in 1..Len(q) : q[i] \in Entry
  BY LenProperties
<1>2. SubSeq(q, 1, 0) = <<>>
  BY SubSeqEmpty
<1>3. /\ SubSeq(q, 2, Len(q)) \in Seq(Entry)
      /\ Len(SubSeq(q, 2, Len(q))) = Len(q) - 1
      /\ \A i \in 1..(Len(q) - 1) : SubSeq(q, 2, Len(q))[i] = q[i + 1]
  <2>1. \A i \in 2..Len(q) : q[i] \in Entry
    BY <1>1
  <2>2. /\ SubSeq(q, 2, Len(q)) \in Seq(Entry)
        /\ Len(SubSeq(q, 2, Len(q))) = IF 2 <= Len(q) THEN Len(q) - 2 + 1 ELSE 0
        /\ \A i \in 1..(Len(q) - 2 + 1) : SubSeq(q, 2, Len(q))[i] = q[2 + i - 1]
    BY <1>1, <2>1, SubSeqProperties
  <2>3. Len(q) - 2 + 1 = Len(q) - 1 /\ \A i \in Int : 2 + i - 1 = i + 1
    BY <1>1
  <2> QED
    BY <1>1, <2>2, <2>3
<1>4. RemoveAt(q, 1) = <<>> \o SubSeq(q, 2, Len(q))
  BY <1>2 DEF RemoveAt
<1>5. RemoveAt(q, 1) = SubSeq(q, 2, Len(q))
  BY <1>3, <1>4, ConcatEmptySeq
<1> QED
  BY <1>3, <1>5

(* Appending adds one member.                                               *)
LEMMA AppendSet ==
    ASSUME NEW T, NEW q \in Seq(T), NEW e \in T
    PROVE  ToSet(Append(q, e)) = ToSet(q) \cup {e}
<1> DEFINE r == Append(q, e)
<1>1. /\ Len(q) \in Nat /\ r \in Seq(T) /\ Len(r) = Len(q) + 1
      /\ \A i \in 1..Len(q) : r[i] = q[i]
      /\ r[Len(q) + 1] = e
  BY AppendProperties, LenProperties
<1> HIDE DEF r
<1>2. /\ ToSet(q) = {q[i] : i \in 1..Len(q)}
      /\ ToSet(r) = {r[i] : i \in 1..Len(r)}
  BY <1>1, QueueSet
<1>3. /\ \A i \in 1..Len(r) : i = Len(q) + 1 \/ i \in 1..Len(q)
      /\ Len(q) + 1 \in 1..Len(r) /\ \A i \in 1..Len(q) : i \in 1..Len(r)
  BY <1>1
<1>4. ToSet(r) = ToSet(q) \cup {e}
  BY <1>1, <1>2, <1>3
<1> QED
  BY <1>4 DEF r

(* The empty queue has no members.                                          *)
LEMMA NoQueue ==
    ToSet(<<>>) = {}
<1>1. <<>> \in Seq({}) /\ Len(<<>>) = 0 /\ \A i : i \notin 1..0
  BY EmptySeq
<1>2. DOMAIN <<>> = {}
  BY <1>1, LenProperties
<1> QED
  BY <1>2 DEF ToSet

(* At most one command at the bridge, finitely many altogether, and those   *)
(* that wait are not at the bridge.                                         *)
LEMMA AccountedSets ==
    ASSUME NEW q, NEW x, NEW n, NEW b, NEW cur, Accounted(q, x, n, b, cur)
    PROVE  /\ Len(q) \in Nat /\ ToSet(q) \subseteq Entry /\ IsFiniteSet(ToSet(q))
           /\ IsFiniteSet(x) /\ Cardinality(x) \in Nat
           /\ x = {} \/ \E e \in Entry : x = {e} /\ Cardinality(x) = 1
           /\ ToSet(q) \cap x = {}
           /\ Bytes(ToSet(q)) \in Nat /\ Bytes(x) \in Nat
           /\ b = Bytes(ToSet(q)) + Bytes(x)
<1>1. /\ Len(q) \in Nat /\ ToSet(q) = {q[i] : i \in 1..Len(q)}
      /\ ToSet(q) \subseteq Entry /\ IsFiniteSet(ToSet(q))
  BY QueueSet, LenProperties DEF Accounted
<1>2. x = {} \/ \E e \in Entry : x = {e}
  BY DEF Accounted
<1>3. /\ IsFiniteSet(x) /\ Cardinality(x) \in Nat
      /\ x = {} \/ \E e \in Entry : x = {e} /\ Cardinality(x) = 1
  <2>1. CASE x = {}
    BY <2>1, FS_EmptySet
  <2>2. ASSUME NEW e \in Entry, x = {e}
        PROVE  IsFiniteSet(x) /\ Cardinality(x) = 1
    BY <2>2, FS_Singleton
  <2> QED
    BY <1>2, <2>1, <2>2
<1>4. ToSet(q) \cap x = {}
  BY <1>1 DEF Accounted
<1>5. /\ Bytes(ToSet(q)) \in Nat /\ Bytes(x) \in Nat
      /\ Bytes(ToSet(q) \cup x) = Bytes(ToSet(q)) + Bytes(x)
  BY <1>1, <1>2, <1>3, <1>4, BytesUnion
<1> QED
  BY <1>1, <1>3, <1>4, <1>5 DEF Accounted

(* The first command moves to a free bridge with its share of the budgets.  *)
LEMMA ToBridge ==
    ASSUME NEW q, NEW n, NEW b, NEW cur, Accounted(q, {}, n, b, cur), 1 \in 1..Len(q)
    PROVE  Accounted(RemoveAt(q, 1), {q[1]}, n, b, cur)
<1> DEFINE r == RemoveAt(q, 1)
<1>1. /\ Len(q) \in Nat /\ q \in Seq(Entry) /\ q[1] \in Entry
      /\ \A i \in 1..Len(q) : q[i].generation = cur
      /\ \A i, j \in 1..Len(q) : q[i].command = q[j].command => i = j
      /\ n = Len(q) + Cardinality({}) /\ b = Bytes(ToSet(q) \cup {})
      /\ n <= maxPreBridgeCommands /\ b <= maxQueuedCommandBytes
  BY LenProperties DEF Accounted
<1>2. /\ r \in Seq(Entry) /\ Len(r) = Len(q) - 1
      /\ \A i \in 1..Len(r) : r[i] = q[i + 1] /\ i + 1 \in 1..Len(q)
  BY <1>1, Dequeued
<1> HIDE DEF r
<1>3. ASSUME NEW i \in 1..Len(r)
      PROVE  r[i].generation = cur /\ r[i].command # q[1].command
  <2>1. r[i] = q[i + 1] /\ i + 1 \in 1..Len(q) /\ i + 1 # 1
    BY <1>2
  <2> QED
    BY <1>1, <2>1
<1>4. ASSUME NEW i \in 1..Len(r), NEW j \in 1..Len(r), r[i].command = r[j].command
      PROVE  i = j
  <2>1. r[i] = q[i + 1] /\ i + 1 \in 1..Len(q) /\ r[j] = q[j + 1] /\ j + 1 \in 1..Len(q)
    BY <1>2
  <2>2. i + 1 = j + 1
    BY <1>1, <1>4, <2>1
  <2> QED
    BY <2>2
<1>5. n = Len(r) + Cardinality({q[1]})
  <2>1. Cardinality({}) = 0 /\ Cardinality({q[1]}) = 1
    BY FS_EmptySet, FS_Singleton
  <2> QED
    BY <1>1, <1>2, <2>1
<1>6. ToSet(r) \cup {q[1]} = ToSet(q) \cup {}
  <2>1. ToSet(q) = {q[i] : i \in 1..Len(q)} /\ ToSet(r) = {r[i] : i \in 1..Len(r)}
    BY <1>1, <1>2, QueueSet
  <2>2. ASSUME NEW i \in 1..Len(q), i # 1
        PROVE  i - 1 \in 1..Len(r) /\ r[i - 1] = q[i]
    <3>1. i - 1 \in 1..Len(r) /\ (i - 1) + 1 = i
      BY <1>1, <1>2, <2>2
    <3> QED
      BY <1>2, <3>1
  <2>3. \A i \in 1..Len(r) : r[i] \in ToSet(q)
    BY <1>2, <2>1
  <2>4. ASSUME NEW d \in ToSet(q)
        PROVE  d \in ToSet(r) \cup {q[1]}
    <3>1. PICK i \in 1..Len(q) : d = q[i]
      BY <2>1
    <3> QED
      BY <2>1, <2>2, <3>1
  <2>5. ToSet(r) \cup {q[1]} \subseteq ToSet(q)
    BY <2>1, <2>3
  <2> QED
    BY <2>4, <2>5
<1>7. \A e, f \in {q[1]} : e = f
  OBVIOUS
<1>8. \A i \in 1..Len(r), e \in {q[1]} : r[i].command # e.command
  BY <1>3
<1>9. {q[1]} \subseteq Entry
  BY <1>1
<1>10. b = Bytes(ToSet(r) \cup {q[1]})
  BY <1>1, <1>6
<1> QED
  BY <1>1, <1>2, <1>3, <1>4, <1>5, <1>7, <1>8, <1>9, <1>10 DEF Accounted, r

(* The queue is emptied and gives its share back; what is at the bridge     *)
(* keeps its own, whichever generation is current next.                     *)
LEMMA Emptied ==
    ASSUME NEW q, NEW x, NEW n, NEW b, NEW cur, NEW next, Accounted(q, x, n, b, cur)
    PROVE  Accounted(<<>>, x, n - Len(q), b - Bytes(ToSet(q)), next)
<1>1. /\ Len(q) \in Nat /\ Cardinality(x) \in Nat
      /\ Bytes(ToSet(q)) \in Nat /\ Bytes(x) \in Nat
      /\ b = Bytes(ToSet(q)) + Bytes(x)
  BY AccountedSets
<1>2. /\ x \subseteq Entry /\ \A e, f \in x : e = f
      /\ n = Len(q) + Cardinality(x)
      /\ n <= maxPreBridgeCommands /\ b <= maxQueuedCommandBytes
  BY DEF Accounted
<1>3. <<>> \in Seq(Entry) /\ Len(<<>>) = 0 /\ \A i : i \notin 1..Len(<<>>)
  BY EmptySeq
<1>4. ToSet(<<>>) = {}
  BY NoQueue
<1>5. n - Len(q) = Len(<<>>) + Cardinality(x) /\ n - Len(q) <= maxPreBridgeCommands
  BY <1>1, <1>2, <1>3, CommandAssumption
<1>6. b - Bytes(ToSet(q)) = Bytes(ToSet(<<>>) \cup x)
  <2>1. ToSet(<<>>) \cup x = x
    BY <1>4
  <2>2. Bytes(ToSet(<<>>) \cup x) = Bytes(x)
    BY <2>1
  <2> QED
    BY <1>1, <2>2
<1>7. b - Bytes(ToSet(q)) <= maxQueuedCommandBytes
  BY <1>1, <1>2, CommandAssumption
<1> QED
  BY <1>2, <1>3, <1>5, <1>6, <1>7 DEF Accounted

(* A command that fits joins the queue and takes its share.                 *)
LEMMA Enqueued ==
    ASSUME NEW q, NEW x, NEW n, NEW b, NEW cur, Accounted(q, x, n, b, cur),
           NEW e \in Entry, e.generation = cur,
           \A f \in ToSet(q) \cup x : f.command # e.command,
           n + 1 <= maxPreBridgeCommands, b + e.size <= maxQueuedCommandBytes
    PROVE  Accounted(Append(q, e), x, n + 1, b + e.size, cur)
<1> DEFINE r == Append(q, e)
<1>1. /\ Len(q) \in Nat /\ Cardinality(x) \in Nat /\ IsFiniteSet(ToSet(q)) /\ IsFiniteSet(x)
      /\ ToSet(q) \subseteq Entry /\ ToSet(q) = {q[i] : i \in 1..Len(q)}
  <2>1. ToSet(q) = {q[i] : i \in 1..Len(q)}
    BY QueueSet DEF Accounted
  <2> QED
    BY <2>1, AccountedSets
<1>2. /\ q \in Seq(Entry) /\ x \subseteq Entry /\ \A d, f \in x : d = f
      /\ \A i \in 1..Len(q) : q[i].generation = cur
      /\ \A i, j \in 1..Len(q) : q[i].command = q[j].command => i = j
      /\ \A i \in 1..Len(q), f \in x : q[i].command # f.command
      /\ n = Len(q) + Cardinality(x) /\ b = Bytes(ToSet(q) \cup x)
  BY DEF Accounted
<1>3. /\ r \in Seq(Entry) /\ Len(r) = Len(q) + 1
      /\ \A i \in 1..Len(q) : r[i] = q[i]
      /\ r[Len(q) + 1] = e
  BY <1>2, AppendProperties
<1>4. \A i \in 1..Len(r) : i = Len(q) + 1 \/ i \in 1..Len(q)
  BY <1>1, <1>3
<1> HIDE DEF r
<1>5. \A i \in 1..Len(q) : q[i].command # e.command
  BY <1>1
<1>6. \A i \in 1..Len(r) : r[i].generation = cur
  BY <1>2, <1>3, <1>4
<1>7. \A i, j \in 1..Len(r) : r[i].command = r[j].command => i = j
  BY <1>2, <1>3, <1>4, <1>5
<1>8. \A i \in 1..Len(r), f \in x : r[i].command # f.command
  BY <1>2, <1>3, <1>4
<1>9. n + 1 = Len(r) + Cardinality(x)
  BY <1>1, <1>2, <1>3
<1>10. b + e.size = Bytes(ToSet(r) \cup x)
  <2>1. ToSet(r) = ToSet(q) \cup {e}
    BY <1>2, AppendSet DEF r
  <2>2. e \notin ToSet(q) \cup x
    OBVIOUS
  <2> DEFINE S == ToSet(q) \cup x
  <2>3. IsFiniteSet(S) /\ S \subseteq Entry /\ IsFiniteSet({e}) /\ S \cap {e} = {}
    BY <1>1, <1>2, <2>2, FS_Union, FS_Singleton
  <2>4. Bytes(S \cup {e}) = Bytes(S) + Bytes({e})
    BY <2>3, BytesUnion
  <2>5. ToSet(r) \cup x = S \cup {e}
    BY <2>1
  <2> HIDE DEF S
  <2>6. Bytes(ToSet(r) \cup x) = Bytes(S) + e.size
    BY <2>4, <2>5, BytesOne
  <2> QED
    BY <1>2, <2>6 DEF S
<1> QED
  BY <1>2, <1>3, <1>6, <1>7, <1>8, <1>9, <1>10 DEF Accounted, r

(* The command at the bridge leaves it and gives its share back.            *)
LEMMA LeftBridge ==
    ASSUME NEW q, NEW x, NEW n, NEW b, NEW cur, Accounted(q, x, n, b, cur), NEW e \in x
    PROVE  x \ {e} = {} /\ Accounted(q, x \ {e}, n - 1, b - e.size, cur)
<1>1. /\ Len(q) \in Nat /\ Bytes(ToSet(q)) \in Nat
      /\ b = Bytes(ToSet(q)) + Bytes(x)
      /\ x = {e} /\ Cardinality(x) = 1 /\ e \in Entry
  BY AccountedSets
<1>2. /\ q \in Seq(Entry) /\ \A i \in 1..Len(q) : q[i].generation = cur
      /\ \A i, j \in 1..Len(q) : q[i].command = q[j].command => i = j
      /\ n = Len(q) + Cardinality(x)
      /\ n <= maxPreBridgeCommands /\ b <= maxQueuedCommandBytes
  BY DEF Accounted
<1>3. Bytes(x) = e.size /\ e.size \in Nat
  BY <1>1, BytesOne
<1>4. n - 1 = Len(q) + Cardinality({}) /\ n - 1 <= maxPreBridgeCommands
  BY <1>1, <1>2, FS_EmptySet, CommandAssumption
<1>5. b - e.size = Bytes(ToSet(q) \cup {}) /\ b - e.size <= maxQueuedCommandBytes
  <2>1. ToSet(q) \cup {} = ToSet(q)
    OBVIOUS
  <2>2. Bytes(ToSet(q) \cup {}) = Bytes(ToSet(q))
    BY <2>1
  <2>3. b - e.size = Bytes(ToSet(q)) /\ b - e.size <= maxQueuedCommandBytes
    BY <1>1, <1>2, <1>3, CommandAssumption
  <2> QED
    BY <2>2, <2>3
<1>6. x \ {e} = {}
  BY <1>1
<1>7. Accounted(q, {}, n - 1, b - e.size, cur)
  BY <1>2, <1>4, <1>5 DEF Accounted
<1> QED
  BY <1>6, <1>7

-----------------------------------------------------------------------------
(* The queue's part of the invariant.                                       *)

(* A flush of the current generation's queue keeps the accounts: nothing    *)
(* happens, the first command goes to the bridge, or all are released.      *)
LEMMA Flushed ==
    ASSUME NEW busy \in BOOLEAN, NEW active \in BOOLEAN, NEW q, NEW x, NEW n, NEW b,
           current' \in Generation \cup {NoGeneration},
           Accounted(q, x, n, b, current'), busy <=> x # {},
           Flush(busy, active, q, x, n, b)
    PROVE  /\ Accounted(queuedMessages', executingMessages', countUsed', bytesUsed', current')
           /\ draining' \in BOOLEAN /\ (draining' <=> executingMessages' # {})
           /\ q = <<>> => queuedMessages' = <<>>
           /\ ToSet(queuedMessages') \subseteq ToSet(q)
           /\ executingMessages' \subseteq x \cup ToSet(q)
<1> DEFINE cur == current'
           own == IF cur = NoGeneration THEN <<>> ELSE Of(cur, q)
           runs == ~busy /\ bridge' /\ own # <<>>
<1>1. /\ draining' = (busy \/ (runs /\ active))
      /\ queuedMessages' = IF ~runs THEN q
                           ELSE IF active THEN RemoveAt(q, First(cur, q)) ELSE Others(cur, q)
      /\ executingMessages' = IF runs /\ active THEN x \cup {own[1]} ELSE x
      /\ countUsed' = IF runs /\ ~active THEN n - Len(own) ELSE n
      /\ bytesUsed' = IF runs /\ ~active THEN b - Bytes(ToSet(own)) ELSE b
  BY DEF Flush
<1>2. /\ q \in Seq(Entry) /\ Len(q) \in Nat
      /\ \A i \in 1..Len(q) : q[i].generation = cur /\ q[i] \in Entry
  BY LenProperties DEF Accounted
<1>3. /\ Of(cur, q) = q /\ Others(cur, q) = <<>>
      /\ q # <<>> => First(cur, q) = 1 /\ 1 \in 1..Len(q)
  BY <1>2, OwnQueue
<1>4. own = q
  <2>1. CASE cur = NoGeneration
    <3>1. ASSUME NEW i \in 1..Len(q)
          PROVE  FALSE
      BY <1>2, <2>1, GenerationAssumption DEF Entry
    <3>2. q = <<>>
      BY <1>3, <3>1
    <3> QED
      BY <2>1, <3>2
  <2> QED
    BY <1>3, <2>1
<1> DEFINE q1 == queuedMessages'
           x1 == executingMessages'
           n1 == countUsed'
           b1 == bytesUsed'
           d1 == draining'
<1>5. CASE ~runs
  <2>1. q1 = q /\ x1 = x /\ n1 = n /\ b1 = b /\ d1 = busy
    BY <1>1, <1>5
  <2> QED
    BY <2>1
<1>6. CASE runs /\ active
  <2>1. q # <<>> /\ x = {}
    BY <1>4, <1>6
  <2>2. q1 = RemoveAt(q, 1) /\ x1 = {q[1]} /\ n1 = n /\ b1 = b /\ d1 = TRUE
    BY <1>1, <1>3, <1>4, <1>6, <2>1
  <2>3. Accounted(q1, x1, n1, b1, cur)
    BY <1>3, <2>1, <2>2, ToBridge
  <2>4. ToSet(q1) \subseteq ToSet(q) /\ x1 \subseteq ToSet(q)
    <3>1. ToSet(q) = {q[i] : i \in 1..Len(q)}
      BY <1>2, QueueSet
    <3>2. /\ RemoveAt(q, 1) \in Seq(Entry) /\ Len(RemoveAt(q, 1)) = Len(q) - 1
          /\ \A i \in 1..(Len(q) - 1) : RemoveAt(q, 1)[i] = q[i + 1]
      BY <1>2, <1>3, <2>1, Dequeued
    <3>3. ToSet(RemoveAt(q, 1)) = {RemoveAt(q, 1)[i] : i \in 1..(Len(q) - 1)}
      BY <3>2, QueueSet
    <3>4. \A i \in 1..(Len(q) - 1) : i + 1 \in 1..Len(q)
      BY <1>2
    <3>5. q[1] \in ToSet(q)
      BY <1>3, <2>1, <3>1
    <3>6. ASSUME NEW i \in 1..(Len(q) - 1)
          PROVE  RemoveAt(q, 1)[i] \in ToSet(q)
      BY <3>1, <3>2, <3>4
    <3> QED
      BY <2>2, <3>3, <3>5, <3>6
  <2> QED
    BY <2>1, <2>2, <2>3, <2>4
<1>7. CASE runs /\ ~active
  <2>1. q1 = <<>> /\ x1 = x /\ n1 = n - Len(q) /\ b1 = b - Bytes(ToSet(q)) /\ d1 = busy
    BY <1>1, <1>3, <1>4, <1>7
  <2>2. Accounted(q1, x1, n1, b1, cur)
    BY <2>1, Emptied
  <2>3. ToSet(q1) = {}
    BY <2>1, NoQueue
  <2> QED
    BY <2>1, <2>2, <2>3
<1> QED
  BY <1>5, <1>6, <1>7

(* The socket of an active generation is held, and is not stopped.          *)
LEMMA ActiveHeld ==
    ASSUME SocketPart, NEW g \in Generation, IsGenerationActive(g)
    PROVE  current = g /\ socketHeld /\ ~stopped /\ link[g] = "open"
BY DEF SocketPart, NoOrphanSocket, IsGenerationActive

(* A step that leaves the queue, the bridge and their generation alone, and *)
(* neither adopts a socket while one is held nor gives the held one up.     *)
LEMMA QueueUntouched ==
    ASSUME QueuePart, UNCHANGED <<queueVars, current>>,
           ~socketHeld' \/ stopped' => ~socketHeld \/ stopped
    PROVE  QueuePart'
BY DEF QueuePart, queueVars

(* A flush after the queue changed.                                         *)
LEMMA FlushKeepsQueue ==
    ASSUME SocketPart', NEW busy \in BOOLEAN, NEW active \in BOOLEAN,
           NEW q, NEW x, NEW n, NEW b,
           Accounted(q, x, n, b, current'), busy <=> x # {},
           ~socketHeld' \/ stopped' => q = <<>>,
           Flush(busy, active, q, x, n, b)
    PROVE  QueuePart'
<1>1. current' \in Generation \cup {NoGeneration}
  BY DEF SocketPart, SocketTypeOK
<1> QED
  BY <1>1, Flushed DEF QueuePart

(* Every step keeps the accounts of the queue.                              *)
LEMMA QueueStep ==
    ASSUME SocketPart, SocketPart', QueuePart, Next
    PROVE  QueuePart'
<1>1. /\ Accounted(queuedMessages, executingMessages, countUsed, bytesUsed, current)
      /\ draining \in BOOLEAN /\ (draining <=> executingMessages # {})
      /\ ~socketHeld \/ stopped => queuedMessages = <<>>
  BY DEF QueuePart
<1>2. current \in Generation \cup {NoGeneration} /\ (socketHeld => current # NoGeneration)
  BY DEF SocketPart, SocketTypeOK, TimersOwned
<1>3. CASE \/ Start \/ ConnectThrows \/ ReconnectFires \/ SessionChanges \/ SnapshotThrows
           \/ \E g \in Generation : \/ PrepareResolves(g) \/ PrepareRejects(g) \/ HelloMessage(g)
                                    \/ ChallengeAnswered(g) \/ HelloFails(g)
                                    \/ GenerationCloses(g) \/ RemoteCloses(g)
           \/ \E g \in Generation, c \in Command, size \in CommandSizes :
                 CommandRejected(g, c, size)
  <2>1. UNCHANGED <<queueVars, current, socketHeld, stopped>>
    BY <1>3 DEF Start, ConnectThrows, ReconnectFires, SessionChanges, SnapshotThrows,
                PrepareResolves, PrepareRejects, HelloMessage, ChallengeAnswered, HelloFails,
                GenerationCloses, RemoteCloses, CommandRejected, socketVars
  <2> QED
    BY <2>1, QueueUntouched
<1>4. CASE Stop
  <2>1. /\ queuedMessages' = <<>>
        /\ countUsed' = countUsed - Len(queuedMessages)
        /\ bytesUsed' = bytesUsed - Bytes(ToSet(queuedMessages))
        /\ UNCHANGED <<executingMessages, draining>>
    BY <1>4 DEF Stop, DiscardAll
  <2> QED
    BY <1>1, <2>1, Emptied DEF QueuePart
<1>5. CASE LifecycleDefect
  <2>1. /\ queuedMessages' = <<>>
        /\ countUsed' = countUsed - Len(queuedMessages)
        /\ bytesUsed' = bytesUsed - Bytes(ToSet(queuedMessages))
        /\ UNCHANGED <<executingMessages, draining>>
    BY <1>5 DEF LifecycleDefect, DiscardAll
  <2> QED
    BY <1>1, <2>1, Emptied DEF QueuePart
<1>6. ASSUME NEW bb \in BOOLEAN, SetBridge(bb)
      PROVE  QueuePart'
  <2> DEFINE active == current # NoGeneration /\ IsGenerationActive(current)
  <2>1. /\ UNCHANGED <<current, socketHeld, stopped>>
        /\ Flush(draining, active, queuedMessages, executingMessages, countUsed, bytesUsed)
    BY <1>6 DEF SetBridge
  <2>2. active \in BOOLEAN
    OBVIOUS
  <2> HIDE DEF active
  <2> QED
    BY <1>1, <2>1, <2>2, FlushKeepsQueue
<1>7. ASSUME NEW g \in Generation, ConnectReturns(g)
      PROVE  QueuePart'
  <2>1. UNCHANGED queueVars /\ ~socketHeld
    BY <1>7 DEF ConnectReturns, SocketPart, TimersOwned
  <2>2. queuedMessages = <<>> /\ Len(<<>>) = 0 /\ \A i : i \notin 1..0
    BY <1>1, <2>1, EmptySeq
  <2>3. Accounted(queuedMessages, executingMessages, countUsed, bytesUsed, current')
    BY <1>1, <2>2 DEF Accounted
  <2> QED
    BY <1>1, <2>1, <2>2, <2>3 DEF QueuePart, queueVars
<1>8. ASSUME NEW g \in Generation, SocketOpens(g)
      PROVE  QueuePart'
  <2>1. /\ UNCHANGED <<current, socketHeld, stopped>>
        /\ \/ UNCHANGED queueVars
           \/ Flush(draining, TRUE, queuedMessages, executingMessages, countUsed, bytesUsed)
    BY <1>8 DEF SocketOpens, Activate
  <2> QED
    BY <1>1, <2>1, QueueUntouched, FlushKeepsQueue
<1>9. ASSUME NEW g \in Generation, AckVerified(g)
      PROVE  QueuePart'
  <2>1. /\ UNCHANGED <<current, socketHeld, stopped>>
        /\ \/ UNCHANGED queueVars
           \/ Flush(draining, TRUE, queuedMessages, executingMessages, countUsed, bytesUsed)
    BY <1>9 DEF AckVerified, Activate
  <2> QED
    BY <1>1, <2>1, QueueUntouched, FlushKeepsQueue
<1>10. ASSUME NEW g \in Generation, SocketClosed(g)
       PROVE  QueuePart'
  <2>1. /\ UNCHANGED <<current, stopped, executingMessages, draining>>
        /\ socketHeld' = (socketHeld /\ current # g)
        /\ queuedMessages' = Others(g, queuedMessages)
        /\ countUsed' = countUsed - Len(Of(g, queuedMessages))
        /\ bytesUsed' = bytesUsed - Bytes(ToSet(Of(g, queuedMessages)))
    BY <1>10 DEF SocketClosed, Discard
  <2>2. /\ Of(current, queuedMessages) = queuedMessages
        /\ Others(current, queuedMessages) = <<>>
        /\ g # current => Of(g, queuedMessages) = <<>> /\ Others(g, queuedMessages) = queuedMessages
    BY <1>1, OwnQueue DEF Accounted
  <2>3. CASE current = g
    <3>1. /\ queuedMessages' = <<>>
          /\ countUsed' = countUsed - Len(queuedMessages)
          /\ bytesUsed' = bytesUsed - Bytes(ToSet(queuedMessages))
      BY <2>1, <2>2, <2>3
    <3> QED
      BY <1>1, <2>1, <3>1, Emptied DEF QueuePart
  <2>4. CASE current # g
    <3>1. Of(g, queuedMessages) = <<>> /\ queuedMessages' = queuedMessages
      BY <2>1, <2>2, <2>4
    <3>2. Len(<<>>) = 0 /\ Bytes(ToSet(<<>>)) = 0
      <4>1. Units([e \in {} |-> e.size], {}) = {}
        BY DEF Units
      <4> QED
        BY <4>1, NoQueue, EmptySeq, FS_EmptySet DEF Bytes, Reserved
    <3>3. countUsed \in Int /\ bytesUsed \in Int
      <4>1. /\ Len(queuedMessages) \in Nat /\ Cardinality(executingMessages) \in Nat
            /\ Bytes(ToSet(queuedMessages)) \in Nat /\ Bytes(executingMessages) \in Nat
            /\ bytesUsed = Bytes(ToSet(queuedMessages)) + Bytes(executingMessages)
        BY <1>1, AccountedSets
      <4>2. countUsed = Len(queuedMessages) + Cardinality(executingMessages)
        BY <1>1 DEF Accounted
      <4> QED
        BY <4>1, <4>2
    <3>4. countUsed' = countUsed /\ bytesUsed' = bytesUsed
      BY <2>1, <3>1, <3>2, <3>3
    <3> QED
      BY <1>1, <2>1, <2>4, <3>1, <3>4 DEF QueuePart
  <2> QED
    BY <2>3, <2>4
<1>11. ASSUME NEW g \in Generation, NEW c \in Command, NEW size \in CommandSizes,
              CommandArrives(g, c, size)
       PROVE  QueuePart'
  <2> DEFINE e == [generation |-> g, command |-> c, size |-> size]
  <2>1. /\ IsGenerationActive(g) /\ ~InUse(c) /\ Fits(size)
        /\ UNCHANGED <<current, socketHeld, stopped>>
        /\ Flush(draining, TRUE, Append(queuedMessages, e), executingMessages,
                 countUsed + 1, bytesUsed + size)
    BY <1>11 DEF CommandArrives
  <2>2. current = g /\ socketHeld /\ ~stopped
    BY <2>1, ActiveHeld
  <2>3. e \in Entry /\ e.generation = current /\ e.command = c /\ e.size = size
    BY <2>2 DEF Entry
  <2> HIDE DEF e
  <2>4. \A f \in ToSet(queuedMessages) \cup executingMessages : f.command # e.command
    BY <2>1, <2>3 DEF InUse
  <2>5. countUsed + 1 <= maxPreBridgeCommands /\ bytesUsed + e.size <= maxQueuedCommandBytes
    BY <2>1, <2>3 DEF Fits
  <2>6. Accounted(Append(queuedMessages, e), executingMessages, countUsed + 1,
                  bytesUsed + size, current)
    BY <1>1, <2>3, <2>4, <2>5, Enqueued
  <2> QED
    BY <1>1, <2>1, <2>2, <2>6, FlushKeepsQueue
<1>12. ASSUME NEW e \in executingMessages, BridgeSettles(e)
       PROVE  QueuePart'
  <2> DEFINE idle == current # NoGeneration /\ IsGenerationActive(current)
             n == countUsed - 1
             b == bytesUsed - e.size
  <2>1. /\ UNCHANGED <<current, socketHeld, stopped>>
        /\ \/ Flush(FALSE, TRUE, queuedMessages, executingMessages \ {e}, n, b)
           \/ Flush(FALSE, FALSE, queuedMessages, executingMessages \ {e}, n, b)
           \/ Flush(FALSE, idle, queuedMessages, executingMessages \ {e}, n, b)
    BY <1>12 DEF BridgeSettles, Released
  <2>2. /\ executingMessages \ {e} = {}
        /\ Accounted(queuedMessages, executingMessages \ {e}, n, b, current)
    BY <1>1, LeftBridge
  <2>3. idle \in BOOLEAN
    OBVIOUS
  <2> HIDE DEF idle, n, b
  <2>4. PICK active \in BOOLEAN :
           Flush(FALSE, active, queuedMessages, executingMessages \ {e}, n, b)
    BY <2>1, <2>3
  <2>5. /\ Accounted(queuedMessages, executingMessages \ {e}, n, b, current')
        /\ ~socketHeld' \/ stopped' => queuedMessages = <<>>
        /\ FALSE <=> executingMessages \ {e} # {}
    BY <1>1, <2>1, <2>2
  <2> QED
    BY <2>4, <2>5, FlushKeepsQueue
<1>13. ASSUME NEW e \in executingMessages, AnswerDefect(e)
       PROVE  QueuePart'
  <2> DEFINE n == countUsed - 1
             b == bytesUsed - e.size
  <2>1. /\ queuedMessages' = <<>>
        /\ executingMessages' = executingMessages \ {e} /\ draining' = FALSE
        /\ countUsed' = n - Len(queuedMessages)
        /\ bytesUsed' = b - Bytes(ToSet(queuedMessages))
    BY <1>13 DEF AnswerDefect, Released
  <2>2. /\ executingMessages \ {e} = {}
        /\ Accounted(queuedMessages, executingMessages \ {e}, n, b, current)
    BY <1>1, LeftBridge
  <2> HIDE DEF n, b
  <2>3. Accounted(queuedMessages', executingMessages', countUsed', bytesUsed', current')
    BY <2>1, <2>2, Emptied
  <2> QED
    BY <2>1, <2>2, <2>3 DEF QueuePart
<1> QED
  BY <1>3, <1>4, <1>5, <1>6, <1>7, <1>8, <1>9, <1>10, <1>11, <1>12, <1>13, Zenon DEF Next

-----------------------------------------------------------------------------
(* The answers' part of the invariant.                                      *)

(* Nothing is asked or answered, the queue and the bridge hold only what    *)
(* they held between them, and a socket that has closed stays closed unless *)
(* no command of it is left.                                                *)
LEMMA AnswersUntouched ==
    ASSUME QueuePart, AnswerPart, UNCHANGED stray, awaiting' \in [Generation -> SUBSET Command],
           \A g \in Generation : awaiting[g] \subseteq awaiting'[g],
           ToSet(queuedMessages') \subseteq ToSet(queuedMessages),
           executingMessages' \subseteq executingMessages \cup ToSet(queuedMessages),
           \A e \in executingMessages : link[e.generation] = "closed" =>
                                            link'[e.generation] = "closed"
    PROVE  AnswerPart'
<1>1. /\ executingMessages \subseteq Entry /\ ToSet(queuedMessages) \subseteq Entry
      /\ \A e \in Entry : e.generation \in Generation
  <2>1. Accounted(queuedMessages, executingMessages, countUsed, bytesUsed, current)
    BY DEF QueuePart
  <2>2. ToSet(queuedMessages) \subseteq Entry
    BY <2>1, AccountedSets
  <2>3. executingMessages \subseteq Entry
    BY <2>1 DEF Accounted
  <2> QED
    BY <2>2, <2>3 DEF Entry
<1>2. ASSUME NEW e \in ToSet(queuedMessages)
      PROVE  e.command \in awaiting'[e.generation]
  BY <1>1 DEF AnswerPart
<1>3. ASSUME NEW e \in executingMessages
      PROVE  link'[e.generation] = "closed" \/ e.command \in awaiting'[e.generation]
  BY <1>1 DEF AnswerPart
<1> QED
  BY <1>2, <1>3 DEF AnswerPart

(* What a flush leaves of a queue and a set of commands.                    *)
LEMMA FlushOnlyMoves ==
    ASSUME SocketPart, UNCHANGED current, NEW busy \in BOOLEAN, NEW active \in BOOLEAN,
           NEW q, NEW x, NEW n, NEW b,
           Accounted(q, x, n, b, current), busy <=> x # {}, Flush(busy, active, q, x, n, b)
    PROVE  /\ ToSet(queuedMessages') \subseteq ToSet(q)
           /\ executingMessages' \subseteq x \cup ToSet(q)
<1>1. current' \in Generation \cup {NoGeneration} /\ Accounted(q, x, n, b, current')
  BY DEF SocketPart, SocketTypeOK
<1> QED
  BY <1>1, Flushed

(* Every step keeps the answers where they were asked for.                  *)
LEMMA AnswerStep ==
    ASSUME SocketPart, QueuePart, AnswerPart, Next
    PROVE  AnswerPart'
<1>1. /\ Accounted(queuedMessages, executingMessages, countUsed, bytesUsed, current)
      /\ draining \in BOOLEAN /\ (draining <=> executingMessages # {})
      /\ ~socketHeld \/ stopped => queuedMessages = <<>>
  BY DEF QueuePart
<1>2. /\ executingMessages \subseteq Entry /\ ToSet(queuedMessages) \subseteq Entry
      /\ \A e \in Entry : e.generation \in Generation /\ e.command \in Command
      /\ ToSet(queuedMessages) \cap executingMessages = {}
  <2>1. /\ ToSet(queuedMessages) \subseteq Entry
        /\ ToSet(queuedMessages) \cap executingMessages = {}
    BY <1>1, AccountedSets
  <2>2. executingMessages \subseteq Entry
    BY <1>1 DEF Accounted
  <2> QED
    BY <2>1, <2>2 DEF Entry
<1>3. /\ link \in [Generation -> {"connecting", "open", "closing", "closed"}]
      /\ current \in Generation \cup {NoGeneration}
  BY DEF SocketPart, SocketTypeOK
<1>4. /\ awaiting \in [Generation -> SUBSET Command]
      /\ \A e \in ToSet(queuedMessages) : e.command \in awaiting[e.generation]
      /\ \A e \in executingMessages :
            link[e.generation] = "closed" \/ e.command \in awaiting[e.generation]
      /\ stray = FALSE
  BY DEF AnswerPart
<1>5. CASE \/ Start \/ ConnectThrows \/ ReconnectFires \/ SessionChanges \/ SnapshotThrows
           \/ \E g \in Generation : \/ PrepareResolves(g) \/ PrepareRejects(g) \/ HelloMessage(g)
                                    \/ ChallengeAnswered(g) \/ HelloFails(g)
                                    \/ GenerationCloses(g) \/ RemoteCloses(g)
  <2>1. /\ UNCHANGED <<queueVars, daemonVars>>
        /\ \A h \in Generation : link[h] = "closed" => link'[h] = "closed"
    BY <1>3, <1>5 DEF Start, ConnectThrows, ReconnectFires, SessionChanges, SnapshotThrows,
                PrepareResolves, PrepareRejects, HelloMessage, ChallengeAnswered, HelloFails,
                GenerationCloses, RemoteCloses, CloseGeneration, Hangup, socketVars
  <2> QED
    BY <1>2, <1>4, <2>1, AnswersUntouched DEF queueVars, daemonVars
<1>6. CASE Stop \/ LifecycleDefect
  <2>1. /\ queuedMessages' = <<>> /\ UNCHANGED <<executingMessages, daemonVars>>
        /\ \A h \in Generation : link[h] = "closed" => link'[h] = "closed"
    BY <1>3, <1>6 DEF Stop, LifecycleDefect, DiscardAll, Hangup
  <2>2. ToSet(queuedMessages') = {}
    BY <2>1, NoQueue
  <2> QED
    BY <1>2, <1>4, <2>1, <2>2, AnswersUntouched DEF daemonVars
<1>7. ASSUME NEW bb \in BOOLEAN, SetBridge(bb)
      PROVE  AnswerPart'
  <2> DEFINE active == current # NoGeneration /\ IsGenerationActive(current)
  <2>1. /\ UNCHANGED <<current, link, daemonVars>>
        /\ Flush(draining, active, queuedMessages, executingMessages, countUsed, bytesUsed)
    BY <1>7 DEF SetBridge
  <2>2. active \in BOOLEAN
    OBVIOUS
  <2> HIDE DEF active
  <2>3. /\ ToSet(queuedMessages') \subseteq ToSet(queuedMessages)
        /\ executingMessages' \subseteq executingMessages \cup ToSet(queuedMessages)
    BY <1>1, <2>1, <2>2, FlushOnlyMoves
  <2> QED
    BY <1>4, <2>1, <2>3, AnswersUntouched DEF daemonVars
<1>8. ASSUME NEW g \in Generation, ConnectReturns(g)
      PROVE  AnswerPart'
  <2>1. /\ UNCHANGED <<queueVars, daemonVars>> /\ \A e \in executingMessages : e.generation # g
        /\ \A h \in Generation : h # g => link'[h] = link[h]
    BY <1>3, <1>8 DEF ConnectReturns, Unused
  <2> QED
    BY <1>2, <1>4, <2>1, AnswersUntouched DEF queueVars, daemonVars
<1>9. ASSUME NEW g \in Generation, SocketOpens(g) \/ AckVerified(g)
      PROVE  AnswerPart'
  <2>1. /\ UNCHANGED <<current, daemonVars>>
        /\ \A h \in Generation : link[h] = "closed" => link'[h] = "closed"
        /\ \/ UNCHANGED queueVars
           \/ Flush(draining, TRUE, queuedMessages, executingMessages, countUsed, bytesUsed)
    BY <1>3, <1>9 DEF SocketOpens, AckVerified, Activate
  <2>2. /\ ToSet(queuedMessages') \subseteq ToSet(queuedMessages)
        /\ executingMessages' \subseteq executingMessages \cup ToSet(queuedMessages)
    <3>1. CASE UNCHANGED queueVars
      BY <3>1 DEF queueVars
    <3>2. CASE Flush(draining, TRUE, queuedMessages, executingMessages, countUsed, bytesUsed)
      BY <1>1, <2>1, <3>2, FlushOnlyMoves
    <3> QED
      BY <2>1, <3>1, <3>2
  <2> QED
    BY <1>2, <1>4, <2>1, <2>2, AnswersUntouched DEF daemonVars
<1>10. ASSUME NEW g \in Generation, SocketClosed(g)
       PROVE  AnswerPart'
  <2>1. /\ UNCHANGED <<executingMessages, stray>>
        /\ queuedMessages' = Others(g, queuedMessages)
        /\ awaiting' = [awaiting EXCEPT ![g] = {}]
        /\ link' = [link EXCEPT ![g] = "closed"]
    BY <1>10 DEF SocketClosed, Discard
  <2>2. /\ Others(current, queuedMessages) = <<>>
        /\ g # current => Others(g, queuedMessages) = queuedMessages
        /\ \A e \in ToSet(queuedMessages) : e.generation = current
    <3>1. ToSet(queuedMessages) = {queuedMessages[i] : i \in 1..Len(queuedMessages)}
      BY <1>1, QueueSet DEF Accounted
    <3> QED
      BY <1>1, <3>1, OwnQueue DEF Accounted
  <2>3. ASSUME NEW e \in ToSet(queuedMessages')
        PROVE  e.command \in awaiting'[e.generation]
    <3>1. CASE current = g
      BY <2>1, <2>2, <2>3, <3>1, NoQueue
    <3>2. CASE current # g
      <4>1. e \in ToSet(queuedMessages) /\ e.generation # g /\ e.generation \in Generation
        BY <1>2, <2>1, <2>2, <2>3, <3>2
      <4> QED
        BY <1>4, <2>1, <4>1
    <3> QED
      BY <3>1, <3>2
  <2>4. ASSUME NEW e \in executingMessages'
        PROVE  link'[e.generation] = "closed" \/ e.command \in awaiting'[e.generation]
    BY <1>2, <1>3, <1>4, <2>1, <2>4
  <2>5. awaiting' \in [Generation -> SUBSET Command] /\ stray' = FALSE
    BY <1>4, <2>1
  <2> QED
    BY <2>3, <2>4, <2>5 DEF AnswerPart
<1>11. ASSUME NEW g \in Generation, NEW c \in Command, NEW size \in CommandSizes,
              CommandArrives(g, c, size)
       PROVE  AnswerPart'
  <2> DEFINE e == [generation |-> g, command |-> c, size |-> size]
             q == Append(queuedMessages, e)
  <2>1. /\ IsGenerationActive(g) /\ ~InUse(c) /\ Fits(size)
        /\ UNCHANGED <<current, link, stray>>
        /\ awaiting' = [awaiting EXCEPT ![g] = @ \cup {c}]
        /\ Flush(draining, TRUE, q, executingMessages, countUsed + 1, bytesUsed + size)
    BY <1>11 DEF CommandArrives
  <2>2. current = g
    BY <2>1, ActiveHeld
  <2>3. e \in Entry /\ e.generation = g /\ e.command = c /\ e.size = size
    BY DEF Entry
  <2> HIDE DEF e
  <2>4. \A f \in ToSet(queuedMessages) \cup executingMessages : f.command # e.command
    BY <2>1, <2>3 DEF InUse
  <2>5. countUsed + 1 <= maxPreBridgeCommands /\ bytesUsed + e.size <= maxQueuedCommandBytes
    BY <2>1, <2>3 DEF Fits
  <2>6. Accounted(q, executingMessages, countUsed + 1, bytesUsed + size, current)
    BY <1>1, <2>2, <2>3, <2>4, <2>5, Enqueued
  <2>7. ToSet(q) = ToSet(queuedMessages) \cup {e}
    BY <1>1, <2>3, AppendSet DEF Accounted
  <2> HIDE DEF q
  <2>8. /\ ToSet(queuedMessages') \subseteq ToSet(q)
        /\ executingMessages' \subseteq executingMessages \cup ToSet(q)
    BY <1>1, <2>1, <2>6, FlushOnlyMoves
  <2>9. /\ awaiting' \in [Generation -> SUBSET Command]
        /\ \A h \in Generation : awaiting[h] \subseteq awaiting'[h]
        /\ e.command \in awaiting'[e.generation]
    BY <1>4, <2>1, <2>3
  <2>10. ASSUME NEW f \in ToSet(q)
         PROVE  f.command \in awaiting'[f.generation]
    BY <1>2, <1>4, <2>7, <2>9
  <2>11. ASSUME NEW f \in executingMessages
         PROVE  link'[f.generation] = "closed" \/ f.command \in awaiting'[f.generation]
    BY <1>2, <1>4, <2>1, <2>9
  <2>12. /\ \A f \in ToSet(queuedMessages') : f.command \in awaiting'[f.generation]
         /\ \A f \in executingMessages' :
               link'[f.generation] = "closed" \/ f.command \in awaiting'[f.generation]
    BY <2>8, <2>10, <2>11
  <2>13. stray' = FALSE
    BY <1>4, <2>1
  <2> QED
    BY <2>9, <2>12, <2>13 DEF AnswerPart
<1>12. ASSUME NEW g \in Generation, NEW c \in Command, NEW size \in CommandSizes,
              CommandRejected(g, c, size)
       PROVE  AnswerPart'
  <2>1. /\ UNCHANGED <<queueVars, stray>>
        /\ awaiting' \in [Generation -> SUBSET Command]
        /\ \A h \in Generation : awaiting[h] \subseteq awaiting'[h]
        /\ \A h \in Generation : link[h] = "closed" => link'[h] = "closed"
    BY <1>3, <1>4, <1>12 DEF CommandRejected, CloseGeneration, Hangup
  <2> QED
    BY <1>2, <2>1, AnswersUntouched DEF queueVars
<1>13. ASSUME NEW e \in executingMessages, BridgeSettles(e)
       PROVE  AnswerPart'
  <2> DEFINE idle == current # NoGeneration /\ IsGenerationActive(current)
             n == countUsed - 1
             b == bytesUsed - e.size
  <2>1. /\ UNCHANGED current
        /\ \A h \in Generation : link[h] = "closed" => link'[h] = "closed"
        /\ \/ UNCHANGED daemonVars
           \/ IsGenerationActive(e.generation) /\ AnswerOn(e.generation, e.command)
        /\ \/ Flush(FALSE, TRUE, queuedMessages, executingMessages \ {e}, n, b)
           \/ Flush(FALSE, FALSE, queuedMessages, executingMessages \ {e}, n, b)
           \/ Flush(FALSE, idle, queuedMessages, executingMessages \ {e}, n, b)
    BY <1>3, <1>13 DEF BridgeSettles, AnswersThrough, Released, CloseGeneration, Hangup
  <2>2. /\ executingMessages \ {e} = {}
        /\ Accounted(queuedMessages, executingMessages \ {e}, n, b, current)
    BY <1>1, LeftBridge
  <2>3. idle \in BOOLEAN
    OBVIOUS
  <2> HIDE DEF idle, n, b
  <2>4. PICK active \in BOOLEAN :
           Flush(FALSE, active, queuedMessages, executingMessages \ {e}, n, b)
    BY <2>1, <2>3
  <2>5. /\ ToSet(queuedMessages') \subseteq ToSet(queuedMessages)
        /\ executingMessages' \subseteq ToSet(queuedMessages)
    <3>1. FALSE <=> executingMessages \ {e} # {}
      BY <2>2
    <3> QED
      BY <2>1, <2>2, <2>4, <3>1, FlushOnlyMoves
  <2>6. e \in Entry /\ e.generation \in Generation
    BY <1>2
  <2>7. ASSUME NEW f \in ToSet(queuedMessages)
        PROVE  f.command # e.command
    <3>1. ToSet(queuedMessages) = {queuedMessages[i] : i \in 1..Len(queuedMessages)}
      BY <1>1, QueueSet DEF Accounted
    <3> QED
      BY <1>1, <3>1 DEF Accounted
  <2>8. /\ awaiting' \in [Generation -> SUBSET Command]
        /\ \A h \in Generation, d \in Command :
              d \in awaiting[h] /\ d # e.command => d \in awaiting'[h]
        /\ stray' = FALSE
    <3>1. CASE UNCHANGED daemonVars
      BY <1>4, <3>1 DEF daemonVars
    <3>2. CASE IsGenerationActive(e.generation) /\ AnswerOn(e.generation, e.command)
      <4>1. link[e.generation] = "open"
        BY <2>6, <3>2, ActiveHeld
      <4>2. e.command \in awaiting[e.generation]
        BY <1>4, <4>1
      <4> QED
        BY <1>4, <2>6, <3>2, <4>2 DEF AnswerOn
    <3> QED
      BY <2>1, <3>1, <3>2
  <2>9. ASSUME NEW f \in ToSet(queuedMessages)
        PROVE  f.command \in awaiting'[f.generation]
    BY <1>2, <1>4, <2>7, <2>8
  <2> QED
    BY <2>5, <2>8, <2>9 DEF AnswerPart
<1>14. ASSUME NEW e \in executingMessages, AnswerDefect(e)
       PROVE  AnswerPart'
  <2>1. /\ queuedMessages' = <<>> /\ executingMessages' = executingMessages \ {e}
        /\ UNCHANGED daemonVars
    BY <1>14 DEF AnswerDefect
  <2>2. executingMessages \ {e} = {} /\ ToSet(queuedMessages') = {}
    BY <1>1, <2>1, LeftBridge, NoQueue
  <2> QED
    BY <1>4, <2>1, <2>2 DEF AnswerPart, daemonVars
<1> QED
  BY <1>5, <1>6, <1>7, <1>8, <1>9, <1>10, <1>11, <1>12, <1>13, <1>14, Zenon DEF Next

-----------------------------------------------------------------------------
(* The invariant.                                                           *)

(* No reservations of no entries.                                           *)
LEMMA NoBytes ==
    Bytes({}) = 0
BY ReservedNone DEF Bytes

(* The invariant holds at first.                                            *)
LEMMA ConnectionInit ==
    ASSUME Init
    PROVE  ConnectionIInv
<1>1. SocketPart
  BY GenerationAssumption
     DEF Init, SocketPart, SocketTypeOK, TimersOwned, RetryPending, TimersSilent,
         OpenBeforeActive, NoOrphanSocket, HeartbeatRuns, PublishedIsCurrent, IsGenerationActive
<1>2. /\ queuedMessages = <<>> /\ executingMessages = {} /\ countUsed = 0 /\ bytesUsed = 0
      /\ draining = FALSE /\ stray = FALSE /\ awaiting = [g \in Generation |-> {}]
  BY DEF Init
<1>3. Accounted(<<>>, {}, 0, 0, current)
  <2>1. <<>> \in Seq(Entry) /\ Len(<<>>) = 0 /\ \A i : i \notin 1..Len(<<>>)
    BY EmptySeq
  <2>2. Bytes(ToSet(<<>>) \cup {}) = 0
    BY NoQueue, NoBytes
  <2>3. Cardinality({}) = 0
    BY FS_EmptySet
  <2> QED
    BY <2>1, <2>2, <2>3, CommandAssumption DEF Accounted
<1>4. QueuePart
  BY <1>2, <1>3 DEF QueuePart
<1>5. AnswerPart
  BY <1>2, NoQueue DEF AnswerPart
<1> QED
  BY <1>1, <1>4, <1>5 DEF ConnectionIInv

(* Every step keeps the sockets' part.                                      *)
LEMMA SocketStep ==
    ASSUME SocketPart, executingMessages \subseteq Entry, Next
    PROVE  SocketPart'
BY ConnectingKeepsSockets, HelloKeepsSockets, CommandsKeepSockets, ClosingKeepsSockets, Zenon
   DEF Next

(* Every step, and every stutter, keeps the invariant.                      *)
LEMMA ConnectionStep ==
    ASSUME ConnectionIInv, [Next]_vars
    PROVE  ConnectionIInv'
<1>1. CASE Next
  <2>1. executingMessages \subseteq Entry
    BY DEF ConnectionIInv, QueuePart, Accounted
  <2> QED
    BY <1>1, <2>1, SocketStep, QueueStep, AnswerStep DEF ConnectionIInv
<1>2. CASE UNCHANGED vars
  <2> USE <1>2 DEF vars, socketVars, connectVars, timerVars, queueVars, sessionVars, daemonVars
  <2>1. SocketPart'
    BY DEF ConnectionIInv, SocketPart, SocketTypeOK, TimersOwned, RetryPending, TimersSilent,
           OpenBeforeActive, NoOrphanSocket, HeartbeatRuns, PublishedIsCurrent,
           IsGenerationActive
  <2>2. QueuePart'
    BY DEF ConnectionIInv, QueuePart
  <2>3. AnswerPart'
    BY DEF ConnectionIInv, AnswerPart
  <2> QED
    BY <2>1, <2>2, <2>3 DEF ConnectionIInv
<1> QED
  BY <1>1, <1>2

(* The invariant says of sockets, timers and publication what the           *)
(* connection promises.                                                     *)
LEMMA InvariantSockets ==
    ASSUME ConnectionIInv
    PROVE  SocketsSound
<1>1. Accounted(queuedMessages, executingMessages, countUsed, bytesUsed, current)
  BY DEF ConnectionIInv, QueuePart
<1>2. countUsed \in Nat /\ bytesUsed \in Nat
  <2>1. /\ Len(queuedMessages) \in Nat /\ Cardinality(executingMessages) \in Nat
        /\ Bytes(ToSet(queuedMessages)) \in Nat /\ Bytes(executingMessages) \in Nat
        /\ bytesUsed = Bytes(ToSet(queuedMessages)) + Bytes(executingMessages)
    BY <1>1, AccountedSets
  <2>2. countUsed = Len(queuedMessages) + Cardinality(executingMessages)
    BY <1>1 DEF Accounted
  <2> QED
    BY <2>1, <2>2
<1>3. TypeOK
  BY <1>1, <1>2
     DEF ConnectionIInv, SocketPart, SocketTypeOK, QueuePart, AnswerPart, Accounted, TypeOK
<1>4. StoppedIsSilent
  BY DEF ConnectionIInv, SocketPart, TimersSilent, QueuePart, StoppedIsSilent
<1>5. NeverStranded
  BY DEF ConnectionIInv, SocketPart, RetryPending, NeverStranded
<1> QED
  BY <1>3, <1>4, <1>5 DEF ConnectionIInv, SocketPart, SocketsSound

(* And of the commands.                                                     *)
LEMMA InvariantCommands ==
    ASSUME ConnectionIInv
    PROVE  CommandsSound
<1>1. Accounted(queuedMessages, executingMessages, countUsed, bytesUsed, current)
  BY DEF ConnectionIInv, QueuePart
<1>2. BudgetsExact
  BY <1>1 DEF Accounted, BudgetsExact
<1>3. Cardinality(executingMessages) <= 1
  BY <1>1, AccountedSets, FS_EmptySet
<1>4. \A e \in ToSet(queuedMessages) : e.generation = current
  <2>1. ToSet(queuedMessages) = {queuedMessages[i] : i \in 1..Len(queuedMessages)}
    BY <1>1, QueueSet DEF Accounted
  <2> QED
    BY <1>1, <2>1 DEF Accounted
<1>5. BridgeSerialized
  BY <1>3, <1>4 DEF ConnectionIInv, QueuePart, BridgeSerialized
<1>6. NoStrayAnswer
  BY DEF ConnectionIInv, AnswerPart, NoStrayAnswer
<1> QED
  BY <1>2, <1>5, <1>6 DEF CommandsSound

(* The invariant holds of every reachable state of the connection.          *)
THEOREM ConnectionInvariant == Spec => []ConnectionIInv
<1>1. Init => ConnectionIInv
  BY ConnectionInit
<1>2. ConnectionIInv /\ [Next]_vars => ConnectionIInv'
  BY ConnectionStep
<1> QED
  BY <1>1, <1>2, PTL DEF Spec

(* Whatever start, stop, reconnects and late events overlap, for any number *)
(* of sockets: no socket is forgotten, the heartbeat is the live one's, a   *)
(* lost socket is replaced, stop() leaves nothing behind, and an active     *)
(* generation has published the session as it is.                           *)
THEOREM SocketsSafe == Spec => []SocketsSound
<1>1. ConnectionIInv => SocketsSound
  BY InvariantSockets
<1> QED
  BY <1>1, ConnectionInvariant, PTL

(* For any sockets, commands, sizes and limits: the two budgets hold        *)
(* exactly the queued commands and the one at the bridge, which handles one *)
(* at a time, and no answer goes to a daemon connection that did not ask.   *)
THEOREM CommandsSafe == Spec => []CommandsSound
<1>1. ConnectionIInv => CommandsSound
  BY InvariantCommands
<1> QED
  BY <1>1, ConnectionInvariant, PTL

-----------------------------------------------------------------------------
(***************************************************************************)
(* The window's broker client.                                             *)
(***************************************************************************)

(* What the metadata file may name: no build or that of some daemon.        *)
Metadata == {NoFingerprint} \cup {Fingerprint[d] : d \in Daemon}

(* What a refusal records.                                                  *)
RefusalObject ==
    [kind : {"payload", "build-skew"}, fingerprint : Metadata, buildKnown : BOOLEAN,
     by : Daemon \cup {NoDaemon}, of : Payload]

(* What a close event carries.                                              *)
ClosedSocket ==
    [reason : {"refused", "rejected", "lost"}, by : Daemon \cup {NoDaemon}, of : Payload]

(* What the variables hold, in two halves.                                  *)
StartupTypeOK ==
    /\ startup \in {"idle", "waiting", "attempting", "stopped"}
    /\ attempt \in {"none", "daemon", "credentials"}
    /\ retryHeld \in BOOLEAN
    /\ loaded \in BOOLEAN
    /\ payload \in Payload
    /\ running \in Daemon \cup {NoDaemon}
    /\ metadata \in Metadata
    /\ faults \in Nat

RefusalTypeOK ==
    /\ connection \in {"none", "connecting", "active", "timer", "preparing"}
    /\ closing \in ClosedSocket \cup {StaysOpen}
    /\ refusal \in Refusal \cup {NoRefusal}
    /\ refusals \in [Refusal -> RefusalObject]
    /\ prepared \in Refusal \cup {NoRefusal}
    /\ probes \subseteq [refusal : Refusal, fresh : BOOLEAN]

(* A retry that is held is one of a client that waits or attempts.          *)
RetryOwned == retryHeld => startup \in {"waiting", "attempting"}

(* A refusal is forgotten before the next socket is made: on the first      *)
(* start there is none, and a preparation that reached the daemon has       *)
(* dropped it.  A socket that ends belongs to a connection.                 *)
RefusalSettled ==
    /\ IsClosed => connection \in {"connecting", "active"}
    /\ connection = "none" /\ startup # "stopped" => refusal = NoRefusal
    /\ connection = "preparing" /\ preparation = "daemon" => refusal = NoRefusal

(* Only the refusal of a hello is asked about.                              *)
ProbesAskAboutBuilds == \A p \in probes : refusals[p.refusal].kind = "build-skew"

(* The invariant in the same two halves.                                    *)
StartupPart == StartupTypeOK /\ RetryOwned /\ StartupSound
RefusalPart ==
    RefusalTypeOK /\ RefusalSettled /\ ProbesAskAboutBuilds /\ RefusalNoticed
ProducerIInv == StartupPart /\ RefusalPart

(* A client before its start.                                               *)
LEMMA StartupInit == ProducerInit => ProducerIInv
<1> SUFFICES ASSUME ProducerInit PROVE ProducerIInv
  OBVIOUS
<1> USE ProducerAssumption
<1>1. StartupPart
  BY DEF ProducerInit, StartupPart, StartupTypeOK, RetryOwned, StartupSound, Metadata
<1>2. RefusalTypeOK
  BY DEF ProducerInit, RefusalTypeOK, RefusalObject, Metadata
<1>3. RefusalSettled /\ ProbesAskAboutBuilds /\ RefusalNoticed
  BY DEF ProducerInit, RefusalSettled, ProbesAskAboutBuilds, RefusalNoticed, IsClosed
<1> QED
  BY <1>1, <1>2, <1>3 DEF ProducerIInv, RefusalPart

(* The startup half of the invariant, step by step; it needs what the other *)
(* half says of refusals.                                                   *)
LEMMA StartupStep ==
    ASSUME ProducerIInv, ProducerNext
    PROVE  StartupPart'
<1> USE ProducerAssumption
<1> USE DEF ProducerIInv, StartupPart, StartupTypeOK, RetryOwned, StartupSound, RefusalPart,
            RefusalSettled, Authorized, StillPreparing, Metadata,
            startupVars, refusalVars, prepareVars, daemonSide
<1>1. CASE ClientStart
  BY <1>1 DEF ClientStart
<1>2. CASE ClientStop
  <2> USE <1>2 DEF ClientStop
  <2>1. StartupTypeOK'
    OBVIOUS
  <2>2. CASE retryHeld
    <3>1. retryTimers = 1
      BY <2>2
    <3>2. retryTimers' = (IF retryHeld' THEN 1 ELSE 0)
      BY <2>2, <3>1
    <3> QED
      BY <2>1, <2>2, <3>2
  <2>3. CASE ~retryHeld
    <3>1. retryTimers = 0
      BY <2>3
    <3>2. retryTimers' = (IF retryHeld' THEN 1 ELSE 0)
      BY <2>3, <3>1
    <3> QED
      BY <2>1, <2>3, <3>2
  <2> QED
    BY <2>2, <2>3
<1>3. CASE DaemonExits
  BY <1>3 DEF DaemonExits
<1>4. CASE AttemptFindsDaemon
  BY <1>4 DEF AttemptFindsDaemon, AttemptSettles, ConnectsOnce
<1>5. CASE CredentialsLoaded
  BY <1>5 DEF CredentialsLoaded, AttemptSettles, ConnectsOnce
<1>6. CASE AttemptFindsNoDaemon
  <2> USE <1>6 DEF AttemptFindsNoDaemon, AttemptFails, RetryScheduled
  <2>1. StartupTypeOK'
    OBVIOUS
  <2>2. CASE retryHeld
    <3>1. retryTimers = 1
      BY <2>2
    <3>2. retryTimers' = (IF retryHeld' THEN 1 ELSE 0)
      BY <2>2, <3>1
    <3> QED
      BY <2>1, <2>2, <3>2
  <2>3. CASE ~retryHeld
    <3>1. retryTimers = 0
      BY <2>3
    <3>2. retryTimers' = (IF retryHeld' THEN 1 ELSE 0)
      BY <2>3, <3>1
    <3> QED
      BY <2>1, <2>3, <3>2
  <2> QED
    BY <2>2, <2>3
<1>7. CASE AttemptThrows
  <2> USE <1>7 DEF AttemptThrows, AttemptFails, RetryScheduled, Fault
  <2>1. StartupTypeOK'
    <3>1. faults' \in Nat
      OBVIOUS
    <3>2. loaded' \in BOOLEAN
      BY Zenon
    <3>3. retryHeld' \in BOOLEAN
      BY Zenon
    <3>4. /\ startup' \in {"idle", "waiting", "attempting", "stopped"}
          /\ attempt' = "none"
      OBVIOUS
    <3> QED
      BY <3>1, <3>2, <3>3, <3>4
  <2>2. CASE retryHeld
    <3>1. retryTimers = 1
      BY <2>2
    <3>2. retryTimers' = (IF retryHeld' THEN 1 ELSE 0)
      BY <2>2, <3>1
    <3> QED
      BY <2>1, <2>2, <3>2
  <2>3. CASE ~retryHeld
    <3>1. retryTimers = 0
      BY <2>3
    <3>2. retryTimers' = (IF retryHeld' THEN 1 ELSE 0)
      BY <2>3, <3>1
    <3> QED
      BY <2>1, <2>3, <3>2
  <2> QED
    BY <2>2, <2>3
<1>8. CASE RetryFires
  <2> USE <1>8 DEF RetryFires
  <2>1. StartupTypeOK'
    OBVIOUS
  <2>2. CASE retryHeld
    <3>1. retryTimers = 1
      BY <2>2
    <3>2. retryTimers' = (IF retryHeld' THEN 1 ELSE 0)
      <4>1. startup \in {"waiting", "attempting"}
        BY <2>2
      <4>2. retryHeld' = FALSE /\ retryTimers' = retryTimers - 1
        BY <2>2, <4>1
      <4> QED
        BY <3>1, <4>2
    <3> QED
      BY <2>1, <2>2, <3>2
  <2>3. CASE ~retryHeld
    <3>1. retryTimers = 0
      BY <2>3
    <3>2. retryTimers' = (IF retryHeld' THEN 1 ELSE 0)
      BY <2>3, <3>1
    <3> QED
      BY <2>1, <2>3, <3>2
  <2> QED
    BY <2>2, <2>3
<1>9. CASE HelloAccepted
  BY <1>9 DEF HelloAccepted
<1>10. CASE SocketEnds
  BY <1>10 DEF SocketEnds, Fault
<1>11. CASE SocketCloseArrives
  BY <1>11 DEF SocketCloseArrives, IsClosed
<1>12. CASE PrepareReconnect
  BY <1>12 DEF PrepareReconnect
<1>13. CASE DelayEnds
  BY <1>13 DEF DelayEnds
<1>14. CASE HealthRead
  BY <1>14 DEF HealthRead, Fault
<1>15. CASE HealthArrives
  BY <1>15 DEF HealthArrives
<1>16. CASE PreparationEnds
  BY <1>16 DEF PreparationEnds
<1>17. CASE \E p \in probes : ProbeAnswers(p)
  BY <1>17 DEF ProbeAnswers
<1>18. CASE \E p \in Payload : ClientReplacesSession(p)
  BY <1>18 DEF ClientReplacesSession
<1>19. CASE \E d \in Daemon : DaemonLaunched(d)
  BY <1>19 DEF DaemonLaunched
<1> QED
  BY <1>1, <1>2, <1>3, <1>4, <1>5, <1>6, <1>7, <1>8, <1>9, <1>10, <1>11, <1>12, <1>13, <1>14,
     <1>15, <1>16, <1>17, <1>18, <1>19 DEF ProducerNext, AttemptProgress, ConnectionProgress

(* The refusal half, step by step.                                          *)
LEMMA RefusalStep ==
    ASSUME ProducerIInv, ProducerNext
    PROVE  RefusalPart'
<1> USE ProducerAssumption
<1> USE DEF ProducerIInv, StartupPart, StartupSound, RefusalPart, RefusalTypeOK, RefusalSettled,
            ProbesAskAboutBuilds, RefusalNoticed, Authorized, StillPreparing, IsClosed,
            startupVars, refusalVars, prepareVars, daemonSide
<1>1. CASE ClientStart
  BY <1>1 DEF ClientStart
<1>2. CASE ClientStop
  BY <1>2 DEF ClientStop
<1>3. CASE DaemonExits
  BY <1>3 DEF DaemonExits
<1>4. CASE AttemptFindsDaemon
  BY <1>4 DEF AttemptFindsDaemon, AttemptSettles, ConnectsOnce
<1>5. CASE CredentialsLoaded
  BY <1>5 DEF CredentialsLoaded, AttemptSettles, ConnectsOnce
<1>6. CASE AttemptFindsNoDaemon
  BY <1>6 DEF AttemptFindsNoDaemon, AttemptFails
<1>7. CASE AttemptThrows
  BY <1>7 DEF AttemptThrows, AttemptFails
<1>8. CASE RetryFires
  BY <1>8 DEF RetryFires
<1>9. CASE HelloAccepted
  BY <1>9 DEF HelloAccepted
<1>10. CASE SocketEnds
  BY <1>10 DEF SocketEnds, Close, ClosedSocket, StartupTypeOK
<1>11. CASE SocketCloseArrives
  <2>2. CASE RefusedClose
    <3>1. Unreferenced # {}
      BY <1>11, <2>2 DEF SocketCloseArrives, RefusedClose
    <3>2. /\ NewRefusal \in Refusal
          /\ \A p \in probes : p.refusal # NewRefusal
      BY <3>1 DEF NewRefusal, Unreferenced
    <3>3. /\ connection' = "timer" /\ closing' = StaysOpen
          /\ refusal' = NewRefusal /\ notice' = "upgrade"
          /\ refusals' = [refusals EXCEPT ![NewRefusal] =
                 [kind |-> "build-skew", fingerprint |-> metadata, buildKnown |-> FALSE,
                  by |-> closing.by, of |-> closing.of]]
          /\ probes' = probes \cup {[refusal |-> NewRefusal, fresh |-> TRUE]}
          /\ UNCHANGED <<startupVars, prepareVars>>
      BY <1>11, <2>2 DEF SocketCloseArrives, RefusedClose
    <3>4. closing \in ClosedSocket
      BY <1>11 DEF SocketCloseArrives
    <3>5. RefusalTypeOK'
      <4>1. refusals' \in [Refusal -> RefusalObject]
        BY <3>2, <3>3, <3>4 DEF StartupTypeOK, RefusalObject, ClosedSocket
      <4>2. [refusal |-> NewRefusal, fresh |-> TRUE] \in [refusal : Refusal, fresh : BOOLEAN]
        BY <3>2
      <4>3. probes \subseteq [refusal : Refusal, fresh : BOOLEAN]
        OBVIOUS
      <4>4. probes' \subseteq [refusal : Refusal, fresh : BOOLEAN]
        BY ONLY <3>3, <4>2, <4>3
      <4> QED
        BY <3>2, <3>3, <4>1, <4>4
    <3> QED
      BY <3>2, <3>3, <3>5
  <2>3. CASE RejectedClose
    <3>1. /\ NewRefusal \in Refusal
          /\ \A p \in probes : p.refusal # NewRefusal
      BY <1>11, <2>3 DEF SocketCloseArrives, RejectedClose, NewRefusal, Unreferenced
    <3>2. /\ connection' = "timer" /\ closing' = StaysOpen
          /\ refusal' = NewRefusal /\ notice' = "rejected"
          /\ refusals' = [refusals EXCEPT ![NewRefusal] =
                 [kind |-> "payload", fingerprint |-> metadata, buildKnown |-> FALSE,
                  by |-> closing.by, of |-> closing.of]]
          /\ UNCHANGED <<startupVars, prepareVars, probes>>
      BY <1>11, <2>3 DEF SocketCloseArrives, RejectedClose
    <3>3. closing \in ClosedSocket
      BY <1>11 DEF SocketCloseArrives
    <3>4. RefusalTypeOK'
      BY <3>1, <3>2, <3>3 DEF StartupTypeOK, RefusalObject, ClosedSocket
    <3> QED
      BY <3>1, <3>2, <3>4
  <2>4. CASE closing.reason = "lost" /\ UNCHANGED <<refusalVars, notice, probes>>
    BY <1>11, <2>4 DEF SocketCloseArrives
  <2> QED
    BY <1>11, <2>2, <2>3, <2>4 DEF SocketCloseArrives
<1>12. CASE PrepareReconnect
  BY <1>12 DEF PrepareReconnect
<1>13. CASE DelayEnds
  BY <1>13 DEF DelayEnds
<1>14. CASE HealthRead
  BY <1>14 DEF HealthRead
<1>15. CASE HealthArrives
  BY <1>15 DEF HealthArrives
<1>16. CASE PreparationEnds
  BY <1>16 DEF PreparationEnds
<1>17. CASE \E p \in probes : ProbeAnswers(p)
  <2>1. PICK p \in probes : ProbeAnswers(p)
    BY <1>17
  <2>2. p.refusal \in Refusal /\ refusals[p.refusal].kind = "build-skew"
    OBVIOUS
  <2>3. CASE ProbeCounts(p)
    <3> DEFINE known == running # NoDaemon
    <3>1. /\ refusal = p.refusal
          /\ refusals' = [refusals EXCEPT ![p.refusal].buildKnown = known]
          /\ notice' \in {"upgrade", "client-newer", "client-older"}
          /\ probes' \subseteq probes
          /\ UNCHANGED <<startupVars, connection, closing, refusal, prepareVars>>
      BY <2>1, <2>3 DEF ProbeAnswers, ProbeCounts, StartupTypeOK
    <3>2. /\ refusals' \in [Refusal -> RefusalObject]
          /\ \A w \in Refusal : refusals'[w].kind = refusals[w].kind
      BY <2>2, <3>1 DEF RefusalObject
    <3>3. RefusalTypeOK' /\ ProbesAskAboutBuilds'
      BY <2>2, <3>1, <3>2
    <3> QED
      BY <2>2, <3>1, <3>2, <3>3
  <2>4. CASE ~ProbeCounts(p)
    BY <2>1, <2>4 DEF ProbeAnswers
  <2> QED
    BY <2>3, <2>4
<1>18. CASE \E p \in Payload : ClientReplacesSession(p)
  BY <1>18 DEF ClientReplacesSession
<1>19. CASE \E d \in Daemon : DaemonLaunched(d)
  BY <1>19 DEF DaemonLaunched
<1> QED
  BY <1>1, <1>2, <1>3, <1>4, <1>5, <1>6, <1>7, <1>8, <1>9, <1>10, <1>11, <1>12, <1>13, <1>14,
     <1>15, <1>16, <1>17, <1>18, <1>19 DEF ProducerNext, AttemptProgress, ConnectionProgress

(* However start, stop, replaced sessions, refusals and late answers        *)
(* overlap: there is one retry and the state holds it, a stopped client has *)
(* no connection, and the notice on screen is about what is so, for any     *)
(* number of daemons, payloads and refusals (scheduleRetry, stop,           *)
(* handleClose).                                                            *)
THEOREM WindowSafe == ProducerSpec => []WindowSound
<1>1. ProducerInit => ProducerIInv
  BY StartupInit
<1>2. ProducerIInv /\ [ProducerNext]_producerVars => ProducerIInv'
  <2> SUFFICES ASSUME ProducerIInv, UNCHANGED producerVars PROVE ProducerIInv'
    BY StartupStep, RefusalStep DEF ProducerIInv
  <2> USE DEF producerVars, startupVars, refusalVars, prepareVars, daemonSide
  <2>1. StartupPart'
    BY DEF ProducerIInv, StartupPart, StartupTypeOK, RetryOwned, StartupSound
  <2>2. RefusalPart'
    BY DEF ProducerIInv, RefusalPart, RefusalTypeOK, RefusalSettled, ProbesAskAboutBuilds,
           RefusalNoticed, IsClosed
  <2> QED
    BY <2>1, <2>2 DEF ProducerIInv
<1>3. ProducerIInv => WindowSound
  BY DEF ProducerIInv, StartupPart, RefusalPart, WindowSound
<1> QED
  BY <1>1, <1>2, <1>3, PTL DEF ProducerSpec

-----------------------------------------------------------------------------
(***************************************************************************)
(* The highlight worker's client and the worker's cache.                   *)
(***************************************************************************)

(* What a request's promise may be.                                         *)
Promise == {"unasked", "pending", "resolved", "rejected"}

(* A queue without repetitions in which no render request waits behind a    *)
(* preload, and with nobody in it who was aborted.                          *)
InLine(q) ==
    /\ q \in Seq(HRequest)
    /\ \A i, j \in 1..Len(q) : q[i] = q[j] => i = j
    /\ \A i, j \in 1..Len(q) : i < j /\ q[i] \in Preload => q[j] \in Preload
    /\ \A i \in 1..Len(q) : q[i] \notin aborted

(* Exactly these requests are pending, and an aborted one was told.         *)
PendingAre(promises, requests) ==
    /\ promises \in [HRequest -> Promise]
    /\ \A r \in HRequest : promises[r] = "pending" <=> r \in requests \ aborted
    /\ \A r \in aborted : promises[r] = "rejected"

(* The queue, the request in front of it and what callers were told.        *)
LinePart ==
    /\ aborted \subseteq HRequest
    /\ activeRequest \in HRequest \cup {NoHRequest}
    /\ InLine(queuedRequests)
    /\ \A i \in 1..Len(queuedRequests) : queuedRequests[i] # activeRequest
    /\ activeRequest = NoHRequest => queuedRequests = <<>>
    /\ PendingAre(settled, ToSet(queuedRequests) \cup {activeRequest})

(* A worker's cache: no key twice, its size exact and within both limits.   *)
ResultCacheOK(keys, bytes) ==
    /\ keys \in Seq(DOMAIN ResultBytes)
    /\ bytes = SizeOf(keys)
    /\ bytes <= maxCacheBytes
    /\ Len(keys) <= maxCacheEntries
    /\ \A i, j \in 1..Len(keys) : keys[i] = keys[j] => i = j

(* Every worker, those that were given up included.                         *)
WorkerPart ==
    /\ posted \in [HWorker -> HRequest \cup {NoHRequest}]
    /\ DOMAIN cached = HWorker /\ DOMAIN cachedBytes = HWorker
    /\ cached = [w \in HWorker |-> cached[w]] /\ cachedBytes = [w \in HWorker |-> cachedBytes[w]]
    /\ \A w \in HWorker : ResultCacheOK(cached[w], cachedBytes[w])

(* The inductive invariant.                                                 *)
HighlightIInv == LinePart /\ WorkerPart

-----------------------------------------------------------------------------
(* The queue.                                                               *)

(* The queue without its head.                                              *)
LEMMA TailInLine ==
    ASSUME NEW q, InLine(q), q # <<>>
    PROVE  /\ InLine(Tail(q)) /\ Head(q) \in HRequest /\ Head(q) \notin aborted
           /\ \A i \in 1..Len(Tail(q)) : Tail(q)[i] # Head(q)
           /\ ToSet(q) = ToSet(Tail(q)) \cup {Head(q)}
<1>1. q \in Seq(HRequest) /\ Len(q) \in Nat /\ DOMAIN q = 1..Len(q)
  BY LenProperties DEF InLine
<1>2. Len(q) >= 1 /\ Head(q) = q[1]
  BY <1>1
<1> DEFINE t == Tail(q)
<1>3. t \in Seq(HRequest) /\ Len(t) = Len(q) - 1 /\ \A i \in 1..Len(t) : t[i] = q[i + 1]
  BY <1>1, <1>2
<1>4. DOMAIN t = 1..Len(t)
  BY <1>3
<1> HIDE DEF t
<1>5. \A i \in 1..Len(t) : i + 1 \in 1..Len(q) /\ i \in Int
  BY <1>1, <1>3
<1>6. \A i, j \in 1..Len(t) : t[i] = t[j] => i = j
  <2> SUFFICES ASSUME NEW i \in 1..Len(t), NEW j \in 1..Len(t), t[i] = t[j] PROVE i = j
    OBVIOUS
  <2>1. i + 1 = j + 1
    BY <1>3, <1>5 DEF InLine
  <2> QED
    BY <1>5, <2>1
<1>7. \A i, j \in 1..Len(t) : i < j /\ t[i] \in Preload => t[j] \in Preload
  <2> SUFFICES ASSUME NEW i \in 1..Len(t), NEW j \in 1..Len(t), i < j, t[i] \in Preload
               PROVE  t[j] \in Preload
    OBVIOUS
  <2>1. i + 1 < j + 1
    BY <1>5
  <2> QED
    BY <1>3, <1>5, <2>1 DEF InLine
<1>8. InLine(t)
  BY <1>3, <1>5, <1>6, <1>7 DEF InLine
<1>9. \A i \in 1..Len(t) : t[i] # q[1]
  <2> SUFFICES ASSUME NEW i \in 1..Len(t), t[i] = q[1] PROVE FALSE
    OBVIOUS
  <2>1. i + 1 = 1
    BY <1>1, <1>2, <1>3, <1>5 DEF InLine
  <2> QED
    BY <1>5, <1>3, <2>1
<1>10. ToSet(q) = ToSet(t) \cup {q[1]}
  <2>1. \A k \in 1..Len(q) : k = 1 \/ (k - 1 \in 1..Len(t) /\ (k - 1) + 1 = k)
    BY <1>1, <1>3
  <2>2. \A k \in 1..Len(q) : k = 1 \/ q[k] = t[k - 1]
    BY <1>3, <2>1
  <2>3. 1 \in 1..Len(q)
    BY <1>1, <1>2
  <2>4. \A x : x \in ToSet(t) <=> \E i \in 1..Len(t) : t[i] = x
    BY <1>3, MembersOf DEF ToSet
  <2>5. \A x : x \in ToSet(q) <=> \E i \in 1..Len(q) : q[i] = x
    BY <1>1, MembersOf DEF ToSet
  <2>6. \A i \in 1..Len(t) : \E k \in 1..Len(q) : q[k] = t[i]
    BY <1>3, <1>5
  <2>7. \A k \in 1..Len(q) : q[k] = q[1] \/ \E i \in 1..Len(t) : t[i] = q[k]
    BY <2>1, <2>2
  <2>8. \A x : x \in ToSet(q) <=> x \in ToSet(t) \cup {q[1]}
    BY <2>3, <2>4, <2>5, <2>6, <2>7
  <2> QED
    BY <2>8
<1> QED
  BY <1>1, <1>2, <1>8, <1>9, <1>10 DEF t, InLine

(* A render request is inserted ahead of every waiting preload.             *)
LEMMA InsertedInLine ==
    ASSUME InLine(queuedRequests), NEW r \in HRequest, r \notin aborted,
           \A i \in 1..Len(queuedRequests) : queuedRequests[i] # r
    PROVE  InLine(Inserted(r)) /\ ToSet(Inserted(r)) = ToSet(queuedRequests) \cup {r}
<1> DEFINE q == queuedRequests
           I == {i \in 1..Len(q) : q[i] \in Preload}
<1>1. q \in Seq(HRequest) /\ Len(q) \in Nat /\ DOMAIN q = 1..Len(q)
  BY LenProperties DEF InLine
<1>2. ASSUME r \in Preload \/ I = {}, Inserted(r) = Append(q, r)
      PROVE  InLine(Inserted(r)) /\ ToSet(Inserted(r)) = ToSet(q) \cup {r}
  <2> DEFINE p == Append(q, r)
  <2>1. /\ p \in Seq(HRequest) /\ Len(p) = Len(q) + 1 /\ p[Len(q) + 1] = r
        /\ \A i \in 1..Len(q) : p[i] = q[i]
        /\ DOMAIN p = 1..Len(p)
    BY <1>1
  <2> HIDE DEF p
  <2>2. \A i \in 1..Len(p) : i \in 1..Len(q) \/ i = Len(q) + 1
    BY <1>1, <2>1
  <2>3. InLine(p)
    BY <1>1, <1>2, <2>1, <2>2 DEF InLine
  <2>4. ToSet(p) = ToSet(q) \cup {r}
    <3>1. Len(q) + 1 \in 1..Len(p) /\ \A i \in 1..Len(q) : i \in 1..Len(p)
      BY <1>1, <2>1
    <3> QED
      BY <1>1, <2>1, <2>2, <3>1 DEF ToSet
  <2> QED
    BY <1>2, <2>3, <2>4 DEF p
<1>3. CASE I = {}
  <2>1. Inserted(r) = Append(q, r)
    BY <1>3 DEF Inserted, SelectInSeq
  <2> QED
    BY <1>2, <1>3, <2>1
<1>4. CASE I # {}
  <2> DEFINE k == Min(I)
  <2>7. I \in SUBSET Nat
    OBVIOUS
  <2>8. \A J \in SUBSET Nat : J # {} => \E i \in J : \A j \in J : i <= j
    BY LeastNat
  <2> HIDE DEF I
  <2>1. \E i \in I : \A j \in I : i <= j
    BY <1>4, <2>7, <2>8
  <2> USE DEF I
  <2>2. k \in I /\ \A j \in I : k <= j
    BY <2>1 DEF Min
  <2> HIDE DEF k
  <2>3. Inserted(r) = IF r \in Preload \/ k = 0 THEN Append(q, r) ELSE InsertAt(q, k, r)
    BY <1>4 DEF Inserted, SelectInSeq, k
  <2>4. k \in 1..Len(q) /\ k # 0 /\ q[k] \in Preload
    BY <1>1, <2>2
  <2>5. CASE r \in Preload
    BY <1>2, <2>3, <2>5
  <2>6. CASE r \notin Preload
    <3> DEFINE a == SubSeq(q, 1, k - 1)
               b == SubSeq(q, k, Len(q))
               p == a \o <<r>> \o b
    <3>1. Inserted(r) = p
      BY <2>3, <2>4, <2>6 DEF InsertAt
    <3>2. a \in Seq(HRequest) /\ Len(a) = k - 1 /\ \A i \in 1..(k - 1) : a[i] = q[i]
      BY <1>1, <2>4, SubSeqProperties
    <3>3. /\ b \in Seq(HRequest) /\ Len(b) = Len(q) - k + 1
          /\ \A i \in 1..(Len(q) - k + 1) : b[i] = q[k + i - 1]
      BY <1>1, <2>4, SubSeqProperties
    <3> HIDE DEF a, b
    <3> DEFINE c == <<r>>
               d == a \o c
    <3>16. c \in Seq(HRequest) /\ Len(c) = 1 /\ c[1] = r
      OBVIOUS
    <3> HIDE DEF c
    <3>17. /\ d \in Seq(HRequest) /\ Len(d) = Len(a) + Len(c)
           /\ \A i \in 1..(Len(a) + Len(c)) : d[i] = IF i <= Len(a) THEN a[i] ELSE c[i - Len(a)]
      BY ONLY <3>2, <3>16, ConcatProperties, Zenon DEF d
    <3> HIDE DEF d
    <3>18. /\ p \in Seq(HRequest) /\ Len(p) = Len(d) + Len(b)
           /\ \A i \in 1..(Len(d) + Len(b)) : p[i] = IF i <= Len(d) THEN d[i] ELSE b[i - Len(d)]
      <4>1. p = d \o b
        BY DEF c, d
      <4> DEFINE e == d \o b
      <4>2. /\ e \in Seq(HRequest) /\ Len(e) = Len(d) + Len(b)
            /\ \A i \in 1..(Len(d) + Len(b)) :
                  e[i] = IF i <= Len(d) THEN d[i] ELSE b[i - Len(d)]
        <5>1. d \in Seq(HRequest) /\ b \in Seq(HRequest)
          BY <3>3, <3>17
        <5> QED
          BY ONLY <5>1, ConcatProperties, Zenon DEF e
      <4>3. p = e
        BY <4>1
      <4> HIDE DEF p, e
      <4> QED
        BY ONLY <4>2, <4>3, Zenon
    <3> HIDE DEF p
    <3>4. p \in Seq(HRequest) /\ Len(p) = Len(q) + 1 /\ Len(d) = k
      BY <1>1, <2>4, <3>2, <3>3, <3>16, <3>17, <3>18
    <3>5. ASSUME NEW i \in 1..Len(p)
          PROVE  p[i] = IF i < k THEN q[i] ELSE IF i = k THEN r ELSE q[i - 1]
      <4>1. k \in Int /\ i \in Int /\ 1 <= i /\ i <= Len(q) + 1 /\ 1 <= k /\ k <= Len(q)
        BY <1>1, <2>4, <3>4
      <4>2. p[i] = IF i <= k THEN d[i] ELSE b[i - k]
        BY <1>1, <3>4, <3>18, <4>1
      <4>3. CASE i < k
        <5>1. i \in 1..(k - 1) /\ i \in 1..(Len(a) + Len(c)) /\ i <= Len(a)
          BY <3>2, <3>16, <4>1, <4>3
        <5> QED
          BY <3>2, <3>17, <4>1, <4>2, <4>3, <5>1
      <4>4. CASE i = k
        <5>1. i \in 1..(Len(a) + Len(c)) /\ ~(i <= Len(a)) /\ i - Len(a) = 1
          BY <3>2, <3>16, <4>1, <4>4
        <5> QED
          BY <3>16, <3>17, <4>1, <4>2, <4>4, <5>1
      <4>5. CASE i > k
        <5>1. i - k \in 1..(Len(q) - k + 1) /\ k + (i - k) - 1 = i - 1
          BY <1>1, <4>1, <4>5
        <5>2. b[i - k] = q[i - 1]
          BY <3>3, <5>1
        <5> QED
          BY <4>1, <4>2, <4>5, <5>2
      <4> QED
        BY <4>1, <4>3, <4>4, <4>5
    <3>7. \A i \in 1..Len(p) : /\ i < k => i \in 1..Len(q)
                               /\ i > k => i - 1 \in 1..Len(q) /\ i - 1 >= k
                               /\ i \in Int
      BY <1>1, <2>4, <3>4
    <3>8. k \in Int
      BY <2>4
    <3>9. \A i \in 1..Len(q) : i < k => q[i] \notin Preload
      BY <1>1, <2>2, <3>8
    <3>10. \A i \in 1..Len(q) : i >= k => q[i] \in Preload
      <4> SUFFICES ASSUME NEW i \in 1..Len(q), i > k PROVE q[i] \in Preload
        BY <1>1, <2>4
      <4> QED
        BY <2>4 DEF InLine
    <3>11. ASSUME NEW i \in 1..Len(p), NEW j \in 1..Len(p), p[i] = p[j] PROVE i = j
      <4>1. q \in Seq(HRequest) /\ \A x, y \in 1..Len(q) : q[x] = q[y] => x = y
        BY DEF InLine
      <4>2. \A x \in 1..Len(q) : q[x] # r
        OBVIOUS
      <4> HIDE DEF q
      <4>3. i = k <=> j = k
        BY <3>5, <3>7, <3>8, <3>11, <4>2
      <4>4. ASSUME i < k, j > k PROVE FALSE
        <5>1. q[i] = q[j - 1] /\ i \in 1..Len(q) /\ j - 1 \in 1..Len(q) /\ j - 1 >= k
          BY <3>5, <3>7, <3>8, <3>11, <4>4
        <5>2. i = j - 1
          BY <4>1, <5>1
        <5> QED
          BY <3>7, <3>8, <4>4, <5>1, <5>2
      <4>5. ASSUME j < k, i > k PROVE FALSE
        <5>1. q[j] = q[i - 1] /\ j \in 1..Len(q) /\ i - 1 \in 1..Len(q) /\ i - 1 >= k
          BY <3>5, <3>7, <3>8, <3>11, <4>5
        <5>2. j = i - 1
          BY <4>1, <5>1
        <5> QED
          BY <3>7, <3>8, <4>5, <5>1, <5>2
      <4>6. ASSUME i < k, j < k PROVE i = j
        BY <3>5, <3>7, <3>8, <3>11, <4>1, <4>6
      <4>7. ASSUME i > k, j > k PROVE i = j
        <5>1. q[i - 1] = q[j - 1] /\ i - 1 \in 1..Len(q) /\ j - 1 \in 1..Len(q)
          BY <3>5, <3>7, <3>8, <3>11, <4>7
        <5>2. i - 1 = j - 1
          BY <4>1, <5>1
        <5> QED
          BY <3>7, <5>2
      <4> QED
        BY <3>7, <3>8, <4>3, <4>4, <4>5, <4>6, <4>7
    <3>12. ASSUME NEW i \in 1..Len(p), NEW j \in 1..Len(p), i < j, p[i] \in Preload
           PROVE  p[j] \in Preload
      <4>1. i > k
        BY <2>6, <3>5, <3>7, <3>8, <3>9, <3>12
      <4>2. j > k /\ p[j] = q[j - 1] /\ j - 1 \in 1..Len(q) /\ j - 1 >= k
        BY <3>5, <3>7, <3>8, <3>12, <4>1
      <4> QED
        BY <3>10, <4>2
    <3>13. \A i \in 1..Len(p) : p[i] \notin aborted
      BY <3>5, <3>7, <3>8 DEF InLine
    <3>14. InLine(p)
      BY <3>4, <3>11, <3>12, <3>13 DEF InLine
    <3>15. ToSet(p) = ToSet(q) \cup {r}
      <4>1. k \in 1..Len(p) /\ p[k] = r
        BY <1>1, <2>4, <3>4, <3>5
      <4>2. ASSUME NEW i \in 1..Len(q) PROVE \E j \in 1..Len(p) : p[j] = q[i]
        <5>1. CASE i < k
          BY <1>1, <3>4, <3>5, <5>1
        <5>2. CASE i >= k
          <6>1. i + 1 \in 1..Len(p) /\ ~(i + 1 < k) /\ i + 1 # k /\ (i + 1) - 1 = i
            BY <1>1, <3>4, <3>8, <5>2
          <6>2. p[i + 1] = q[i]
            BY <3>5, <6>1
          <6> QED
            BY <6>1, <6>2
        <5> QED
          BY <1>1, <3>8, <5>1, <5>2
      <4>3. ASSUME NEW j \in 1..Len(p) PROVE p[j] = r \/ \E i \in 1..Len(q) : p[j] = q[i]
        BY <3>5, <3>7, <3>8
      <4>4. \A x : x \in ToSet(p) <=> \E i \in 1..Len(p) : p[i] = x
        BY <3>4, MembersOf DEF ToSet
      <4>5. \A x : x \in ToSet(q) <=> \E i \in 1..Len(q) : q[i] = x
        BY <1>1, MembersOf DEF ToSet
      <4> HIDE DEF q
      <4> QED
        BY <4>1, <4>2, <4>3, <4>4, <4>5
    <3> QED
      BY <3>1, <3>14, <3>15
  <2> QED
    BY <2>5, <2>6
<1> QED
  BY <1>3, <1>4

(* A request that is withdrawn leaves the queue in order.                   *)
LEMMA WithdrawnInLine ==
    ASSUME InLine(queuedRequests), NEW r \in HRequest
    PROVE  LET p == Filtered(queuedRequests, HRequest \ {r})
           IN  /\ InLine(p)
               /\ \A i \in 1..Len(p) : p[i] # r
               /\ ToSet(p) = ToSet(queuedRequests) \ {r}
               /\ queuedRequests = <<>> => p = <<>>
<1> DEFINE q == queuedRequests
           S == HRequest \ {r}
           p == Filtered(q, S)
<1>1. q \in Seq(HRequest) /\ Len(q) \in Nat /\ DOMAIN q = 1..Len(q)
      /\ \A i \in 1..Len(q) : q[i] \in HRequest
  BY LenProperties DEF InLine
<1>2. p \in Seq(HRequest) /\ Picture(q, S, Len(q), p)
  BY <1>1, FilteredPicture
<1>3. PICK h \in [1..Len(p) -> 1..Len(q)] :
          /\ \A i \in 1..Len(p) : p[i] = q[h[i]] /\ q[h[i]] \in S
          /\ \A i, j \in 1..Len(p) : i < j => h[i] < h[j]
          /\ \A k \in 1..Len(q) : q[k] \in S => \E i \in 1..Len(p) : h[i] = k
  BY <1>2 DEF Picture
<1>4. Len(p) \in Nat /\ DOMAIN p = 1..Len(p)
  BY <1>2, LenProperties
<1>5. q = <<>> => p = <<>>
  BY <1>2, <1>4, EmptySeq DEF Picture
<1> HIDE DEF p
<1>6. \A i \in 1..Len(p) : h[i] \in 1..Len(q) /\ i \in Int /\ h[i] \in Int
  BY <1>1, <1>4
<1>7. ASSUME NEW i \in 1..Len(p), NEW j \in 1..Len(p), p[i] = p[j] PROVE i = j
  <2>1. h[i] = h[j]
    BY <1>3, <1>6, <1>7 DEF InLine
  <2>2. ~(i < j) /\ ~(j < i)
    BY <1>3, <1>6, <2>1
  <2> QED
    BY <1>6, <2>2
<1>8. \A i, j \in 1..Len(p) : i < j /\ p[i] \in Preload => p[j] \in Preload
  BY <1>3, <1>6 DEF InLine
<1>9. \A i \in 1..Len(p) : p[i] \notin aborted /\ p[i] # r
  BY <1>3, <1>6 DEF InLine
<1>10. InLine(p)
  BY <1>2, <1>7, <1>8, <1>9 DEF InLine
<1>11. ToSet(p) = ToSet(q) \ {r}
  <2>1. \A i \in 1..Len(p) : \E k \in 1..Len(q) : p[i] = q[k] /\ p[i] # r
    BY <1>3, <1>6
  <2>2. \A k \in 1..Len(q) : q[k] # r => \E i \in 1..Len(p) : p[i] = q[k]
    BY <1>1, <1>3
  <2>3. \A x : x \in ToSet(p) <=> \E i \in 1..Len(p) : p[i] = x
    BY <1>2, MembersOf DEF ToSet
  <2>4. \A x : x \in ToSet(q) <=> \E i \in 1..Len(q) : q[i] = x
    BY <1>1, MembersOf DEF ToSet
  <2> HIDE DEF q
  <2> QED
    BY <2>1, <2>2, <2>3, <2>4
<1> QED
  BY <1>5, <1>9, <1>10, <1>11 DEF p

-----------------------------------------------------------------------------
(* The line of requests is kept.                                            *)

(* Nothing active, nothing queued and nothing pending is in order.          *)
LEMMA EmptyLine ==
    ASSUME LinePart, queuedRequests' = <<>>, activeRequest' = NoHRequest, aborted' = aborted,
           settled' \in [HRequest -> Promise],
           \A r \in HRequest : settled'[r] # "pending",
           \A r \in aborted : settled'[r] = "rejected"
    PROVE  LinePart'
<1>1. InLine(queuedRequests)'
  BY EmptySeq DEF InLine
<1>2. \A r \in HRequest : r \notin ToSet(<<>>) \cup {NoHRequest}
  BY HighlightAssumption DEF ToSet
<1>3. PendingAre(settled, ToSet(queuedRequests) \cup {activeRequest})'
  BY <1>2 DEF PendingAre
<1>4. \A i \in 1..Len(queuedRequests') : queuedRequests'[i] # activeRequest'
  OBVIOUS
<1> QED
  BY <1>1, <1>3, <1>4 DEF LinePart

(* Failing everything that is pending leaves nothing pending.               *)
LEMMA ResetKeeps ==
    ASSUME LinePart, NEW pending, NEW promises,
           PendingAre(promises, pending), ResetWorker(pending, promises), aborted' = aborted
    PROVE  LinePart'
<1>1. settled' = [r \in HRequest |-> IF r \in pending \ aborted THEN "rejected" ELSE promises[r]]
      /\ queuedRequests' = <<>> /\ activeRequest' = NoHRequest
  BY DEF ResetWorker
<1>2. aborted \subseteq HRequest
  BY DEF LinePart
<1>3. /\ settled' \in [HRequest -> Promise]
      /\ \A r \in HRequest : settled'[r] # "pending"
      /\ \A r \in aborted : settled'[r] = "rejected"
  BY <1>1, <1>2 DEF PendingAre, Promise
<1> QED
  BY <1>1, <1>3, EmptyLine

(* Taking the next request from a queue in order leaves the line in order.  *)
LEMMA RunNextKeeps ==
    ASSUME LinePart, NEW queue, NEW promises, InLine(queue),
           PendingAre(promises, ToSet(queue)), RunNextRequest(queue, promises),
           aborted' = aborted
    PROVE  LinePart'
<1>1. CASE queue = <<>> /\ activeRequest' = NoHRequest /\ queuedRequests' = <<>>
           /\ settled' = promises
  <2>1. ToSet(queue) = {}
    BY <1>1 DEF ToSet
  <2>2. /\ promises \in [HRequest -> Promise]
        /\ \A r \in HRequest : promises[r] # "pending"
        /\ \A r \in aborted : promises[r] = "rejected"
    BY <2>1 DEF PendingAre
  <2> QED
    BY <1>1, <2>2, EmptyLine
<1>2. CASE queue # <<>> /\ activeRequest' = Head(queue) /\ queuedRequests' = Tail(queue)
           /\ settled' = promises
  <2>1. /\ InLine(Tail(queue)) /\ Head(queue) \in HRequest
        /\ \A i \in 1..Len(Tail(queue)) : Tail(queue)[i] # Head(queue)
        /\ ToSet(queue) = ToSet(Tail(queue)) \cup {Head(queue)}
    BY <1>2, TailInLine
  <2>2. InLine(queuedRequests)'
    BY <1>2, <2>1 DEF InLine
  <2>3. PendingAre(settled, ToSet(queuedRequests) \cup {activeRequest})'
    BY <1>2, <2>1 DEF PendingAre
  <2>4. activeRequest' # NoHRequest
    BY <1>2, <2>1, HighlightAssumption
  <2> QED
    BY <1>2, <2>1, <2>2, <2>3, <2>4 DEF LinePart
<1>3. CASE ResetWorker(ToSet(queue), promises)
  BY <1>3, ResetKeeps
<1> QED
  BY <1>1, <1>2, <1>3 DEF RunNextRequest

(* Who waits, as a set of requests.                                         *)
LEMMA WaitingInLine ==
    ASSUME LinePart
    PROVE  /\ ToSet(queuedRequests) \subseteq HRequest \ aborted
           /\ activeRequest \notin ToSet(queuedRequests)
           /\ \A i \in 1..Len(queuedRequests) : queuedRequests[i] \in ToSet(queuedRequests)
<1>1. queuedRequests \in Seq(HRequest)
      /\ \A i \in 1..Len(queuedRequests) :
            queuedRequests[i] \notin aborted /\ queuedRequests[i] # activeRequest
  BY DEF LinePart, InLine
<1>2. \A x : x \in ToSet(queuedRequests) <=> \E i \in 1..Len(queuedRequests) : queuedRequests[i] = x
  BY <1>1, MembersOf DEF ToSet
<1>3. \A i \in 1..Len(queuedRequests) : queuedRequests[i] \in HRequest
  BY <1>1
<1> QED
  BY <1>1, <1>2, <1>3

(* A new request joins the line.                                            *)
LEMMA EnqueueKeeps ==
    ASSUME LinePart, NEW r \in HRequest, EnqueueHighlightRequest(r)
    PROVE  LinePart'
<1> DEFINE promises == [settled EXCEPT ![r] = "pending"]
           queue == Inserted(r)
<1>1. /\ PendingAre(settled, ToSet(queuedRequests) \cup {activeRequest})
      /\ InLine(queuedRequests) /\ aborted \subseteq HRequest
      /\ activeRequest \in HRequest \cup {NoHRequest}
      /\ NoHRequest \notin HRequest
  BY HighlightAssumption DEF LinePart
<1>2. settled[r] = "unasked" /\ aborted' = aborted
  BY DEF EnqueueHighlightRequest
<1>3. r \notin aborted /\ r \notin ToSet(queuedRequests) /\ r # activeRequest
  BY <1>1, <1>2 DEF PendingAre
<1>4. \A i \in 1..Len(queuedRequests) : queuedRequests[i] # r
  BY <1>3, WaitingInLine
<1>5. InLine(queue) /\ ToSet(queue) = ToSet(queuedRequests) \cup {r}
  BY <1>1, <1>3, <1>4, InsertedInLine
<1>6. PendingAre(promises, ToSet(queue) \cup {activeRequest})
  <2>1. promises \in [HRequest -> Promise]
    BY <1>1 DEF PendingAre, Promise
  <2>2. promises[r] = "pending" /\ \A s \in HRequest : s # r => promises[s] = settled[s]
    BY <1>1 DEF PendingAre
  <2> HIDE DEF promises, queue
  <2> QED
    BY <1>1, <1>3, <1>5, <2>1, <2>2 DEF PendingAre
<1> HIDE DEF queue, promises
<1>7. CASE activeRequest # NoHRequest
  <2>1. queuedRequests' = queue /\ settled' = promises /\ activeRequest' = activeRequest
    BY <1>7 DEF EnqueueHighlightRequest, queue, promises
  <2>2. \A x : x \in ToSet(queue) <=> \E i \in 1..Len(queue) : queue[i] = x
    BY <1>5, MembersOf DEF InLine, ToSet
  <2>3. activeRequest \notin ToSet(queue)
    BY <1>3, <1>5, WaitingInLine
  <2>4. \A i \in 1..Len(queue) : queue[i] # activeRequest
    BY <2>2, <2>3
  <2>5. InLine(queuedRequests)'
    BY <1>2, <1>5, <2>1 DEF InLine
  <2>6. PendingAre(settled, ToSet(queuedRequests) \cup {activeRequest})'
    BY <1>2, <1>6, <2>1 DEF PendingAre
  <2> QED
    BY <1>1, <1>2, <1>7, <2>1, <2>4, <2>5, <2>6 DEF LinePart
<1>8. CASE activeRequest = NoHRequest
  <2>1. RunNextRequest(queue, promises)
    BY <1>8 DEF EnqueueHighlightRequest, queue, promises
  <2>2. PendingAre(promises, ToSet(queue))
    BY <1>1, <1>6, <1>8 DEF PendingAre
  <2> QED
    BY <1>2, <1>5, <2>1, <2>2, RunNextKeeps
<1> QED
  BY <1>7, <1>8

(* Whoever aborts is told, and leaves the queue unless its turn has come.   *)
LEMMA AbortKeeps ==
    ASSUME LinePart, NEW r \in HRequest, AbortedBeforehand(r) \/ Abort(r)
    PROVE  LinePart'
<1>1. /\ PendingAre(settled, ToSet(queuedRequests) \cup {activeRequest})
      /\ InLine(queuedRequests) /\ aborted \subseteq HRequest
      /\ activeRequest \in HRequest \cup {NoHRequest}
      /\ activeRequest = NoHRequest => queuedRequests = <<>>
  BY DEF LinePart
<1>2. settled' = [settled EXCEPT ![r] = "rejected"] /\ activeRequest' = activeRequest
  BY DEF AbortedBeforehand, Abort
<1>3. /\ settled' \in [HRequest -> Promise] /\ settled'[r] = "rejected"
      /\ \A s \in HRequest : s # r => settled'[s] = settled[s]
  BY <1>1, <1>2 DEF PendingAre, Promise
<1>4. CASE AbortedBeforehand(r)
  <2>1. settled[r] = "unasked" /\ queuedRequests' = queuedRequests /\ aborted' = aborted
    BY <1>4 DEF AbortedBeforehand
  <2>2. PendingAre(settled, ToSet(queuedRequests) \cup {activeRequest})'
    BY <1>1, <1>2, <1>3, <2>1 DEF PendingAre
  <2>3. InLine(queuedRequests)'
    BY <1>1, <2>1 DEF InLine
  <2> QED
    BY <1>2, <2>1, <2>2, <2>3 DEF LinePart
<1>5. CASE Abort(r)
  <2> DEFINE p == Filtered(queuedRequests, HRequest \ {r})
  <2>1. aborted' = aborted \cup {r} /\ queuedRequests' = p
    BY <1>5 DEF Abort
  <2>2. /\ InLine(p) /\ \A i \in 1..Len(p) : p[i] # r
        /\ ToSet(p) = ToSet(queuedRequests) \ {r}
        /\ queuedRequests = <<>> => p = <<>>
    BY <1>1, WithdrawnInLine
  <2> HIDE DEF p
  <2>3. InLine(queuedRequests)'
    BY <2>1, <2>2 DEF InLine
  <2>4. PendingAre(settled, ToSet(queuedRequests) \cup {activeRequest})'
    BY <1>1, <1>2, <1>3, <2>1, <2>2 DEF PendingAre
  <2>5. \A x : x \in ToSet(p) <=> \E i \in 1..Len(p) : p[i] = x
    BY <2>2, MembersOf DEF InLine, ToSet
  <2>6. \A i \in 1..Len(p) : p[i] # activeRequest
    BY <2>2, <2>5, WaitingInLine
  <2> QED
    BY <1>1, <1>2, <2>1, <2>2, <2>3, <2>4, <2>6 DEF LinePart
<1> QED
  BY <1>4, <1>5

(* A message that is heard ends one turn, or everything.                    *)
LEMMA MessageKeeps ==
    ASSUME LinePart, NEW w \in HWorker, WorkerMessage(w)
    PROVE  LinePart'
<1>1. /\ PendingAre(settled, ToSet(queuedRequests) \cup {activeRequest})
      /\ InLine(queuedRequests) /\ aborted \subseteq HRequest
  BY DEF LinePart
<1>2. CASE UNCHANGED clientVars
  BY <1>2 DEF LinePart, InLine, PendingAre, clientVars
<1>3. ASSUME NEW how \in {"resolved", "rejected"},
             RunNextRequest(queuedRequests, Settling({activeRequest}, how)),
             aborted' = aborted
      PROVE  LinePart'
  <2> DEFINE promises == Settling({activeRequest}, how)
  <2>1. \A r \in HRequest : promises[r] = IF r = activeRequest /\ r \notin aborted THEN how ELSE settled[r]
    BY DEF Settling
  <2>2. promises \in [HRequest -> Promise]
    BY <1>1 DEF Settling, PendingAre, Promise
  <2> HIDE DEF promises
  <2>3. PendingAre(promises, ToSet(queuedRequests))
    BY <1>1, <2>1, <2>2, WaitingInLine DEF PendingAre
  <2> QED
    BY <1>1, <1>3, <2>3, RunNextKeeps DEF promises
<1>4. CASE ResetWorker({activeRequest} \cup ToSet(queuedRequests), settled) /\ aborted' = aborted
  <2>1. {activeRequest} \cup ToSet(queuedRequests) = ToSet(queuedRequests) \cup {activeRequest}
    OBVIOUS
  <2> QED
    BY <1>1, <1>4, <2>1, ResetKeeps
<1> DEFINE answer == IF Head(replies[w]).body = "ok" THEN "resolved" ELSE "rejected"
<1>5. \/ UNCHANGED clientVars
      \/ RunNextRequest(queuedRequests, Settling({activeRequest}, answer)) /\ aborted' = aborted
      \/ ResetWorker({activeRequest} \cup ToSet(queuedRequests), settled) /\ aborted' = aborted
  BY DEF WorkerMessage
<1>6. answer \in {"resolved", "rejected"}
  OBVIOUS
<1> HIDE DEF answer
<1> QED
  BY <1>2, <1>3, <1>4, <1>5, <1>6

(* Every step keeps the line of requests.                                   *)
LEMMA LineStep ==
    ASSUME LinePart, [HighlightNext]_highlightVars
    PROVE  LinePart'
<1>1. /\ PendingAre(settled, ToSet(queuedRequests) \cup {activeRequest})
      /\ aborted \subseteq HRequest
  BY DEF LinePart
<1>2. ASSUME UNCHANGED clientVars PROVE LinePart'
  BY <1>2 DEF LinePart, InLine, PendingAre, clientVars
<1>3. ASSUME WorkerGivenUp PROVE LinePart'
  <2>1. ResetWorker(ToSet(queuedRequests) \cup {activeRequest}, settled) /\ aborted' = aborted
    <3>1. {activeRequest} \cup ToSet(queuedRequests) = ToSet(queuedRequests) \cup {activeRequest}
      OBVIOUS
    <3> QED
      BY <1>3, <3>1 DEF WorkerGivenUp
  <2> QED
    BY <1>1, <2>1, ResetKeeps
<1>4. ASSUME NEW w \in HWorker, RegisterHighlightWorker(w) PROVE LinePart'
  <2>1. /\ queuedRequests' = <<>> /\ activeRequest' = NoHRequest /\ aborted' = aborted
        /\ settled' = [r \in HRequest |->
              IF r \in ({activeRequest} \cup ToSet(queuedRequests)) \ aborted
              THEN "rejected" ELSE settled[r]]
    BY <1>4 DEF RegisterHighlightWorker, Settling
  <2>2. /\ settled' \in [HRequest -> Promise]
        /\ \A r \in HRequest : settled'[r] # "pending"
        /\ \A r \in aborted : settled'[r] = "rejected"
    BY <1>1, <2>1 DEF PendingAre, Promise
  <2> QED
    BY <2>1, <2>2, EmptyLine
<1>5. ASSUME NEW w \in HWorker, NEW id, NEW body, ProcessRequest(w, id, body) PROVE LinePart'
  BY <1>2, <1>5 DEF ProcessRequest
<1>6. ASSUME UNCHANGED highlightVars PROVE LinePart'
  BY <1>2, <1>6 DEF highlightVars
<1> QED
  BY <1>3, <1>4, <1>5, <1>6, MessageKeeps, EnqueueKeeps, AbortKeeps
     DEF HighlightNext, HighlightProgress

-----------------------------------------------------------------------------
(* The workers' caches.                                                     *)

(* A new worker's cache is empty.                                           *)
LEMMA EmptyCache == ResultCacheOK(<<>>, 0)
<1>1. SizeOf(<<>>) = 0
  BY WeightNone DEF SizeOf
<1>2. <<>> \in Seq(DOMAIN ResultBytes) /\ Len(<<>>) = 0
  OBVIOUS
<1> QED
  BY <1>1, <1>2, HighlightAssumption DEF ResultCacheOK

(* A result that was not found is stored; older ones make room for it.      *)
LEMMA CacheSetKeeps ==
    ASSUME NEW held, NEW bytes, ResultCacheOK(held, bytes), NEW k \in DOMAIN ResultBytes,
           k \notin ToSet(held), ResultBytes[k] <= maxCacheBytes
    PROVE  LET keys == Append(held, k)
               total == bytes + ResultBytes[k]
               n == Evicted(keys, total)
           IN  ResultCacheOK(SubSeq(keys, n + 1, Len(keys)), total - SizeOf(SubSeq(keys, 1, n)))
<1> DEFINE K == DOMAIN ResultBytes
           keys == Append(held, k)
           total == bytes + ResultBytes[k]
           N == Len(keys)
           over(i) == \/ total - SizeOf(SubSeq(keys, 1, i)) > maxCacheBytes
                      \/ Len(keys) - i > maxCacheEntries
           n == Evicted(keys, total)
           Enough == {i \in 0..N : ~over(i)}
<1>1. ResultBytes \in [K -> Nat] /\ maxCacheBytes \in Nat /\ maxCacheEntries \in Nat
  BY HighlightAssumption
<1>2. held \in Seq(K) /\ bytes = Weight(ResultBytes, held)
      /\ \A i, j \in 1..Len(held) : held[i] = held[j] => i = j
  BY DEF ResultCacheOK, SizeOf
<1>3. /\ keys \in Seq(K) /\ N = Len(held) + 1 /\ Len(held) \in Nat
      /\ \A i \in 1..Len(held) : keys[i] = held[i]
      /\ keys[N] = k
  BY <1>2
<1>4. total = Weight(ResultBytes, keys)
  BY <1>1, <1>2, WeightAppend
<1>5. \A x : x \in ToSet(held) <=> \E i \in 1..Len(held) : held[i] = x
  BY <1>2, MembersOf DEF ToSet
<1>6. \A i, j \in 1..N : keys[i] = keys[j] => i = j
  <2>1. \A i \in 1..Len(held) : held[i] # k
    BY <1>5
  <2>2. \A i \in 1..N : i \in 1..Len(held) \/ i = N
    BY <1>3
  <2> HIDE DEF keys, N
  <2> QED
    BY <1>2, <1>3, <2>1, <2>2
<1> HIDE DEF keys, total
<1>7. \A i \in 0..N : total = Weight(ResultBytes, SubSeq(keys, 1, i))
                               + Weight(ResultBytes, SubSeq(keys, i + 1, N))
  BY <1>1, <1>3, <1>4, WeightCut
<1>8. \A i \in 0..N : /\ SubSeq(keys, 1, i) \in Seq(K)
                      /\ SubSeq(keys, i + 1, N) \in Seq(K)
                      /\ Len(SubSeq(keys, i + 1, N)) = N - i
                      /\ \A j \in 1..(N - i) : SubSeq(keys, i + 1, N)[j] = keys[i + j]
  <2> SUFFICES ASSUME NEW i \in 0..N
               PROVE  /\ SubSeq(keys, 1, i) \in Seq(K)
                      /\ SubSeq(keys, i + 1, N) \in Seq(K)
                      /\ Len(SubSeq(keys, i + 1, N)) = N - i
                      /\ \A j \in 1..(N - i) : SubSeq(keys, i + 1, N)[j] = keys[i + j]
    OBVIOUS
  <2> QED
    BY <1>3, SubSeqProperties
<1>9. \A i \in 0..N : /\ Weight(ResultBytes, SubSeq(keys, 1, i)) \in Nat
                      /\ Weight(ResultBytes, SubSeq(keys, i + 1, N)) \in Nat
  BY <1>1, <1>8, WeightType
<1>10. N \in 0..N /\ ~over(N)
  <2>1. N \in 0..N /\ N \in Nat
    BY <1>3
  <2>2. SubSeq(keys, N + 1, N) = <<>>
    BY <1>3
  <2>3. Weight(ResultBytes, SubSeq(keys, N + 1, N)) = 0
    BY <2>2, WeightNone, Zenon
  <2> DEFINE all == Weight(ResultBytes, SubSeq(keys, 1, N))
  <2>4. total = all + 0 /\ all \in Nat
    BY <1>7, <1>9, <2>1, <2>3, Zenon
  <2>5. SizeOf(SubSeq(keys, 1, N)) = all
    BY DEF SizeOf
  <2> HIDE DEF all, N
  <2>6. total - SizeOf(SubSeq(keys, 1, N)) = 0 /\ N - N = 0
    BY <2>1, <2>4, <2>5
  <2> USE DEF N
  <2> QED
    BY <1>1, <2>1, <2>6
<1>11. Enough \in SUBSET Nat /\ Enough # {}
  BY <1>3, <1>10
<1>12. PICK least \in Enough : \A m \in Enough : least <= m
  BY <1>11, LeastNat
<1>13. \A j \in 0..(least - 1) : j \in 0..N /\ ~(least <= j)
  BY <1>3, <1>11, <1>12
<1>14. least \in 0..N /\ ~over(least) /\ \A j \in 0..(least - 1) : over(j)
  BY <1>12, <1>13
<1>15. n = CHOOSE i \in 0..N : ~over(i) /\ \A j \in 0..(i - 1) : over(j)
  BY DEF Evicted
<1>16. n \in 0..N /\ ~over(n)
  BY <1>14, <1>15
<1> HIDE DEF n
<1> DEFINE rest == SubSeq(keys, n + 1, N)
<1>17. /\ rest \in Seq(K) /\ Len(rest) = N - n
       /\ \A j \in 1..(N - n) : rest[j] = keys[n + j]
  BY <1>8, <1>16
<1>18. /\ Weight(ResultBytes, rest) = total - SizeOf(SubSeq(keys, 1, n))
       /\ Weight(ResultBytes, rest) <= maxCacheBytes
       /\ Len(rest) <= maxCacheEntries
  <2> DEFINE gone == Weight(ResultBytes, SubSeq(keys, 1, n))
             left == Weight(ResultBytes, rest)
  <2>1. total = gone + left /\ gone \in Nat /\ left \in Nat
    BY <1>7, <1>9, <1>16, Zenon
  <2>2. SizeOf(SubSeq(keys, 1, n)) = gone
    BY DEF SizeOf
  <2>3. ~(total - gone > maxCacheBytes) /\ ~(N - n > maxCacheEntries)
    BY <1>16, <2>2
  <2> HIDE DEF gone, left, N, rest
  <2>4. left = total - gone /\ left <= maxCacheBytes
    BY <1>1, <2>1, <2>3
  <2>5. Len(rest) <= maxCacheEntries
    BY <1>1, <1>3, <1>16, <1>17, <2>3
  <2> QED
    BY <2>2, <2>4, <2>5 DEF left
<1> HIDE DEF rest
<1>19. \A i, j \in 1..Len(rest) : rest[i] = rest[j] => i = j
  <2> SUFFICES ASSUME NEW i \in 1..Len(rest), NEW j \in 1..Len(rest), rest[i] = rest[j]
               PROVE  i = j
    OBVIOUS
  <2>1. n + i \in 1..N /\ n + j \in 1..N /\ i \in 1..(N - n) /\ j \in 1..(N - n)
    BY <1>3, <1>16, <1>17
  <2>2. n + i = n + j
    BY <1>6, <1>17, <2>1
  <2> QED
    BY <1>16, <2>1, <2>2
<1>20. ResultCacheOK(rest, total - SizeOf(SubSeq(keys, 1, n)))
  BY <1>17, <1>18, <1>19 DEF ResultCacheOK, SizeOf
<1> QED
  BY <1>20 DEF rest, n, keys, total

(* A result that was found becomes the most recently used.                  *)
LEMMA CacheGetKeeps ==
    ASSUME NEW held, NEW bytes, ResultCacheOK(held, bytes), NEW k \in ToSet(held)
    PROVE  ResultCacheOK(Append(Filtered(held, DOMAIN ResultBytes \ {k}), k), bytes)
<1> DEFINE K == DOMAIN ResultBytes
           S == K \ {k}
           p == Filtered(held, S)
           r == Append(p, k)
<1>1. ResultBytes \in [K -> Nat] /\ maxCacheBytes \in Nat /\ maxCacheEntries \in Nat
  BY HighlightAssumption
<1>2. /\ held \in Seq(K) /\ bytes = Weight(ResultBytes, held)
      /\ Len(held) <= maxCacheEntries /\ bytes <= maxCacheBytes
      /\ \A i, j \in 1..Len(held) : held[i] = held[j] => i = j
  BY DEF ResultCacheOK, SizeOf
<1>3. PICK at \in 1..Len(held) : held[at] = k
  BY <1>2, MembersOf DEF ToSet
<1>4. k \in K /\ Len(held) \in Nat /\ \A i \in 1..Len(held) : held[i] \in K
  BY <1>2, <1>3
<1>5. \A i \in 1..Len(held) : held[i] \in S <=> i # at
  BY <1>2, <1>3, <1>4
<1>6. Weight(ResultBytes, held) = Weight(ResultBytes, p) + ResultBytes[k]
  BY <1>1, <1>2, <1>3, <1>5, WeightWithout
<1>7. p \in Seq(K) /\ Picture(held, S, Len(held), p)
  BY <1>2, FilteredPicture
<1>8. PICK h \in [1..Len(p) -> 1..Len(held)] :
          /\ \A i \in 1..Len(p) : p[i] = held[h[i]] /\ held[h[i]] \in S
          /\ \A i, j \in 1..Len(p) : i < j => h[i] < h[j]
  BY <1>7 DEF Picture
<1>9. Len(p) < Len(held)
  BY <1>3, <1>5, <1>7 DEF Picture
<1> HIDE DEF p
<1>10. Weight(ResultBytes, r) = Weight(ResultBytes, p) + ResultBytes[k]
  BY <1>1, <1>4, <1>7, WeightAppend
<1>11. /\ r \in Seq(K) /\ Len(r) = Len(p) + 1 /\ Len(p) \in Nat /\ r[Len(p) + 1] = k
       /\ \A i \in 1..Len(p) : r[i] = p[i]
  BY <1>4, <1>7
<1>12. \A i, j \in 1..Len(p) : p[i] = p[j] => i = j
  <2> SUFFICES ASSUME NEW i \in 1..Len(p), NEW j \in 1..Len(p), p[i] = p[j] PROVE i = j
    OBVIOUS
  <2>1. h[i] = h[j] /\ h[i] \in Int
    BY <1>2, <1>8
  <2>2. ~(i < j) /\ ~(j < i)
    BY <1>8, <2>1
  <2> QED
    BY <1>11, <2>2
<1>13. \A i \in 1..Len(p) : p[i] # k
  BY <1>8
<1> HIDE DEF r
<1>14. \A i, j \in 1..Len(r) : r[i] = r[j] => i = j
  <2>1. \A i \in 1..Len(r) : i \in 1..Len(p) \/ i = Len(p) + 1
    BY <1>11
  <2> QED
    BY <1>11, <1>12, <1>13, <2>1
<1>15. bytes = SizeOf(r) /\ Len(r) <= maxCacheEntries
  BY <1>1, <1>2, <1>4, <1>6, <1>9, <1>10, <1>11 DEF SizeOf
<1> QED
  BY <1>2, <1>11, <1>14, <1>15 DEF ResultCacheOK, r, p

(* What a step may do to the workers' jobs and caches.                      *)
LEMMA WorkerStep ==
    ASSUME LinePart, WorkerPart, [HighlightNext]_highlightVars
    PROVE  WorkerPart'
<1>1. /\ posted \in [HWorker -> HRequest \cup {NoHRequest}]
      /\ cached = [w \in HWorker |-> cached[w]] /\ cachedBytes = [w \in HWorker |-> cachedBytes[w]]
      /\ \A w \in HWorker : ResultCacheOK(cached[w], cachedBytes[w])
  BY DEF WorkerPart
<1>2. ASSUME NEW w \in HWorker, NEW keys, NEW bytes, ResultCacheOK(keys, bytes),
             posted' \in [HWorker -> HRequest \cup {NoHRequest}],
             cached' = [cached EXCEPT ![w] = keys], cachedBytes' = [cachedBytes EXCEPT ![w] = bytes]
      PROVE  WorkerPart'
  <2>1. /\ DOMAIN cached' = HWorker /\ DOMAIN cachedBytes' = HWorker
        /\ cached' = [v \in HWorker |-> cached'[v]]
        /\ cachedBytes' = [v \in HWorker |-> cachedBytes'[v]]
    BY <1>1, <1>2
  <2>2. ASSUME NEW v \in HWorker PROVE ResultCacheOK(cached'[v], cachedBytes'[v])
    <3>1. CASE v = w
      BY <1>1, <1>2, <3>1
    <3>2. CASE v # w
      BY <1>1, <1>2, <3>2
    <3> QED
      BY <3>1, <3>2
  <2>3. \A v \in HWorker : ResultCacheOK(cached'[v], cachedBytes'[v])
    BY <2>2
  <2> QED
    BY <1>2, <2>1, <2>3 DEF WorkerPart, ResultCacheOK
<1>3. ASSUME UNCHANGED <<cached, cachedBytes>>, posted' \in [HWorker -> HRequest \cup {NoHRequest}]
      PROVE  WorkerPart'
  BY <1>1, <1>3 DEF WorkerPart, ResultCacheOK
<1>4. ASSUME UNCHANGED workerVars PROVE WorkerPart'
  BY <1>1, <1>3, <1>4 DEF workerVars
<1>5. ASSUME NEW queue, NEW promises, InLine(queue), RunNextRequest(queue, promises)
      PROVE  WorkerPart'
  <2>1. CASE UNCHANGED <<posted, cached, cachedBytes>>
    BY <1>1, <1>3, <2>1
  <2>2. ASSUME NEW w \in HWorker, queue # <<>>,
               posted' = [posted EXCEPT ![w] = Head(queue)],
               cached' = IF worker = w THEN cached ELSE [cached EXCEPT ![w] = <<>>],
               cachedBytes' = IF worker = w THEN cachedBytes ELSE [cachedBytes EXCEPT ![w] = 0]
        PROVE  WorkerPart'
    <3>1. Head(queue) \in HRequest
      BY <1>5, <2>2, TailInLine
    <3>2. posted' \in [HWorker -> HRequest \cup {NoHRequest}]
      BY <1>1, <2>2, <3>1
    <3>3. CASE worker = w
      BY <1>3, <2>2, <3>2, <3>3
    <3>4. CASE worker # w
      BY <1>2, <2>2, <3>2, <3>4, EmptyCache
    <3> QED
      BY <3>3, <3>4
  <2> QED
    BY <1>5, <2>1, <2>2 DEF RunNextRequest, ResetWorker
<1>6. InLine(queuedRequests) /\ \A r \in HRequest : settled[r] = "unasked" =>
          r \notin aborted /\ \A i \in 1..Len(queuedRequests) : queuedRequests[i] # r
  <2>1. PendingAre(settled, ToSet(queuedRequests) \cup {activeRequest}) /\ InLine(queuedRequests)
    BY DEF LinePart
  <2> QED
    BY <2>1, WaitingInLine DEF PendingAre
<1>7. ASSUME NEW w \in HWorker, WorkerMessage(w) PROVE WorkerPart'
  <2>1. \/ UNCHANGED <<posted, cached, cachedBytes>>
        \/ \E promises : RunNextRequest(queuedRequests, promises)
    BY <1>7 DEF WorkerMessage, ResetWorker
  <2> QED
    BY <1>1, <1>3, <1>5, <1>6, <2>1
<1>8. ASSUME NEW w \in HWorker, NEW id, NEW body, ProcessRequest(w, id, body) PROVE WorkerPart'
  <2> DEFINE k == ResultKey[posted[w]]
  <2>1. posted' = [posted EXCEPT ![w] = NoHRequest] /\ posted[w] # NoHRequest
    BY <1>8 DEF ProcessRequest
  <2>2. posted' \in [HWorker -> HRequest \cup {NoHRequest}] /\ posted[w] \in HRequest
    BY <1>1, <2>1
  <2>3. k \in DOMAIN ResultBytes /\ ResultBytes[k] \in Nat
    BY <2>2, HighlightAssumption
  <2>4. ResultCacheOK(cached[w], cachedBytes[w])
    BY <1>1
  <2> HIDE DEF k
  <2>5. CASE UNCHANGED <<cached, cachedBytes>>
    BY <1>3, <2>2, <2>5
  <2>6. CASE k \in ToSet(cached[w]) /\ CacheGet(w, k)
    <3> DEFINE keys == Append(Filtered(cached[w], DOMAIN ResultBytes \ {k}), k)
    <3>1. ResultCacheOK(keys, cachedBytes[w])
      BY <2>4, <2>6, CacheGetKeeps
    <3>2. cached' = [cached EXCEPT ![w] = keys] /\ cachedBytes' = cachedBytes
      BY <2>6 DEF CacheGet
    <3> HIDE DEF keys
    <3>3. cachedBytes' = [cachedBytes EXCEPT ![w] = cachedBytes[w]]
      BY <1>1, <3>2
    <3> QED
      BY <1>2, <2>2, <3>1, <3>2, <3>3
  <2>7. CASE k \notin ToSet(cached[w]) /\ CacheSet(w, k) /\ ResultBytes[k] <= maxCacheBytes
    <3> DEFINE keys == Append(cached[w], k)
               total == cachedBytes[w] + ResultBytes[k]
               n == Evicted(keys, total)
               rest == SubSeq(keys, n + 1, Len(keys))
               bytes == total - SizeOf(SubSeq(keys, 1, n))
    <3>1. ResultCacheOK(rest, bytes)
      BY <2>3, <2>4, <2>7, CacheSetKeeps
    <3>2. ~(ResultBytes[k] > maxCacheBytes)
      BY <2>3, <2>7, HighlightAssumption
    <3>3. cached' = [cached EXCEPT ![w] = rest] /\ cachedBytes' = [cachedBytes EXCEPT ![w] = bytes]
      BY <2>7, <3>2 DEF CacheSet
    <3> HIDE DEF rest, bytes
    <3> QED
      BY <1>2, <2>2, <3>1, <3>3
  <2>8. CASE CacheSet(w, k) /\ ResultBytes[k] > maxCacheBytes
    BY <2>5, <2>8 DEF CacheSet
  <2>9. ResultBytes[k] <= maxCacheBytes \/ ResultBytes[k] > maxCacheBytes
    BY <2>3, HighlightAssumption
  <2> QED
    BY <1>8, <2>5, <2>6, <2>7, <2>8, <2>9 DEF ProcessRequest, k
<1>9. ASSUME NEW w \in HWorker, RegisterHighlightWorker(w) PROVE WorkerPart'
  <2>1. posted' \in [HWorker -> HRequest \cup {NoHRequest}]
    BY <1>1, <1>9 DEF RegisterHighlightWorker
  <2> QED
    BY <1>2, <1>9, <2>1, EmptyCache DEF RegisterHighlightWorker
<1>10. ASSUME NEW r \in HRequest, EnqueueHighlightRequest(r) PROVE WorkerPart'
  <2>1. InLine(Inserted(r))
    BY <1>6, <1>10, InsertedInLine DEF EnqueueHighlightRequest
  <2>2. UNCHANGED <<posted, cached, cachedBytes>>
        \/ \E promises : RunNextRequest(Inserted(r), promises)
    BY <1>10 DEF EnqueueHighlightRequest
  <2> QED
    BY <1>1, <1>3, <1>5, <2>1, <2>2
<1>11. ASSUME WorkerGivenUp PROVE WorkerPart'
  BY <1>1, <1>3, <1>11 DEF WorkerGivenUp, ResetWorker
<1>12. ASSUME NEW r \in HRequest, AbortedBeforehand(r) \/ Abort(r) PROVE WorkerPart'
  BY <1>4, <1>12 DEF AbortedBeforehand, Abort
<1>13. ASSUME UNCHANGED highlightVars PROVE WorkerPart'
  BY <1>4, <1>13 DEF highlightVars
<1> QED
  BY <1>7, <1>8, <1>9, <1>10, <1>11, <1>12, <1>13 DEF HighlightNext, HighlightProgress

-----------------------------------------------------------------------------
(* The invariant holds of every reachable state of the highlighter.         *)
THEOREM HighlightInvariant == HighlightSpec => []HighlightIInv
<1>1. HighlightInit => HighlightIInv
  <2> SUFFICES ASSUME HighlightInit PROVE HighlightIInv
    OBVIOUS
  <2>1. InLine(queuedRequests) /\ ToSet(queuedRequests) = {}
    BY EmptySeq DEF HighlightInit, InLine, ToSet
  <2>2. PendingAre(settled, ToSet(queuedRequests) \cup {activeRequest})
    BY <2>1, HighlightAssumption DEF HighlightInit, PendingAre, Promise
  <2>3. LinePart
    BY <2>1, <2>2 DEF HighlightInit, LinePart
  <2>4. WorkerPart
    BY EmptyCache DEF HighlightInit, WorkerPart
  <2> QED
    BY <2>3, <2>4 DEF HighlightIInv
<1>2. HighlightIInv /\ [HighlightNext]_highlightVars => HighlightIInv'
  BY LineStep, WorkerStep DEF HighlightIInv
<1> QED
  BY <1>1, <1>2, PTL DEF HighlightSpec

(* The invariant is at least what the runs check.                           *)
LEMMA HighlightImplied ==
    ASSUME HighlightIInv
    PROVE  HighlightSound
<1> USE DEF HighlightIInv
<1>1. QueueSound
  <2> DEFINE waiting == ToSet(queuedRequests)
  <2>1. /\ PendingAre(settled, waiting \cup {activeRequest}) /\ InLine(queuedRequests)
        /\ activeRequest \in HRequest \cup {NoHRequest}
        /\ activeRequest = NoHRequest => queuedRequests = <<>>
    BY DEF LinePart
  <2>2. waiting \subseteq HRequest /\ activeRequest \notin waiting
    BY WaitingInLine
  <2>3. Len(queuedRequests) = Cardinality(waiting \ {activeRequest})
    <3>1. waiting \ {activeRequest} = waiting
      BY <2>2
    <3>2. Cardinality(waiting) = Len(queuedRequests)
      BY <2>1, DistinctLength DEF InLine, ToSet
    <3> QED
      BY <3>1, <3>2
  <2>4. activeRequest = NoHRequest => waiting = {}
    BY <2>1 DEF ToSet
  <2> HIDE DEF waiting
  <2>5. {r \in HRequest : settled[r] = "pending"}
             = (waiting \cup {activeRequest}) \ ({NoHRequest} \cup aborted)
    BY <2>1, <2>2, HighlightAssumption DEF PendingAre
  <2> QED
    BY <2>1, <2>3, <2>4, <2>5 DEF QueueSound, InLine, waiting
<1>2. ResultCacheExact
  <2> SUFFICES ASSUME NEW w \in HWorker
               PROVE  /\ cachedBytes[w] = SizeOf(cached[w]) /\ cachedBytes[w] <= maxCacheBytes
                      /\ Len(cached[w]) <= maxCacheEntries
                      /\ Cardinality(ToSet(cached[w])) = Len(cached[w])
    BY DEF ResultCacheExact
  <2>1. ResultCacheOK(cached[w], cachedBytes[w])
    BY DEF WorkerPart
  <2>2. cached[w] \in Seq(DOMAIN ResultBytes)
        /\ \A i, j \in 1..Len(cached[w]) : cached[w][i] = cached[w][j] => i = j
    BY <2>1 DEF ResultCacheOK
  <2>3. Cardinality(ToSet(cached[w])) = Len(cached[w])
    BY <2>2, DistinctLength DEF ToSet
  <2> QED
    BY <2>1, <2>3 DEF ResultCacheOK
<1> QED
  BY <1>1, <1>2 DEF HighlightSound

(* The client's queue and every worker's cache are sound, whatever aborts,  *)
(* replaced workers and bad replies interleave.                             *)
THEOREM HighlightSafe == HighlightSpec => []HighlightSound
BY HighlightInvariant, HighlightImplied, PTL

-----------------------------------------------------------------------------
(***************************************************************************)
(* The signing caller.                                                     *)
(***************************************************************************)

(* What the caller's variables hold.                                        *)
CallerTypeOK ==
    /\ session \in Negotiation \cup {NoSession} /\ negotiation \in Negotiation \cup {0}
    /\ authenticationEpoch \in Nat
    /\ talk \in [Negotiation -> {"unused", "challenge", "proof", "ack", "over"}]
    /\ talkEpoch \in [Negotiation -> Nat] /\ origin \in [Negotiation -> Nat]
    /\ callStage \in [CRequest -> {"idle", "waiting", "woken", "sent", "answered", "401", "ended"}]
    /\ tries \in [CRequest -> {0, 1}]
    /\ waitsFor \in [CRequest -> Negotiation \cup {0}]
    /\ attemptedSession \in [CRequest -> Negotiation \cup {NoSession}]
    /\ attemptedEpoch \in [CRequest -> Nat]
    /\ outcome \in [CRequest -> {"none", "ok", "refused", "aborted", "negotiation", "overtaken"}]
    /\ incarnation \in Nat
    /\ expiredSessions \subseteq Negotiation

(* The requests that were called, and those that were tried again: each may *)
(* have started one negotiation, so that there is always one to start.      *)
Called == {r \in CRequest : callStage[r] # "idle"}
Retried == {r \in CRequest : tries[r] = 1}
StartPart ==
    \E k \in Nat :
        /\ k <= 1 + Cardinality(Called) + Cardinality(Retried)
        /\ \A n \in Negotiation : talk[n] # "unused" <=> n <= k

(* The session is of the current epoch; a negotiation that still runs in    *)
(* this epoch is the latest and the shared one, and one of an earlier epoch *)
(* was overtaken because a session had expired.                             *)
RunningTalk(n) == talk[n] \in {"challenge", "proof", "ack"}
TalkPart ==
    /\ \A n \in Negotiation : talk[n] # "unused" => talkEpoch[n] <= authenticationEpoch
    /\ \A n \in Negotiation : origin[n] <= incarnation
    /\ session # NoSession => talk[session] = "over" /\ talkEpoch[session] = authenticationEpoch
    /\ \A n \in Negotiation :
          /\ RunningTalk(n) /\ talkEpoch[n] = authenticationEpoch =>
                negotiation = n /\ \A m \in Negotiation : m > n => talk[m] = "unused"
          /\ RunningTalk(n) /\ talkEpoch[n] < authenticationEpoch => expiredSessions # {}

(* A session that is known to be invalid, and one that was replaced.        *)
Invalid(s) == origin[s] < incarnation \/ s \in expiredSessions
Superseded(s) ==
    s \in expiredSessions \/ (talkEpoch[s] < authenticationEpoch /\ origin[s] < incarnation)

(* Why negotiations were started after the one that made session s: it had  *)
(* expired, or the daemon that gave it is gone and a later one answered.    *)
Succession(s) ==
    \A n \in Negotiation : n > s /\ talk[n] # "unused" =>
        \/ s \in expiredSessions
        \/ /\ talkEpoch[s] < talkEpoch[n] /\ origin[s] < incarnation
           /\ talk[n] \in {"proof", "ack"} \/ n = session => origin[s] < origin[n]

(* The sessions that requests were sent in, and the current one.            *)
SessionPart ==
    \A s \in Negotiation :
        s = session \/ (\E r \in CRequest : s = attemptedSession[r]) =>
            /\ talk[s] = "over"
            /\ s = session \/ Superseded(s)
            /\ Succession(s)

(* A session had been invalidated before session s was made.                *)
Late(s) == origin[s] >= 1 \/ expiredSessions \ {s} # {}

(* A 401 says that the session is invalid; a retry goes to another session, *)
(* which is a late one.                                                     *)
RequestOK(r) ==
    /\ callStage[r] = "idle" => tries[r] = 0
    /\ callStage[r] = "woken" => session # NoSession
    /\ callStage[r] \in {"sent", "answered", "401"} => attemptedSession[r] # NoSession
    /\ attemptedSession[r] # NoSession => attemptedEpoch[r] = talkEpoch[attemptedSession[r]]
    /\ session # NoSession => attemptedSession[r] <= session
    /\ callStage[r] = "401" => Invalid(attemptedSession[r])
    /\ tries[r] = 1 /\ callStage[r] \in {"waiting", "woken"} =>
          /\ attemptedSession[r] \notin {NoSession, session}
          /\ Invalid(attemptedSession[r])
    /\ tries[r] = 1 /\ callStage[r] \in {"sent", "answered", "401"} => Late(attemptedSession[r])
RequestPart == \A r \in CRequest : RequestOK(r)

(* The inductive invariant of the caller.                                   *)
CallerIInv == CallerTypeOK /\ StartPart /\ TalkPart /\ SessionPart /\ RequestPart /\ RecoveryShared

(* Negotiations are numbered from 1.                                        *)
LEMMA NegotiationNumbers ==
    /\ Cardinality(CRequest) \in Nat
    /\ Negotiation \subseteq Nat \ {0}
    /\ \A n : n \in Negotiation <=> n \in Nat /\ 1 <= n /\ n <= 1 + 2 * Cardinality(CRequest)
<1>1. Cardinality(CRequest) \in Nat
  BY CallerAssumption, FS_CardinalityType
<1> QED
  BY <1>1 DEF Negotiation

(* Counting some of the requests.                                           *)
LEMMA SomeRequests ==
    ASSUME NEW S, S \subseteq CRequest
    PROVE  IsFiniteSet(S) /\ Cardinality(S) \in Nat /\ Cardinality(S) <= Cardinality(CRequest)
BY CallerAssumption, FS_Subset, FS_CardinalityType

(* More of them are at least as many.                                       *)
LEMMA MoreRequests ==
    ASSUME NEW S, NEW T, S \subseteq T, T \subseteq CRequest
    PROVE  /\ Cardinality(S) \in Nat /\ Cardinality(T) \in Nat
           /\ Cardinality(S) <= Cardinality(T)
           /\ S # T => Cardinality(S) + 1 <= Cardinality(T)
<1>1. IsFiniteSet(T) /\ Cardinality(S) \in Nat /\ Cardinality(T) \in Nat
  BY SomeRequests
<1>2. Cardinality(S) <= Cardinality(T) /\ (Cardinality(T) = Cardinality(S) => T = S)
  BY <1>1, FS_Subset
<1> QED
  BY <1>1, <1>2

(* A request that was not called, or not tried again, can start the next    *)
(* negotiation, and there is one.                                           *)
LEMMA NextExists ==
    ASSUME CallerTypeOK, StartPart, Called # CRequest \/ Retried # CRequest
    PROVE  /\ NextNegotiation \in Negotiation
           /\ \A n \in Negotiation : talk[n] # "unused" <=> n < NextNegotiation
           /\ NextNegotiation <= 2 + Cardinality(Called) + Cardinality(Retried)
<1>1. PICK k \in Nat : /\ k <= 1 + Cardinality(Called) + Cardinality(Retried)
                       /\ \A n \in Negotiation : talk[n] # "unused" <=> n <= k
  BY DEF StartPart
<1>2. /\ Cardinality(Called) \in Nat /\ Cardinality(Called) <= Cardinality(CRequest)
      /\ Called # CRequest => Cardinality(Called) + 1 <= Cardinality(CRequest)
  BY MoreRequests DEF Called
<1>3. /\ Cardinality(Retried) \in Nat /\ Cardinality(Retried) <= Cardinality(CRequest)
      /\ Retried # CRequest => Cardinality(Retried) + 1 <= Cardinality(CRequest)
  BY MoreRequests DEF Retried
<1>4. k + 1 \in Negotiation
  BY <1>1, <1>2, <1>3, NegotiationNumbers
<1>5. \A n \in Negotiation : n \in Nat
  BY NegotiationNumbers
<1>6. talk[k + 1] = "unused" /\ \A j \in Negotiation : talk[j] = "unused" => k + 1 <= j
  BY <1>1, <1>4, <1>5
<1>7. NextNegotiation = k + 1
  <2> DEFINE IsNext(n) == talk[n] = "unused" /\ \A j \in Negotiation : talk[j] = "unused" => n <= j
  <2>1. IsNext(k + 1) /\ \A n \in Negotiation : IsNext(n) => n = k + 1
    BY <1>4, <1>5, <1>6
  <2>2. NextNegotiation = CHOOSE n \in Negotiation : IsNext(n)
    BY DEF NextNegotiation
  <2> HIDE DEF IsNext
  <2> QED
    BY <1>4, <2>1, <2>2
<1> QED
  BY <1>1, <1>2, <1>3, <1>4, <1>5, <1>7

(* Nothing is started, and no request is less called or retried.            *)
LEMMA StartUntouched ==
    ASSUME StartPart, Called \subseteq Called', Called' \subseteq CRequest,
           Retried \subseteq Retried', Retried' \subseteq CRequest,
           \A n \in Negotiation : talk'[n] = "unused" <=> talk[n] = "unused"
    PROVE  StartPart'
<1>1. PICK k \in Nat : /\ k <= 1 + Cardinality(Called) + Cardinality(Retried)
                       /\ \A n \in Negotiation : talk[n] # "unused" <=> n <= k
  BY DEF StartPart
<1>2. /\ Cardinality(Called) \in Nat /\ Cardinality(Called') \in Nat
      /\ Cardinality(Called) <= Cardinality(Called')
      /\ Cardinality(Retried) \in Nat /\ Cardinality(Retried') \in Nat
      /\ Cardinality(Retried) <= Cardinality(Retried')
  BY MoreRequests
<1>3. /\ k <= 1 + Cardinality(Called') + Cardinality(Retried')
      /\ \A n \in Negotiation : talk'[n] # "unused" <=> n <= k
  BY <1>1, <1>2
<1>4. Negotiation' = Negotiation /\ Called' = {r \in CRequest : callStage'[r] # "idle"}
      /\ Retried' = {r \in CRequest : tries'[r] = 1}
  BY DEF Called, Retried
<1> QED
  BY <1>1, <1>3, <1>4 DEF StartPart

(* Twice invalidated: a session that was late and became invalid.           *)
LEMMA LateInvalid ==
    ASSUME CallerTypeOK, TalkPart, NEW s \in Negotiation, Late(s), Invalid(s)
    PROVE  incarnation + Cardinality(expiredSessions) >= 2
<1>1. IsFiniteSet(Negotiation)
  BY NegotiationNumbers, FS_Interval DEF Negotiation
<1>2. IsFiniteSet(expiredSessions) /\ Cardinality(expiredSessions) \in Nat
  BY <1>1, FS_Subset, FS_CardinalityType DEF CallerTypeOK
<1>3. origin[s] \in Nat /\ incarnation \in Nat /\ origin[s] <= incarnation
  BY DEF CallerTypeOK, TalkPart
<1>4. expiredSessions # {} => Cardinality(expiredSessions) >= 1
  BY <1>2, FS_EmptySet
<1>5. CASE origin[s] >= 1
  BY <1>2, <1>3, <1>4, <1>5 DEF Invalid
<1>6. CASE expiredSessions \ {s} # {}
  <2>1. CASE s \in expiredSessions
    <3> DEFINE T == expiredSessions \ {s}
    <3>1. IsFiniteSet(T) /\ Cardinality(T) \in Nat /\ T # {}
      BY <1>2, <1>6, FS_Subset, FS_CardinalityType
    <3>2. Cardinality(T) >= 1
      BY <3>1, FS_EmptySet
    <3>3. T \cup {s} = expiredSessions /\ s \notin T
      BY <2>1
    <3> HIDE DEF T
    <3>4. Cardinality(expiredSessions) = Cardinality(T) + 1
      BY <3>1, <3>3, FS_AddElement
    <3> QED
      BY <1>3, <3>1, <3>2, <3>4
  <2>2. CASE s \notin expiredSessions
    <3>1. expiredSessions # {} /\ incarnation >= 1
      BY <1>3, <1>6, <2>2 DEF Invalid
    <3> QED
      BY <1>2, <1>3, <1>4, <3>1
  <2> QED
    BY <2>1, <2>2
<1> QED
  BY <1>5, <1>6 DEF Late

(* A new session after an invalid one is a late one.                        *)
LEMMA SessionLate ==
    ASSUME CallerTypeOK, TalkPart, SessionPart, session # NoSession,
           NEW r \in CRequest, attemptedSession[r] \notin {NoSession, session},
           attemptedSession[r] <= session, Invalid(attemptedSession[r])
    PROVE  Late(session)
<1> DEFINE a == attemptedSession[r]
<1>1. a \in Negotiation /\ session \in Negotiation /\ a < session
  BY NegotiationNumbers DEF CallerTypeOK
<1>2. origin[a] \in Nat /\ origin[session] \in Nat
  BY <1>1 DEF CallerTypeOK
<1>3. Succession(a) /\ talk[session] = "over"
  BY <1>1 DEF SessionPart
<1>4. a \in expiredSessions \/ origin[a] < origin[session]
  BY <1>1, <1>3 DEF Succession
<1> QED
  BY <1>1, <1>2, <1>4 DEF Late

(* A request sends, is answered or ends.                                    *)
LEMMA CallKeeps ==
    ASSUME CallerIInv, NEW r \in CRequest,
           \/ SendSigned(r) \/ DaemonAuthenticates(r) \/ AnswerArrives(r) \/ CallAborted(r)
           \/ RefusalArrives(r) /\ tries[r] = 1
    PROVE  CallerIInv'
<1>1. CallerTypeOK /\ StartPart /\ TalkPart /\ SessionPart /\ RequestPart /\ RecoveryShared
  BY DEF CallerIInv
<1>2. /\ UNCHANGED <<session, authenticationEpoch, negotiation, talk, talkEpoch, origin, tries,
                     waitsFor, incarnation, expiredSessions>>
      /\ callStage[r] # "idle" /\ callStage[r] # "ended"
  BY DEF SendSigned, DaemonAuthenticates, AnswerArrives, CallAborted, RefusalArrives, talkVars,
         peerVars
<1>3. \/ /\ SendSigned(r) /\ callStage' = [callStage EXCEPT ![r] = "sent"]
         /\ attemptedSession' = [attemptedSession EXCEPT ![r] = session]
         /\ attemptedEpoch' = [attemptedEpoch EXCEPT ![r] = authenticationEpoch]
         /\ outcome' = outcome
      \/ /\ DaemonAuthenticates(r) /\ UNCHANGED <<attemptedSession, attemptedEpoch, outcome>>
         /\ \/ callStage' = [callStage EXCEPT ![r] = "answered"]
            \/ callStage' = [callStage EXCEPT ![r] = "401"] /\ Invalid(attemptedSession[r])
      \/ /\ UNCHANGED <<attemptedSession, attemptedEpoch>>
         /\ callStage' = [callStage EXCEPT ![r] = "ended"]
         /\ \/ outcome' = [outcome EXCEPT ![r] = "ok"]
            \/ outcome' = [outcome EXCEPT ![r] = "aborted"]
            \/ /\ outcome' = [outcome EXCEPT ![r] = "refused"]
               /\ callStage[r] = "401" /\ tries[r] = 1
  <2>1. ASSUME DaemonAuthenticates(r)
        PROVE  /\ attemptedSession' = attemptedSession /\ attemptedEpoch' = attemptedEpoch
               /\ outcome' = outcome
               /\ \/ callStage' = [callStage EXCEPT ![r] = "answered"]
                  \/ /\ callStage' = [callStage EXCEPT ![r] = "401"]
                     /\ Invalid(attemptedSession[r])
    <3>1. callStage[r] = "sent" /\ attemptedSession[r] # NoSession
      BY <1>1, <2>1 DEF DaemonAuthenticates, RequestPart, RequestOK
    <3>2. /\ origin[attemptedSession[r]] \in Nat /\ incarnation \in Nat
          /\ origin[attemptedSession[r]] <= incarnation
      BY <1>1, <3>1 DEF CallerTypeOK, TalkPart
    <3>3. CASE origin[attemptedSession[r]] = incarnation /\ attemptedSession[r] \notin expiredSessions
      <4>1. /\ attemptedSession' = attemptedSession /\ attemptedEpoch' = attemptedEpoch
            /\ outcome' = outcome
            /\ callStage' = [callStage EXCEPT ![r] = "answered"]
        BY <2>1, <3>3 DEF DaemonAuthenticates
      <4> QED
        BY <4>1
    <3>4. CASE ~(origin[attemptedSession[r]] = incarnation
                 /\ attemptedSession[r] \notin expiredSessions)
      <4>1. Invalid(attemptedSession[r])
        BY <3>2, <3>4 DEF Invalid
      <4>2. /\ attemptedSession' = attemptedSession /\ attemptedEpoch' = attemptedEpoch
            /\ outcome' = outcome
            /\ callStage' = [callStage EXCEPT ![r] = "401"]
        BY <2>1, <3>4 DEF DaemonAuthenticates
      <4> QED
        BY <4>1, <4>2
    <3> QED
      BY <3>3, <3>4
  <2>2. CASE SendSigned(r)
    BY <2>2 DEF SendSigned
  <2>3. CASE AnswerArrives(r) \/ CallAborted(r) \/ (RefusalArrives(r) /\ tries[r] = 1)
    BY <2>3 DEF AnswerArrives, CallAborted, RefusalArrives, CallEnds
  <2> QED
    BY <2>1, <2>2, <2>3
<1>4. SendSigned(r) => callStage[r] = "woken"
  BY DEF SendSigned
<1>5. CallerTypeOK'
  <2>1. callStage' \in [CRequest -> {"idle", "waiting", "woken", "sent", "answered", "401", "ended"}]
    BY <1>1, <1>3 DEF CallerTypeOK
  <2>2. /\ attemptedSession' \in [CRequest -> Negotiation \cup {NoSession}]
        /\ attemptedEpoch' \in [CRequest -> Nat]
    BY <1>1, <1>3 DEF CallerTypeOK
  <2>3. outcome' \in [CRequest -> {"none", "ok", "refused", "aborted", "negotiation", "overtaken"}]
    BY <1>1, <1>3 DEF CallerTypeOK
  <2> QED
    BY <1>1, <1>2, <2>1, <2>2, <2>3 DEF CallerTypeOK, Negotiation
<1>6. StartPart'
  <2>1. Called \subseteq Called' /\ Called' \subseteq CRequest
    BY <1>1, <1>2, <1>3 DEF Called, CallerTypeOK
  <2>2. Retried \subseteq Retried' /\ Retried' \subseteq CRequest
    BY <1>2 DEF Retried
  <2> QED
    BY <1>1, <1>2, <2>1, <2>2, StartUntouched
<1>7. TalkPart'
  BY <1>1, <1>2 DEF TalkPart, RunningTalk, Negotiation
<1>8. SessionPart'
  <2>1. \A q \in CRequest : attemptedSession'[q] \in {attemptedSession[q], session}
    BY <1>1, <1>3 DEF CallerTypeOK
  <2>2. \A s \in Negotiation : Succession(s)' = Succession(s) /\ Superseded(s)' = Superseded(s)
    BY <1>2 DEF Succession, Superseded, Negotiation
  <2>3. \A s \in Negotiation :
            s = session \/ (\E q \in CRequest : s = attemptedSession'[q]) =>
                talk[s] = "over" /\ (s = session \/ Superseded(s)) /\ Succession(s)
    BY <1>1, <2>1 DEF SessionPart
  <2> QED
    BY <1>2, <2>2, <2>3 DEF SessionPart, Negotiation
<1>9. RequestPart'
  <2>1. \A s \in Negotiation : Invalid(s)' = Invalid(s) /\ Late(s)' = Late(s)
    BY <1>2 DEF Invalid, Late
  <2>2. ASSUME NEW q \in CRequest, q # r PROVE RequestOK(q)'
    <3>1. callStage'[q] = callStage[q] /\ attemptedSession'[q] = attemptedSession[q]
          /\ attemptedEpoch'[q] = attemptedEpoch[q]
      BY <1>1, <1>3, <2>2 DEF CallerTypeOK
    <3>2. RequestOK(q)
      BY <1>1 DEF RequestPart
    <3> QED
      BY <1>2, <3>1, <3>2 DEF RequestOK, Invalid, Late
  <2>3. RequestOK(r)
    BY <1>1 DEF RequestPart
  <2>4. CASE SendSigned(r)
    <3>1. callStage'[r] = "sent" /\ attemptedSession'[r] = session
          /\ attemptedEpoch'[r] = authenticationEpoch
      BY <1>1, <2>4 DEF CallerTypeOK, SendSigned
    <3>2. session \in Negotiation /\ talkEpoch[session] = authenticationEpoch
      BY <1>1, <1>4, <2>3, <2>4 DEF RequestOK, TalkPart, CallerTypeOK
    <3>3. tries[r] = 1 => Late(session)
      BY <1>1, <1>4, <2>3, <2>4, <3>2, SessionLate, NegotiationNumbers DEF RequestOK, CallerTypeOK
    <3>4. RequestOK(r)'
      BY <1>2, <3>1, <3>2, <3>3, NegotiationNumbers DEF RequestOK, Late, NoSession
    <3> QED
      BY <2>2, <3>4 DEF RequestPart
  <2>5. CASE DaemonAuthenticates(r)
    <3>1. /\ callStage'[r] \in {"answered", "401"}
          /\ callStage'[r] = "401" => Invalid(attemptedSession[r])
          /\ attemptedSession'[r] = attemptedSession[r] /\ attemptedEpoch'[r] = attemptedEpoch[r]
          /\ callStage[r] = "sent"
      BY <1>1, <1>3, <2>5 DEF CallerTypeOK, DaemonAuthenticates, SendSigned
    <3>2. RequestOK(r)'
      BY <1>2, <2>1, <2>3, <3>1 DEF RequestOK, Late, Invalid
    <3> QED
      BY <2>2, <3>2 DEF RequestPart
  <2>6. CASE ~SendSigned(r) /\ ~DaemonAuthenticates(r)
    <3>1. callStage'[r] = "ended" /\ attemptedSession'[r] = attemptedSession[r]
          /\ attemptedEpoch'[r] = attemptedEpoch[r]
      BY <1>1, <1>3, <2>6 DEF CallerTypeOK
    <3>2. RequestOK(r)'
      BY <1>2, <2>3, <3>1 DEF RequestOK
    <3> QED
      BY <2>2, <3>2 DEF RequestPart
  <2> QED
    BY <2>4, <2>5, <2>6
<1>10. RecoveryShared'
  <2>1. outcome'[r] = "refused" /\ outcome[r] # "refused" =>
            callStage[r] = "401" /\ tries[r] = 1
    BY <1>1, <1>3 DEF CallerTypeOK
  <2>2. callStage[r] = "401" /\ tries[r] = 1 => incarnation + Cardinality(expiredSessions) >= 2
    <3> HAVE callStage[r] = "401" /\ tries[r] = 1
    <3>1. attemptedSession[r] \in Negotiation /\ Late(attemptedSession[r])
          /\ Invalid(attemptedSession[r])
      BY <1>1 DEF RequestPart, RequestOK, CallerTypeOK
    <3> QED
      BY <1>1, <3>1, LateInvalid
  <2>3. outcome'[r] = "overtaken" => outcome[r] = "overtaken"
    BY <1>1, <1>3 DEF CallerTypeOK
  <2>4. \A q \in CRequest : q # r => outcome'[q] = outcome[q]
    BY <1>1, <1>3 DEF CallerTypeOK
  <2>5. incarnation' = incarnation /\ expiredSessions' = expiredSessions
    BY <1>2
  <2> QED
    BY <1>1, <2>1, <2>2, <2>3, <2>4, <2>5 DEF RecoveryShared
<1> QED
  BY <1>5, <1>6, <1>7, <1>8, <1>9, <1>10 DEF CallerIInv

(* A request of the current epoch calls clear(); the session it was sent in *)
(* is invalid.                                                              *)
Clears(r) ==
    /\ callStage[r] = "401" /\ session = attemptedSession[r] /\ session # NoSession
    /\ session' = NoSession /\ authenticationEpoch' = authenticationEpoch + 1

(* A negotiation starts, because there is no valid session and no shared    *)
(* negotiation of this epoch.                                               *)
StartsTalk ==
    /\ NextNegotiation \in Negotiation
    /\ \A n \in Negotiation : talk[n] # "unused" <=> n < NextNegotiation
    /\ session' = NoSession \/ session' \in expiredSessions
    /\ authenticationEpoch' = authenticationEpoch => negotiation = 0
    /\ negotiation' = NextNegotiation
    /\ talk' = [talk EXCEPT ![NextNegotiation] = "challenge"]
    /\ talkEpoch' = [talkEpoch EXCEPT ![NextNegotiation] = authenticationEpoch']

(* What a request's attempt changes.                                        *)
Attempts(r) ==
    /\ Quiet
    /\ attemptedSession' = attemptedSession /\ attemptedEpoch' = attemptedEpoch
    /\ outcome' = outcome /\ origin' = origin
    /\ incarnation' = incarnation /\ expiredSessions' = expiredSessions
    /\ waitsFor' \in [CRequest -> Negotiation \cup {0}]
    /\ \/ callStage[r] = "idle" /\ tries' = tries
       \/ callStage[r] = "401" /\ tries[r] = 0 /\ tries' = [tries EXCEPT ![r] = 1]
    /\ \/ callStage' = [callStage EXCEPT ![r] = "woken"] /\ session' # NoSession
       \/ callStage' = [callStage EXCEPT ![r] = "waiting"]
    /\ \/ /\ session' = session /\ authenticationEpoch' = authenticationEpoch
          /\ callStage[r] = "401" => session # attemptedSession[r]
       \/ Clears(r) /\ StartsTalk
    /\ \/ /\ session' = session /\ authenticationEpoch' = authenticationEpoch
          /\ negotiation' = negotiation /\ talk' = talk /\ talkEpoch' = talkEpoch
       \/ StartsTalk

(* A request is called, or its first 401 arrives.                           *)
LEMMA AttemptCases ==
    ASSUME CallerIInv, NEW r \in CRequest, CallRequest(r) \/ (RefusalArrives(r) /\ tries[r] = 0)
    PROVE  Attempts(r)
<1>1. CallerTypeOK /\ StartPart /\ TalkPart /\ RequestOK(r)
  BY DEF CallerIInv, RequestPart
<1>2. /\ NextNegotiation \in Negotiation
      /\ \A n \in Negotiation : talk[n] # "unused" <=> n < NextNegotiation
  <2>1. Called # CRequest \/ Retried # CRequest
    BY DEF Called, Retried, CallRequest
  <2> QED
    BY <1>1, <2>1, NextExists
<1>3. /\ attemptedSession' = attemptedSession /\ attemptedEpoch' = attemptedEpoch
      /\ outcome' = outcome /\ Quiet
      /\ incarnation' = incarnation /\ expiredSessions' = expiredSessions
  BY DEF CallRequest, RefusalArrives, peerVars
<1>4. /\ \/ callStage[r] = "idle" /\ tries' = tries
         \/ callStage[r] = "401" /\ tries[r] = 0 /\ tries' = [tries EXCEPT ![r] = 1]
      /\ \/ /\ session' = session /\ authenticationEpoch' = authenticationEpoch
            /\ callStage[r] = "401" => ~OwnsEpoch(r)
            /\ LoopHead(r, session, negotiation, authenticationEpoch)
         \/ /\ callStage[r] = "401" /\ OwnsEpoch(r)
            /\ session' = NoSession /\ authenticationEpoch' = authenticationEpoch + 1
            /\ LoopHead(r, NoSession, 0, authenticationEpoch + 1)
  <2>1. CASE CallRequest(r)
    BY <2>1 DEF CallRequest
  <2>2. CASE RefusalArrives(r) /\ tries[r] = 0
    BY <2>2 DEF RefusalArrives
  <2> QED
    BY <2>1, <2>2
<1>5. callStage[r] = "401" => (OwnsEpoch(r) <=> session = attemptedSession[r] /\ session # NoSession)
  <2> HAVE callStage[r] = "401"
  <2>1. attemptedSession[r] \in Negotiation /\ attemptedSession[r] # NoSession
        /\ attemptedEpoch[r] = talkEpoch[attemptedSession[r]]
    BY <1>1 DEF RequestOK, CallerTypeOK
  <2>2. session = attemptedSession[r] => talkEpoch[attemptedSession[r]] = authenticationEpoch
    BY <1>1, <2>1 DEF TalkPart
  <2> QED
    BY <2>1, <2>2 DEF OwnsEpoch
<1>6. ASSUME session' = session, authenticationEpoch' = authenticationEpoch,
             callStage[r] = "401" => ~OwnsEpoch(r),
             LoopHead(r, session, negotiation, authenticationEpoch)
      PROVE  Attempts(r)
  <2>1. /\ origin' = origin /\ waitsFor' \in [CRequest -> Negotiation \cup {0}]
        /\ \/ callStage' = [callStage EXCEPT ![r] = "woken"] /\ session' # NoSession
           \/ callStage' = [callStage EXCEPT ![r] = "waiting"]
    BY <1>1, <1>2, <1>6 DEF LoopHead, CallerTypeOK
  <2>2. \/ negotiation' = negotiation /\ talk' = talk /\ talkEpoch' = talkEpoch
        \/ StartsTalk
    <3>1. \/ negotiation' = negotiation /\ talk' = talk /\ talkEpoch' = talkEpoch
          \/ /\ session = NoSession \/ session \in expiredSessions
             /\ negotiation = 0 /\ negotiation' = NextNegotiation
             /\ talk' = [talk EXCEPT ![NextNegotiation] = "challenge"]
             /\ talkEpoch' = [talkEpoch EXCEPT ![NextNegotiation] = authenticationEpoch]
      BY <1>6 DEF LoopHead
    <3> QED
      BY <1>2, <1>6, <3>1 DEF StartsTalk
  <2>3. callStage[r] = "401" => session # attemptedSession[r]
    <3>1. callStage[r] = "401" => attemptedSession[r] # NoSession
      BY <1>1 DEF RequestOK
    <3> QED
      BY <1>5, <1>6, <3>1
  <2> QED
    BY <1>3, <1>4, <1>6, <2>1, <2>2, <2>3 DEF Attempts
<1>7. ASSUME callStage[r] = "401", OwnsEpoch(r),
             session' = NoSession, authenticationEpoch' = authenticationEpoch + 1,
             LoopHead(r, NoSession, 0, authenticationEpoch + 1)
      PROVE  Attempts(r)
  <2>1. /\ origin' = origin /\ waitsFor' \in [CRequest -> Negotiation \cup {0}]
        /\ callStage' = [callStage EXCEPT ![r] = "waiting"]
        /\ negotiation' = NextNegotiation
        /\ talk' = [talk EXCEPT ![NextNegotiation] = "challenge"]
        /\ talkEpoch' = [talkEpoch EXCEPT ![NextNegotiation] = authenticationEpoch + 1]
    BY <1>1, <1>2, <1>7 DEF LoopHead, CallerTypeOK
  <2>2. authenticationEpoch' # authenticationEpoch
    BY <1>1, <1>7 DEF CallerTypeOK
  <2>3. StartsTalk
    BY <1>2, <1>7, <2>1, <2>2 DEF StartsTalk
  <2>4. Clears(r)
    BY <1>5, <1>7 DEF Clears
  <2> QED
    BY <1>3, <1>4, <2>1, <2>3, <2>4 DEF Attempts
<1> QED
  BY <1>4, <1>6, <1>7

(* A session is superseded by the negotiation that follows it.              *)
LEMMA AttemptSessions ==
    ASSUME CallerIInv, NEW r \in CRequest, Attempts(r), StartsTalk, NEW s \in Negotiation,
           s = session \/ (\E q \in CRequest : s = attemptedSession[q])
    PROVE  /\ talk'[s] = "over" /\ s < NextNegotiation
           /\ s # session' => Superseded(s)'
           /\ s \in expiredSessions
              \/ (talkEpoch[s] < authenticationEpoch' /\ origin[s] < incarnation)
<1>1. CallerTypeOK /\ TalkPart /\ SessionPart /\ RequestOK(r)
  BY DEF CallerIInv, RequestPart
<1>2. talk[s] = "over" /\ (s = session \/ Superseded(s))
  BY <1>1 DEF SessionPart
<1>3. s < NextNegotiation /\ talk'[s] = "over" /\ talkEpoch'[s] = talkEpoch[s]
  BY <1>1, <1>2, NegotiationNumbers DEF StartsTalk, CallerTypeOK
<1>4. /\ talkEpoch[s] \in Nat /\ authenticationEpoch \in Nat
      /\ authenticationEpoch' \in {authenticationEpoch, authenticationEpoch + 1}
      /\ s \in Nat \ {0}
  BY <1>1, NegotiationNumbers DEF CallerTypeOK, Attempts, Clears
<1>5. incarnation' = incarnation /\ expiredSessions' = expiredSessions /\ origin' = origin
  BY DEF Attempts
<1>6. CASE s = session /\ session' = session
  BY <1>4, <1>3, <1>6 DEF StartsTalk, NoSession
<1>7. CASE s = session /\ session' # session
  <2>1. Clears(r)
    BY <1>7 DEF Attempts
  <2>2. Invalid(s) /\ talkEpoch[s] = authenticationEpoch
    BY <1>1, <1>7, <2>1 DEF Clears, RequestOK, TalkPart
  <2> QED
    BY <1>3, <1>4, <1>5, <2>1, <2>2 DEF Clears, Invalid, Superseded
<1>8. CASE s # session
  BY <1>2, <1>3, <1>4, <1>5, <1>8 DEF Superseded
<1> QED
  BY <1>3, <1>6, <1>7, <1>8

(* A request is called or tried again.                                      *)
LEMMA AttemptKeeps ==
    ASSUME CallerIInv, NEW r \in CRequest, Attempts(r)
    PROVE  CallerIInv'
<1> DEFINE N == NextNegotiation
           Stays == negotiation' = negotiation /\ talk' = talk /\ talkEpoch' = talkEpoch
                    /\ session' = session /\ authenticationEpoch' = authenticationEpoch
<1>1. CallerTypeOK /\ StartPart /\ TalkPart /\ SessionPart /\ RequestPart /\ RecoveryShared
  BY DEF CallerIInv
<1>2. /\ attemptedSession' = attemptedSession /\ attemptedEpoch' = attemptedEpoch
      /\ outcome' = outcome /\ origin' = origin
      /\ incarnation' = incarnation /\ expiredSessions' = expiredSessions
      /\ Negotiation' = Negotiation
  BY DEF Attempts, Negotiation
<1>3. Stays \/ StartsTalk
  BY DEF Attempts
<1>4. /\ session' \in {session, NoSession}
      /\ authenticationEpoch' \in {authenticationEpoch, authenticationEpoch + 1}
      /\ session' = session => authenticationEpoch' = authenticationEpoch
      /\ session' # session => Clears(r) /\ StartsTalk
  BY DEF Attempts, Clears
<1>5. authenticationEpoch \in Nat /\ authenticationEpoch' \in Nat
      /\ authenticationEpoch <= authenticationEpoch'
  BY <1>1, <1>4 DEF CallerTypeOK
<1>6. CallerTypeOK'
  <2>1. callStage' \in [CRequest -> {"idle", "waiting", "woken", "sent", "answered", "401", "ended"}]
        /\ tries' \in [CRequest -> {0, 1}]
    BY <1>1 DEF CallerTypeOK, Attempts
  <2>2. /\ negotiation' \in Negotiation \cup {0}
        /\ talk' \in [Negotiation -> {"unused", "challenge", "proof", "ack", "over"}]
        /\ talkEpoch' \in [Negotiation -> Nat]
    BY <1>1, <1>3, <1>5 DEF CallerTypeOK, StartsTalk
  <2>3. waitsFor' \in [CRequest -> Negotiation \cup {0}]
    BY DEF Attempts
  <2> QED
    BY <1>1, <1>2, <1>4, <1>5, <2>1, <2>2, <2>3 DEF CallerTypeOK
<1>7. StartPart'
  <2>1. Called \subseteq Called' /\ Called' \subseteq CRequest
        /\ Retried \subseteq Retried' /\ Retried' \subseteq CRequest
    BY <1>1 DEF Attempts, Called, Retried, CallerTypeOK
  <2>2. CASE Stays
    BY <1>1, <2>1, <2>2, StartUntouched
  <2>3. CASE StartsTalk
    <3>1. r \in Called' \ Called \/ r \in Retried' \ Retried
      BY <1>1 DEF Attempts, Called, Retried, CallerTypeOK
    <3>2. /\ Cardinality(Called) \in Nat /\ Cardinality(Called') \in Nat
          /\ Cardinality(Called) <= Cardinality(Called')
          /\ r \in Called' \ Called => Cardinality(Called) + 1 <= Cardinality(Called')
      BY <2>1, MoreRequests
    <3>3. /\ Cardinality(Retried) \in Nat /\ Cardinality(Retried') \in Nat
          /\ Cardinality(Retried) <= Cardinality(Retried')
          /\ r \in Retried' \ Retried => Cardinality(Retried) + 1 <= Cardinality(Retried')
      BY <2>1, MoreRequests
    <3>4. N <= 2 + Cardinality(Called) + Cardinality(Retried)
      <4>1. Called # CRequest \/ Retried # CRequest
        BY <2>1, <3>1
      <4> QED
        BY <1>1, <4>1, NextExists
    <3>5. N \in Nat /\ N <= 1 + Cardinality(Called') + Cardinality(Retried')
      BY <2>3, <3>1, <3>2, <3>3, <3>4, NegotiationNumbers DEF StartsTalk
    <3>6. \A n \in Negotiation : talk'[n] # "unused" <=> n <= N
      BY <1>1, <2>3, NegotiationNumbers DEF StartsTalk, CallerTypeOK
    <3>7. Called' = {q \in CRequest : callStage'[q] # "idle"}
          /\ Retried' = {q \in CRequest : tries'[q] = 1}
      BY DEF Called, Retried
    <3> HIDE DEF N
    <3> QED
      BY <1>2, <3>5, <3>6, <3>7 DEF StartPart
  <2> QED
    BY <1>3, <2>2, <2>3
<1>8. TalkPart'
  <2>1. CASE Stays
    BY <1>1, <1>2, <2>1 DEF TalkPart, RunningTalk
  <2>2. CASE StartsTalk
    <3>1. N \in Negotiation /\ talk[N] = "unused" /\ N \in Nat
      BY <1>1, <2>2, NegotiationNumbers DEF StartsTalk
    <3>2. /\ talk'[N] = "challenge" /\ talkEpoch'[N] = authenticationEpoch' /\ negotiation' = N
          /\ \A n \in Negotiation : n # N => talk'[n] = talk[n] /\ talkEpoch'[n] = talkEpoch[n]
          /\ \A n \in Negotiation : talk'[n] # "unused" => n <= N
      BY <1>1, <2>2, <3>1, NegotiationNumbers DEF StartsTalk, CallerTypeOK
    <3>3. \A n \in Negotiation : talk'[n] # "unused" => talkEpoch'[n] <= authenticationEpoch'
      BY <1>1, <1>5, <3>1, <3>2 DEF TalkPart, CallerTypeOK
    <3>4. session' # NoSession => talk'[session'] = "over"
                                  /\ talkEpoch'[session'] = authenticationEpoch'
      BY <1>1, <1>4, <3>1, <3>2 DEF TalkPart, CallerTypeOK
    <3>5. ASSUME NEW n \in Negotiation, n # N, RunningTalk(n)' PROVE expiredSessions # {}
                /\ talkEpoch'[n] < authenticationEpoch'
      <4>1. RunningTalk(n) /\ talkEpoch[n] <= authenticationEpoch /\ talkEpoch'[n] = talkEpoch[n]
            /\ talkEpoch[n] \in Nat /\ n \in Nat \ {0}
        BY <1>1, <3>2, <3>5, NegotiationNumbers DEF RunningTalk, TalkPart, CallerTypeOK
      <4>2. CASE talkEpoch[n] < authenticationEpoch
        BY <1>1, <1>5, <4>1, <4>2 DEF TalkPart
      <4>3. CASE talkEpoch[n] = authenticationEpoch
        <5>1. negotiation = n /\ \A m \in Negotiation : m > n => talk[m] = "unused"
          BY <1>1, <4>1, <4>3 DEF TalkPart
        <5>2. Clears(r)
          BY <1>4, <2>2, <4>1, <5>1 DEF StartsTalk
        <5>3. session \in Negotiation /\ talk[session] = "over" /\ session < n
          BY <1>1, <4>1, <5>1, <5>2, NegotiationNumbers DEF Clears, TalkPart, CallerTypeOK, RunningTalk
        <5>4. Succession(session) /\ talkEpoch[session] = authenticationEpoch
          BY <1>1, <5>2, <5>3 DEF Clears, SessionPart, TalkPart
        <5>5. session \in expiredSessions
          BY <4>1, <4>3, <5>3, <5>4 DEF Succession, RunningTalk
        <5> QED
          BY <1>5, <4>1, <4>3, <5>2, <5>5 DEF Clears
      <4> QED
        BY <1>1, <4>1, <4>2, <4>3 DEF CallerTypeOK
    <3>6. ASSUME NEW n \in Negotiation
          PROVE  /\ RunningTalk(n)' /\ talkEpoch'[n] = authenticationEpoch' =>
                       negotiation' = n /\ \A m \in Negotiation : m > n => talk'[m] = "unused"
                 /\ RunningTalk(n)' /\ talkEpoch'[n] < authenticationEpoch' => expiredSessions # {}
      <4>1. CASE n = N
        BY <1>5, <3>1, <3>2, <4>1, NegotiationNumbers
      <4>2. CASE n # N
        BY <1>5, <3>1, <3>2, <3>5, <4>2
      <4> QED
        BY <4>1, <4>2
    <3>7. \A n \in Negotiation : origin[n] <= incarnation
      BY <1>1 DEF TalkPart
    <3> HIDE DEF N
    <3> QED
      BY <1>2, <3>3, <3>4, <3>6, <3>7 DEF TalkPart
  <2> QED
    BY <1>3, <2>1, <2>2
<1>9. SessionPart'
  <2>1. CASE Stays
    BY <1>1, <1>2, <2>1 DEF SessionPart, Succession, Superseded
  <2>2. CASE StartsTalk
    <3> SUFFICES ASSUME NEW s \in Negotiation,
                        s = session' \/ (\E q \in CRequest : s = attemptedSession[q])
                 PROVE  talk'[s] = "over" /\ (s = session' \/ Superseded(s)') /\ Succession(s)'
      BY <1>2 DEF SessionPart
    <3>1. s = session \/ (\E q \in CRequest : s = attemptedSession[q])
      BY <1>4, NegotiationNumbers DEF NoSession
    <3>2. /\ talk'[s] = "over" /\ s < N /\ (s # session' => Superseded(s)')
          /\ s \in expiredSessions
             \/ (talkEpoch[s] < authenticationEpoch' /\ origin[s] < incarnation)
      BY <2>2, <3>1, AttemptSessions
    <3>3. Succession(s) /\ talk[s] = "over"
      BY <1>1, <3>1 DEF SessionPart
    <3>4. N \in Negotiation /\ s \in Nat /\ N \in Nat
      BY <2>2, NegotiationNumbers DEF StartsTalk
    <3>5. /\ talk'[N] = "challenge" /\ talkEpoch'[N] = authenticationEpoch'
          /\ \A n \in Negotiation : n # N => talk'[n] = talk[n] /\ talkEpoch'[n] = talkEpoch[n]
          /\ session' # N
      <4>1. session' \in Negotiation => talk[session'] = "over"
        BY <1>1, <1>4, NegotiationNumbers DEF TalkPart, NoSession
      <4> QED
        BY <1>1, <2>2, <3>4, <4>1 DEF StartsTalk, CallerTypeOK
    <3>6. Succession(s)'
      <4> SUFFICES ASSUME NEW n \in Negotiation, n > s, talk'[n] # "unused", s \notin expiredSessions
                   PROVE  /\ talkEpoch'[s] < talkEpoch'[n] /\ origin[s] < incarnation
                          /\ talk'[n] \in {"proof", "ack"} \/ n = session' => origin[s] < origin[n]
        BY <1>2 DEF Succession
      <4>1. CASE n = N
        BY <3>2, <3>4, <3>5, <4>1
      <4>2. CASE n # N
        <5>1. n = session' => n = session
          BY <1>4, NegotiationNumbers DEF NoSession
        <5> QED
          BY <3>2, <3>3, <3>4, <3>5, <4>2, <5>1 DEF Succession
      <4> QED
        BY <4>1, <4>2
    <3> QED
      BY <3>2, <3>6
  <2> QED
    BY <1>3, <2>1, <2>2
<1>10. RequestPart'
  <2> SUFFICES ASSUME NEW q \in CRequest PROVE RequestOK(q)'
    BY DEF RequestPart
  <2>1. RequestOK(q) /\ attemptedSession[q] \in Negotiation \cup {NoSession}
    BY <1>1 DEF RequestPart, CallerTypeOK
  <2>2. attemptedSession[q] # NoSession => talkEpoch'[attemptedSession[q]] = talkEpoch[attemptedSession[q]]
    <3> HAVE attemptedSession[q] # NoSession
    <3>1. attemptedSession[q] \in Negotiation /\ talk[attemptedSession[q]] = "over"
      BY <1>1, <2>1 DEF SessionPart
    <3> QED
      BY <1>1, <1>3, <3>1, NegotiationNumbers DEF StartsTalk, CallerTypeOK
  <2>3. CASE q = r
    <3>1. /\ callStage'[r] \in {"woken", "waiting"}
          /\ callStage'[r] = "woken" => session' # NoSession
          /\ tries'[r] = 1 => callStage[r] = "401"
      BY <1>1, <2>1, <2>3 DEF Attempts, CallerTypeOK, RequestOK
    <3>2. callStage[r] = "401" => /\ attemptedSession[r] \notin {NoSession, session'}
                                  /\ Invalid(attemptedSession[r])
      BY <2>1, <2>3 DEF Attempts, Clears, RequestOK, NoSession
    <3> QED
      BY <1>2, <1>4, <2>1, <2>2, <2>3, <3>1, <3>2 DEF RequestOK, Invalid
  <2>4. CASE q # r
    <3>1. callStage'[q] = callStage[q] /\ tries'[q] = tries[q]
      BY <1>1, <2>4 DEF Attempts, CallerTypeOK
    <3>2. callStage[q] # "woken"
      BY DEF Attempts, Quiet
    <3> QED
      BY <1>2, <1>4, <2>1, <2>2, <2>4, <3>1, <3>2 DEF RequestOK, Invalid, Late
  <2> QED
    BY <2>3, <2>4
<1>11. RecoveryShared'
  BY <1>1, <1>2 DEF RecoveryShared
<1> QED
  BY <1>6, <1>7, <1>8, <1>9, <1>10, <1>11 DEF CallerIInv

(* A session that was sent in, or is current, is a finished negotiation.    *)
LEMMA SessionOver ==
    ASSUME CallerIInv
    PROVE  /\ session # NoSession => session \in Negotiation /\ talk[session] = "over"
           /\ \A r \in CRequest : attemptedSession[r] # NoSession =>
                  attemptedSession[r] \in Negotiation /\ talk[attemptedSession[r]] = "over"
BY DEF CallerIInv, CallerTypeOK, SessionPart

(* The daemon answers a negotiation.                                        *)
LEMMA TalkKeeps ==
    ASSUME CallerIInv, NEW n \in Negotiation, ChallengeComes(n) \/ ProofAccepted(n)
    PROVE  CallerIInv'
<1>1. CallerTypeOK /\ StartPart /\ TalkPart /\ SessionPart /\ RequestPart /\ RecoveryShared
  BY DEF CallerIInv
<1>2. /\ UNCHANGED <<session, authenticationEpoch, negotiation, talkEpoch, callStage, tries, waitsFor,
                     attemptedSession, attemptedEpoch, outcome, incarnation, expiredSessions>>
      /\ Negotiation' = Negotiation
  BY DEF ChallengeComes, ProofAccepted, callVars, peerVars, Negotiation
<1>3. \/ /\ talk[n] = "challenge" /\ talk' = [talk EXCEPT ![n] = "proof"]
         /\ origin' = [origin EXCEPT ![n] = incarnation]
      \/ talk[n] = "proof" /\ talk' = [talk EXCEPT ![n] = "ack"] /\ origin' = origin
  BY DEF ChallengeComes, ProofAccepted
<1>4. /\ RunningTalk(n) /\ RunningTalk(n)' /\ talk[n] # "over" /\ talk'[n] # "over"
      /\ talk'[n] \in {"proof", "ack"} /\ origin'[n] \in {origin[n], incarnation}
      /\ talk[n] = "proof" => origin'[n] = origin[n]
      /\ talk[n] # "proof" => origin'[n] = incarnation
      /\ \A m \in Negotiation : m # n => talk'[m] = talk[m] /\ origin'[m] = origin[m]
  BY <1>1, <1>3 DEF CallerTypeOK, RunningTalk
<1>5. \A m \in Negotiation : (RunningTalk(m)' <=> RunningTalk(m))
                             /\ (talk'[m] = "unused" <=> talk[m] = "unused")
  BY <1>4 DEF RunningTalk
<1>6. CallerTypeOK'
  <2>1. talk' \in [Negotiation -> {"unused", "challenge", "proof", "ack", "over"}]
        /\ origin' \in [Negotiation -> Nat]
    BY <1>1, <1>3 DEF CallerTypeOK
  <2> QED
    BY <1>1, <1>2, <2>1 DEF CallerTypeOK
<1>7. StartPart'
  <2>1. Called' = Called /\ Retried' = Retried
    BY <1>2 DEF Called, Retried
  <2> QED
    BY <1>1, <1>5, <2>1, StartUntouched DEF Called, Retried
<1>8. session # NoSession => session \in Negotiation /\ session # n
  BY <1>4, SessionOver
<1>9. TalkPart'
  <2>1. \A m \in Negotiation : origin'[m] <= incarnation
    BY <1>1, <1>4 DEF TalkPart, CallerTypeOK
  <2>2. session # NoSession => talk'[session] = "over" /\ talkEpoch[session] = authenticationEpoch
    BY <1>1, <1>4, <1>8 DEF TalkPart
  <2>3. \A m \in Negotiation : talk'[m] # "unused" => talkEpoch[m] <= authenticationEpoch
    BY <1>1, <1>5 DEF TalkPart
  <2> QED
    BY <1>1, <1>2, <1>5, <2>1, <2>2, <2>3 DEF TalkPart
<1>10. SessionPart'
  <2> SUFFICES ASSUME NEW s \in Negotiation,
                      s = session \/ (\E q \in CRequest : s = attemptedSession[q])
               PROVE  talk'[s] = "over" /\ (s = session \/ Superseded(s)') /\ Succession(s)'
    BY <1>2 DEF SessionPart
  <2>1. talk[s] = "over" /\ (s = session \/ Superseded(s)) /\ Succession(s)
    BY <1>1 DEF SessionPart
  <2>2. s # n /\ talk'[s] = "over" /\ origin'[s] = origin[s]
    BY <1>4, <2>1
  <2>3. Superseded(s) => Superseded(s)'
    BY <1>2, <2>2 DEF Superseded
  <2>4. Succession(s)'
    <3> SUFFICES ASSUME NEW m \in Negotiation, m > s, talk'[m] # "unused", s \notin expiredSessions
                 PROVE  /\ talkEpoch[s] < talkEpoch[m] /\ origin[s] < incarnation
                        /\ talk'[m] \in {"proof", "ack"} \/ m = session => origin[s] < origin'[m]
      BY <1>2, <2>2 DEF Succession
    <3>1. /\ talkEpoch[s] < talkEpoch[m] /\ origin[s] < incarnation
          /\ talk[m] \in {"proof", "ack"} \/ m = session => origin[s] < origin[m]
      BY <1>5, <2>1 DEF Succession
    <3> QED
      BY <1>4, <3>1
  <2> QED
    BY <2>1, <2>2, <2>3, <2>4
<1>11. RequestPart'
  <2> SUFFICES ASSUME NEW q \in CRequest PROVE RequestOK(q)'
    BY DEF RequestPart
  <2>1. RequestOK(q) /\ attemptedSession[q] \in Negotiation \cup {NoSession}
    BY <1>1 DEF RequestPart, CallerTypeOK
  <2>2. attemptedSession[q] # NoSession => origin'[attemptedSession[q]] = origin[attemptedSession[q]]
    BY <1>4, SessionOver
  <2> QED
    BY <1>2, <2>1, <2>2 DEF RequestOK, Invalid, Late
<1>12. RecoveryShared'
  BY <1>1, <1>2 DEF RecoveryShared
<1> QED
  BY <1>6, <1>7, <1>9, <1>10, <1>11, <1>12 DEF CallerIInv

(* A negotiation ends, and those who wait for it go on or end.              *)
LEMMA EndsKeep ==
    ASSUME CallerIInv, NEW n \in Negotiation, RunningTalk(n), NEW stage \in {"woken", "ended"},
           NEW why \in {"negotiation", "overtaken"},
           why = "overtaken" => expiredSessions # {},
           stage = "woken" => talk[n] = "ack",
           talk' = [talk EXCEPT ![n] = "over"],
           negotiation' = (IF negotiation = n THEN 0 ELSE negotiation),
           callStage' = [r \in CRequest |-> IF r \in WakesWaiters(n) THEN stage ELSE callStage[r]],
           UNCHANGED <<authenticationEpoch, talkEpoch, origin, tries, waitsFor, attemptedSession,
                       attemptedEpoch, incarnation, expiredSessions>>,
           \/ stage = "woken" /\ Installs(n) /\ session' = n /\ outcome' = outcome
           \/ /\ stage = "ended" /\ session' = session /\ Quiet
              /\ outcome' = [r \in CRequest |-> IF r \in WakesWaiters(n) THEN why ELSE outcome[r]]
    PROVE  CallerIInv'
<1>1. CallerTypeOK /\ StartPart /\ TalkPart /\ SessionPart /\ RequestPart /\ RecoveryShared
  BY DEF CallerIInv
<1>2. Negotiation' = Negotiation
  BY DEF Negotiation
<1>3. /\ talk[n] # "over" /\ talk[n] # "unused" /\ talk'[n] = "over"
      /\ ~RunningTalk(n)'
      /\ \A m \in Negotiation : m # n => talk'[m] = talk[m] /\ (RunningTalk(m)' <=> RunningTalk(m))
      /\ \A m \in Negotiation : talk'[m] = "unused" <=> talk[m] = "unused"
  BY <1>1 DEF CallerTypeOK, RunningTalk
<1>4. CallerTypeOK'
  <2>1. /\ talk' \in [Negotiation -> {"unused", "challenge", "proof", "ack", "over"}]
        /\ callStage' \in [CRequest -> {"idle", "waiting", "woken", "sent", "answered", "401", "ended"}]
    BY <1>1 DEF CallerTypeOK
  <2>2. outcome' \in [CRequest -> {"none", "ok", "refused", "aborted", "negotiation", "overtaken"}]
    BY <1>1 DEF CallerTypeOK
  <2>3. session' \in Negotiation \cup {NoSession} /\ negotiation' \in Negotiation \cup {0}
    BY <1>1 DEF CallerTypeOK
  <2> QED
    BY <1>1, <1>2, <2>1, <2>2, <2>3 DEF CallerTypeOK
<1>5. StartPart'
  <2>1. Called \subseteq Called' /\ Called' \subseteq CRequest
        /\ Retried \subseteq Retried' /\ Retried' \subseteq CRequest
    BY DEF Called, Retried, WakesWaiters
  <2> QED
    BY <1>1, <1>3, <2>1, StartUntouched
<1>6. session # NoSession => session \in Negotiation /\ session # n
  BY <1>3, SessionOver
<1>7. TalkPart'
  <2>1. session' # NoSession => talk'[session'] = "over" /\ talkEpoch[session'] = authenticationEpoch
    BY <1>1, <1>3, <1>6 DEF TalkPart, Installs
  <2>2. \A m \in Negotiation : talk'[m] # "unused" => talkEpoch[m] <= authenticationEpoch
    BY <1>1, <1>3 DEF TalkPart
  <2>3. ASSUME NEW m \in Negotiation, RunningTalk(m)'
        PROVE  /\ talkEpoch[m] = authenticationEpoch =>
                     negotiation' = m /\ \A k \in Negotiation : k > m => talk'[k] = "unused"
               /\ talkEpoch[m] < authenticationEpoch => expiredSessions # {}
    <3>1. m # n /\ RunningTalk(m)
      BY <1>3, <2>3
    <3> QED
      BY <1>1, <1>3, <3>1 DEF TalkPart
  <2> QED
    BY <1>1, <1>2, <2>1, <2>2, <2>3 DEF TalkPart
<1>8. stage = "woken" => /\ session' = n /\ talkEpoch[n] = authenticationEpoch
                         /\ \A m \in Negotiation : m > n => talk[m] = "unused"
  BY <1>1 DEF Installs, TalkPart
<1>9. ASSUME NEW s \in Negotiation, s = session \/ (\E q \in CRequest : s = attemptedSession[q])
      PROVE  /\ s # n /\ talk'[s] = "over" /\ Succession(s)' /\ (s = session' \/ Superseded(s)')
             /\ stage = "woken" => s < n
  <2>1. talk[s] = "over" /\ (s = session \/ Superseded(s)) /\ Succession(s) /\ s # n
    BY <1>1, <1>3, <1>9 DEF SessionPart
  <2>2. stage = "woken" => s < n
    BY <1>8, <2>1, NegotiationNumbers
  <2>3. s = session' \/ Superseded(s)'
    <3>1. CASE stage = "woken" /\ s = session
      <4>1. talkEpoch[s] = authenticationEpoch /\ talkEpoch[n] = authenticationEpoch
            /\ authenticationEpoch \in Nat
        BY <1>1, <1>8, <3>1, NegotiationNumbers DEF TalkPart, CallerTypeOK, NoSession
      <4>2. s \in expiredSessions
        BY <1>3, <2>1, <2>2, <3>1, <4>1, NegotiationNumbers DEF Succession
      <4> QED
        BY <4>2 DEF Superseded
    <3>2. CASE ~(stage = "woken" /\ s = session)
      BY <2>1, <3>2 DEF Superseded
    <3> QED
      BY <3>1, <3>2
  <2>4. Succession(s)'
    <3> SUFFICES ASSUME NEW m \in Negotiation, m > s, talk'[m] # "unused", s \notin expiredSessions
                 PROVE  /\ talkEpoch[s] < talkEpoch[m] /\ origin[s] < incarnation
                        /\ talk'[m] \in {"proof", "ack"} \/ m = session' => origin[s] < origin[m]
      BY <1>2 DEF Succession
    <3>1. /\ talkEpoch[s] < talkEpoch[m] /\ origin[s] < incarnation
          /\ talk[m] \in {"proof", "ack"} \/ m = session => origin[s] < origin[m]
      BY <1>3, <2>1 DEF Succession
    <3>2. m # n => (talk'[m] \in {"proof", "ack"} => talk[m] \in {"proof", "ack"})
      BY <1>3
    <3>3. m = session' => m = session \/ talk[m] \in {"proof", "ack"}
      OBVIOUS
    <3> QED
      BY <1>3, <3>1, <3>2, <3>3
  <2> QED
    BY <1>3, <2>1, <2>2, <2>3, <2>4
<1>10. SessionPart'
  <2>1. ASSUME stage = "woken"
        PROVE  talk'[n] = "over" /\ Succession(n)' /\ n = session'
    <3>1. \A m \in Negotiation : m > n => talk'[m] = "unused"
      BY <1>3, <1>8, <2>1
    <3> QED
      BY <1>2, <1>3, <1>8, <2>1, <3>1 DEF Succession
  <2>2. session' = session \/ (stage = "woken" /\ session' = n)
    OBVIOUS
  <2>3. \A s \in Negotiation :
            s = session' \/ (\E q \in CRequest : s = attemptedSession[q]) =>
                talk'[s] = "over" /\ (s = session' \/ Superseded(s)') /\ Succession(s)'
    BY <1>9, <2>1, <2>2
  <2> QED
    BY <1>2, <2>3 DEF SessionPart
<1>11. RequestPart'
  <2> SUFFICES ASSUME NEW q \in CRequest PROVE RequestOK(q)'
    BY DEF RequestPart
  <2>1. RequestOK(q) /\ attemptedSession[q] \in Negotiation \cup {NoSession}
    BY <1>1 DEF RequestPart, CallerTypeOK
  <2>2. attemptedSession[q] # NoSession =>
            attemptedSession[q] # n /\ (stage = "woken" => attemptedSession[q] < n)
    BY <1>9, <2>1
  <2>3. /\ session # NoSession => session' # NoSession
        /\ session' \in {session, n} /\ n \in Nat \ {0}
        /\ stage = "woken" => session' = n
        /\ stage # "woken" => session' = session
    BY NegotiationNumbers DEF NoSession
  <2>4. session' # NoSession => attemptedSession[q] <= session'
    <3>1. CASE stage = "woken"
      BY <2>1, <2>2, <2>3, <3>1, NegotiationNumbers DEF NoSession
    <3>2. CASE stage # "woken"
      BY <2>1, <2>3, <3>2 DEF RequestOK
    <3> QED
      BY <3>1, <3>2
  <2>5. \/ callStage'[q] = callStage[q]
        \/ callStage[q] = "waiting" /\ callStage'[q] = stage
    BY DEF WakesWaiters
  <2>6. CASE callStage'[q] = callStage[q]
    <3>1. callStage[q] \in {"waiting", "woken"} /\ tries[q] = 1 => attemptedSession[q] # session'
      BY <2>1, <2>2, <2>3 DEF RequestOK
    <3> QED
      BY <2>1, <2>3, <2>4, <2>6, <3>1 DEF RequestOK, Invalid, Late
  <2>7. CASE callStage[q] = "waiting" /\ callStage'[q] = stage
    <3>1. tries[q] = 1 => attemptedSession[q] \notin {NoSession, session'}
      BY <2>1, <2>2, <2>3, <2>7 DEF RequestOK
    <3>2. stage = "woken" => session' # NoSession
      BY <2>3 DEF NoSession
    <3> QED
      BY <2>1, <2>4, <2>7, <3>1, <3>2 DEF RequestOK, Invalid
  <2> QED
    BY <2>5, <2>6, <2>7
<1>12. RecoveryShared'
  <2>1. \A q \in CRequest : outcome'[q] = outcome[q] \/ outcome'[q] = why
    BY <1>1 DEF CallerTypeOK
  <2> QED
    BY <1>1, <2>1 DEF RecoveryShared
<1> QED
  BY <1>4, <1>5, <1>7, <1>10, <1>11, <1>12 DEF CallerIInv

(* The promise of a negotiation settles.                                    *)
LEMMA SettlesKeep ==
    ASSUME CallerIInv, NEW n \in Negotiation,
           ProofRefused(n) \/ NegotiationDrops(n) \/ AckArrives(n)
    PROVE  CallerIInv'
<1>1. CallerTypeOK /\ TalkPart /\ RunningTalk(n) /\ Quiet
      /\ UNCHANGED <<incarnation, expiredSessions>>
  BY DEF CallerIInv, ProofRefused, NegotiationDrops, AckArrives, RunningTalk, peerVars
<1>2. ASSUME NEW why \in {"negotiation", "overtaken"}, NegotiationRejects(n, why),
             why = "overtaken" => expiredSessions # {}
      PROVE  CallerIInv'
  BY <1>1, <1>2, EndsKeep DEF NegotiationRejects
<1>3. CASE ProofRefused(n) \/ NegotiationDrops(n)
  BY <1>2, <1>3 DEF ProofRefused, NegotiationDrops
<1>4. CASE AckArrives(n) /\ Installs(n)
  BY <1>1, <1>4, EndsKeep DEF AckArrives
<1>5. CASE AckArrives(n) /\ ~Installs(n)
  <2>1. talkEpoch[n] < authenticationEpoch
    BY <1>1, <1>5 DEF AckArrives, Installs, TalkPart, CallerTypeOK
  <2>2. NegotiationRejects(n, "overtaken") /\ expiredSessions # {}
    BY <1>1, <1>5, <2>1 DEF AckArrives, TalkPart
  <2> QED
    BY <1>2, <2>2
<1> QED
  BY <1>3, <1>4, <1>5

(* The daemon is replaced, or a session expires.                            *)
LEMMA InvalidationKeeps ==
    ASSUME CallerIInv, DaemonRestarts \/ (\E n \in Negotiation : SessionExpires(n))
    PROVE  CallerIInv'
<1>1. CallerTypeOK /\ StartPart /\ TalkPart /\ SessionPart /\ RequestPart /\ RecoveryShared
  BY DEF CallerIInv
<1>2. /\ UNCHANGED <<session, authenticationEpoch, negotiation, talk, talkEpoch, origin, callStage,
                     tries, waitsFor, attemptedSession, attemptedEpoch, outcome>>
      /\ Negotiation' = Negotiation
  BY DEF DaemonRestarts, SessionExpires, talkVars, callVars, Negotiation
<1>3. /\ incarnation' \in Nat /\ incarnation' >= incarnation
      /\ expiredSessions \subseteq expiredSessions' /\ expiredSessions' \subseteq Negotiation
  BY <1>1 DEF DaemonRestarts, SessionExpires, CallerTypeOK
<1>4. IsFiniteSet(Negotiation)
  BY NegotiationNumbers, FS_Interval DEF Negotiation
<1>5. CallerTypeOK'
  BY <1>1, <1>2, <1>3 DEF CallerTypeOK
<1>6. StartPart'
  <2>1. Called' = Called /\ Retried' = Retried
    BY <1>2 DEF Called, Retried
  <2> QED
    BY <1>1, <1>2, <2>1, StartUntouched DEF Called, Retried
<1>7. TalkPart'
  BY <1>1, <1>2, <1>3 DEF TalkPart, RunningTalk, CallerTypeOK
<1>8. SessionPart'
  <2> SUFFICES ASSUME NEW s \in Negotiation,
                      s = session \/ (\E q \in CRequest : s = attemptedSession[q])
               PROVE  talk[s] = "over" /\ (s = session \/ Superseded(s)') /\ Succession(s)'
    BY <1>2 DEF SessionPart
  <2>1. talk[s] = "over" /\ (s = session \/ Superseded(s)) /\ Succession(s)
    BY <1>1 DEF SessionPart
  <2>2. origin[s] < incarnation => origin[s] < incarnation'
    BY <1>1, <1>3 DEF CallerTypeOK
  <2>3. Superseded(s) => Superseded(s)'
    BY <1>2, <1>3, <2>2 DEF Superseded
  <2>4. Succession(s)'
    BY <1>2, <1>3, <2>1, <2>2 DEF Succession
  <2> QED
    BY <2>1, <2>3, <2>4
<1>9. RequestPart'
  <2> SUFFICES ASSUME NEW q \in CRequest PROVE RequestOK(q)'
    BY DEF RequestPart
  <2>1. RequestOK(q) /\ attemptedSession[q] \in Negotiation \cup {NoSession}
    BY <1>1 DEF RequestPart, CallerTypeOK
  <2>2. attemptedSession[q] # NoSession =>
            /\ Invalid(attemptedSession[q]) => Invalid(attemptedSession[q])'
            /\ Late(attemptedSession[q]) => Late(attemptedSession[q])'
    BY <1>1, <1>2, <1>3, <2>1 DEF Invalid, Late, CallerTypeOK
  <2> QED
    BY <1>2, <2>1, <2>2 DEF RequestOK
<1>10. RecoveryShared'
  <2>1. /\ Cardinality(expiredSessions) \in Nat /\ Cardinality(expiredSessions') \in Nat
        /\ Cardinality(expiredSessions) <= Cardinality(expiredSessions')
    <3>1. IsFiniteSet(expiredSessions')
      BY <1>3, <1>4, FS_Subset
    <3> QED
      BY <1>3, <3>1, FS_Subset, FS_CardinalityType
  <2>2. incarnation \in Nat
    BY <1>1 DEF CallerTypeOK
  <2>3. incarnation + Cardinality(expiredSessions) >= 2 =>
            incarnation' + Cardinality(expiredSessions') >= 2
    BY <1>3, <2>1, <2>2
  <2> QED
    BY <1>1, <1>2, <1>3, <2>3 DEF RecoveryShared
<1> QED
  BY <1>5, <1>6, <1>7, <1>8, <1>9, <1>10 DEF CallerIInv

(* The caller before its first request.                                     *)
LEMMA CallerInitIInv ==
    ASSUME CallerInit
    PROVE  CallerIInv
<1>1. /\ session \in {0, 1} /\ NoSession = 0 /\ 1 \in Negotiation /\ Negotiation \subseteq Nat \ {0}
      /\ Cardinality(CRequest) \in Nat
  BY NegotiationNumbers DEF CallerInit, NoSession
<1>2. CallerTypeOK
  BY <1>1 DEF CallerInit, CallerTypeOK
<1>3. StartPart
  <2>1. Cardinality(Called) \in Nat /\ Cardinality(Retried) \in Nat
    BY MoreRequests DEF Called, Retried
  <2>2. session \in Nat /\ session <= 1 + Cardinality(Called) + Cardinality(Retried)
    BY <1>1, <2>1
  <2>3. \A n \in Negotiation : talk[n] # "unused" <=> n <= session
    BY <1>1 DEF CallerInit
  <2> QED
    BY <2>2, <2>3 DEF StartPart
<1>4. TalkPart
  BY <1>1 DEF CallerInit, TalkPart, RunningTalk
<1>5. SessionPart
  <2> SUFFICES ASSUME NEW s \in Negotiation,
                      s = session \/ (\E q \in CRequest : s = attemptedSession[q])
               PROVE  talk[s] = "over" /\ (s = session \/ Superseded(s)) /\ Succession(s)
    BY DEF SessionPart
  <2>1. s = session /\ s = 1
    BY <1>1 DEF CallerInit
  <2>2. \A n \in Negotiation : n > s => talk[n] = "unused"
    BY <1>1, <2>1 DEF CallerInit
  <2> QED
    BY <1>1, <2>1, <2>2 DEF CallerInit, Succession
<1>6. RequestPart
  BY <1>1 DEF CallerInit, RequestPart, RequestOK
<1>7. RecoveryShared
  BY DEF CallerInit, RecoveryShared
<1> QED
  BY <1>2, <1>3, <1>4, <1>5, <1>6, <1>7 DEF CallerIInv

(* Every step of the caller.                                                *)
LEMMA CallerInvariance ==
    ASSUME CallerIInv, [CallerNext]_callerVars
    PROVE  CallerIInv'
<1>1. CASE UNCHANGED callerVars
  <2>1. /\ UNCHANGED <<session, authenticationEpoch, negotiation, talk, talkEpoch, origin, callStage,
                       tries, waitsFor, attemptedSession, attemptedEpoch, outcome, incarnation,
                       expiredSessions>>
        /\ Negotiation' = Negotiation /\ Called' = Called /\ Retried' = Retried
    BY <1>1 DEF callerVars, talkVars, callVars, peerVars, Negotiation, Called, Retried
  <2>2. CallerTypeOK' /\ RecoveryShared'
    BY <2>1 DEF CallerIInv, CallerTypeOK, RecoveryShared
  <2>3. StartPart' /\ TalkPart'
    BY <2>1 DEF CallerIInv, StartPart, TalkPart, RunningTalk
  <2>4. SessionPart'
    BY <2>1 DEF CallerIInv, SessionPart, Superseded, Succession
  <2>5. RequestPart'
    BY <2>1 DEF CallerIInv, RequestPart, RequestOK, Invalid, Late
  <2> QED
    BY <2>2, <2>3, <2>4, <2>5 DEF CallerIInv
<1>2. ASSUME NEW r \in CRequest, CallRequest(r) \/ CallProgress(r) \/ CallAborted(r)
      PROVE  CallerIInv'
  <2>1. CASE CallRequest(r) \/ (RefusalArrives(r) /\ tries[r] = 0)
    BY <2>1, AttemptCases, AttemptKeeps
  <2>2. CASE ~(CallRequest(r) \/ (RefusalArrives(r) /\ tries[r] = 0))
    <3>1. tries[r] \in {0, 1}
      BY DEF CallerIInv, CallerTypeOK
    <3> QED
      BY <1>2, <2>2, <3>1, CallKeeps DEF CallProgress
  <2> QED
    BY <2>1, <2>2
<1>3. ASSUME NEW n \in Negotiation, TalkProgress(n) \/ NegotiationDrops(n) PROVE CallerIInv'
  BY <1>3, TalkKeeps, SettlesKeep DEF TalkProgress
<1>4. CASE DaemonRestarts \/ (\E n \in Negotiation : SessionExpires(n))
  BY <1>4, InvalidationKeeps
<1> QED
  BY <1>1, <1>2, <1>3, <1>4 DEF CallerNext

(* RecoveryShared, for any requests and any number of restarts, expiries    *)
(* and failed fetches: a request fails for good only after two sessions     *)
(* were invalidated, and a wait is overtaken only after one expired         *)
(* (request() and negotiate() of clientAuthentication.ts).                  *)
THEOREM CallerRecovers == CallerSpec => []RecoveryShared
<1>1. CallerInit => CallerIInv
  BY CallerInitIInv
<1>2. CallerIInv /\ [CallerNext]_callerVars => CallerIInv'
  BY CallerInvariance
<1>3. CallerIInv => RecoveryShared
  BY DEF CallerIInv
<1> QED
  BY <1>1, <1>2, <1>3, PTL DEF CallerSpec

(* SessionAdvances: only the latest negotiation of the current epoch        *)
(* installs its session (the epoch check of negotiate()).                   *)
THEOREM CallerAdvances == CallerSpec => SessionAdvances
<1> DEFINE A == session' # session /\ session' # NoSession =>
                    /\ session' > session
                    /\ \A n \in Negotiation : n > session' => talkEpoch[n] = authenticationEpoch
                                                              \/ talk[n] = "unused"
<1>1. CallerInit => CallerIInv
  BY CallerInitIInv
<1>2. CallerIInv /\ [CallerNext]_callerVars => CallerIInv'
  BY CallerInvariance
<1>3. ASSUME CallerIInv, CallerNext PROVE A
  <2>1. ASSUME NEW n \in Negotiation, AckArrives(n), Installs(n), session' = n PROVE A
    <3>1. \A m \in Negotiation : m > n => talk[m] = "unused"
      BY <1>3, <2>1 DEF AckArrives, Installs, CallerIInv, TalkPart, RunningTalk
    <3>2. session \in Nat /\ (session # NoSession => session \in Negotiation /\ talk[session] = "over")
      BY <1>3, SessionOver, NegotiationNumbers DEF CallerIInv, CallerTypeOK, NoSession
    <3>3. session < n
      BY <2>1, <3>1, <3>2, NegotiationNumbers DEF AckArrives, NoSession
    <3> QED
      BY <2>1, <3>1, <3>2, <3>3, NegotiationNumbers
  <2>2. ASSUME ~(\E n \in Negotiation : AckArrives(n) /\ Installs(n))
        PROVE  session' = session \/ session' = NoSession
    BY <1>3, <2>2 DEF CallerNext, CallProgress, TalkProgress, CallRequest, SendSigned,
       DaemonAuthenticates, AnswerArrives, RefusalArrives, CallAborted, ChallengeComes,
       ProofAccepted, ProofRefused, NegotiationDrops, NegotiationRejects, AckArrives,
       DaemonRestarts, SessionExpires
  <2>3. \A n \in Negotiation : AckArrives(n) /\ Installs(n) => session' = n
    BY DEF AckArrives, NegotiationRejects
  <2> QED
    BY <2>1, <2>2, <2>3
<1>4. CallerIInv /\ [CallerNext]_callerVars => [A]_callerVars
  BY <1>3
<1>5. CallerSpec => [][A]_callerVars
  BY <1>1, <1>2, <1>4, PTL DEF CallerSpec
<1> QED
  BY <1>5 DEF SessionAdvances
===============================================================================

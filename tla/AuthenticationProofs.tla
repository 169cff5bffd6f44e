------------------------- MODULE AuthenticationProofs -------------------------
(***************************************************************************)
(* Theorems about who is let in: the authenticator, for every number of    *)
(* overlapping proofs and requests and every limit, and the credential     *)
(* files, for every number of processes and roles and whoever is killed.   *)
(***************************************************************************)
EXTENDS HelloAuthentication, CredentialStore, DataLemmas

-----------------------------------------------------------------------------
(* The authenticator.                                                      *)

(* What the variables may hold.  Of a grant only its existence matters.    *)
AnyGrant == Grant \cup {CHOOSE g \in Grant : TRUE}

(* What the variables hold, one operator for each kind of thing.            *)
ChallengeTypeOK ==
    /\ challenges \subseteq ChallengeId /\ reservedChallengeIds \subseteq ChallengeId
    /\ challengeHeld \subseteq ChallengeId
    /\ outdatedIssues \subseteq reservedChallengeIds
    /\ challengeGrant \in [ChallengeId -> AnyGrant]
    /\ challengeBytes \in [ChallengeId -> Nat]
    /\ nextChallenge \in 1..(MaxChallengeIds + 1)
    /\ clearedBelow \in 1..nextChallenge

HelloTypeOK ==
    /\ helloStage \in [Hello -> {"idle", "verifying", "hashing", "signing"}]
    /\ helloChallenge \in [Hello -> ChallengeId \cup {0}]
    /\ helloOutdated \in [Hello -> BOOLEAN]
    /\ helloSession \in [Hello -> SessionId \cup {0}]
    /\ accepted \in [ChallengeId -> Nat]

SessionTypeOK ==
    /\ callerSessions \subseteq SessionId /\ sessionHeld \subseteq SessionId
    /\ sessionGrant \in [SessionId -> AnyGrant]
    /\ sessionBytes \in [SessionId -> Nat]
    /\ nextSession \in 1..(MaxSessionIds + 1)
    /\ sessionOrigin \in [SessionId -> ChallengeId \cup {0}]

RequestTypeOK ==
    /\ highest \in [SessionId -> 0..MaxSequence]
    /\ bitmap \in [SessionId -> SUBSET (0..(Window - 1))]
    /\ admitted \in [SessionId -> [1..MaxSequence -> Nat]]
    /\ requestStage \in [Request -> {"idle", "verifying", "admitted", "digesting", "signing"}]
    /\ requestSession \in [Request -> SessionId \cup {0}]
    /\ requestSequence \in [Request -> 0..MaxSequence]
    /\ \A r \in Request : requestStage[r] # "idle" => requestSession[r] # 0

AuthTypeOK == ChallengeTypeOK /\ HelloTypeOK /\ SessionTypeOK /\ RequestTypeOK

(* A proof is being worked on.                                              *)
Working(h) == helloStage[h] # "idle"

(* A challenge is offered, being signed or being consumed by one hello,    *)
(* and was not accepted before.                                            *)
ChallengesOwned ==
    /\ challenges \cap reservedChallengeIds = {}
    /\ \A h \in Hello :
          /\ ~Working(h) => helloChallenge[h] = 0 /\ helloSession[h] = 0 /\ ~helloOutdated[h]
          /\ Working(h) => helloChallenge[h] \in ChallengeId \ (challenges \cup reservedChallengeIds)
    /\ \A h, i \in Hello : Working(h) /\ helloChallenge[h] = helloChallenge[i] => h = i
    /\ challengeHeld = challenges \cup reservedChallengeIds
                         \cup {helloChallenge[h] : h \in {x \in Hello : helloStage[x] # "idle"}}
    /\ \A c \in ChallengeId :
          /\ accepted[c] <= 1
          /\ c \in challengeHeld \/ c >= nextChallenge => accepted[c] = 0
          /\ c \in challengeHeld => c < nextChallenge

(* A session is published or belongs to the hello of a caller that is      *)
(* having its acknowledgement signed.                                      *)
SessionsOwned ==
    /\ \A h \in Hello :
          /\ helloSession[h] # 0 <=> helloStage[h] = "signing" /\ IsCaller(h)
          /\ helloSession[h] \notin callerSessions
          /\ helloSession[h] # 0 => sessionOrigin[helloSession[h]] = helloChallenge[h]
    /\ \A h, i \in Hello : helloSession[h] # 0 /\ helloSession[h] = helloSession[i] => h = i
    /\ sessionHeld = callerSessions \cup ({helloSession[h] : h \in Hello} \ {0})
    /\ \A s \in sessionHeld : s < nextSession

(* The capacity that is held is within the limits.                         *)
ChallengeCapacity ==
    /\ Cardinality(challengeHeld) <= maxChallenges
    /\ Reserved(challengeBytes, challengeHeld) <= maxChallengeBytes

(* The same for the sessions of callers.                                    *)
SessionCapacity ==
    /\ Cardinality(sessionHeld) <= maxCallerSessions
    /\ Reserved(sessionBytes, sessionHeld) <= maxCallerSessionsBytes

(* What clear() did not see is offered, or is noticed when it is signed.   *)
ChallengesAfterClear ==
    /\ \A c \in challenges \cup (reservedChallengeIds \ outdatedIssues) : c >= clearedBelow
    /\ \A h \in Hello : Working(h) /\ ~helloOutdated[h] => helloChallenge[h] >= clearedBelow

(* No session that is published came of a challenge clear() saw.            *)
SessionsAfterClear == \A s \in callerSessions : sessionOrigin[s] >= clearedBelow

(* The invariant in three parts: challenges, sessions and replay windows.   *)
ChallengePart ==
    ChallengeTypeOK /\ HelloTypeOK /\ ChallengesOwned /\ ChallengeCapacity /\ ChallengesAfterClear

SessionPart == SessionTypeOK /\ SessionsOwned /\ SessionCapacity /\ SessionsAfterClear

ReplayPart == RequestTypeOK /\ ReplayWindowExact

AuthIInv == ChallengePart /\ SessionPart /\ ReplayPart

-----------------------------------------------------------------------------
(* What is held may shrink.                                                *)
LEMMA ChallengesShrink ==
    ASSUME ChallengeTypeOK, ChallengeCapacity, challengeHeld' \subseteq challengeHeld,
           \A c \in challengeHeld' : challengeBytes'[c] = challengeBytes[c]
    PROVE  ChallengeCapacity'
<1>1. IsFiniteSet(challengeHeld) /\ IsFiniteSet(challengeHeld')
  BY IdsFinite, AuthLimitsAssumption DEF ChallengeTypeOK, ChallengeId
<1>2. \A c \in challengeHeld : challengeBytes[c] \in Nat
  BY DEF ChallengeTypeOK
<1>3. /\ Reserved(challengeBytes, challengeHeld') <= Reserved(challengeBytes, challengeHeld)
      /\ Cardinality(challengeHeld') <= Cardinality(challengeHeld)
  BY <1>1, <1>2, ReservedMonotone
<1>4. Reserved(challengeBytes', challengeHeld') = Reserved(challengeBytes, challengeHeld')
  BY ReservedSame
<1>5. /\ Reserved(challengeBytes, challengeHeld') \in Nat
      /\ Reserved(challengeBytes, challengeHeld) \in Nat
      /\ Cardinality(challengeHeld) \in Nat /\ Cardinality(challengeHeld') \in Nat
  BY <1>1, <1>2, ReservedType, FS_CardinalityType
<1> QED
  BY <1>3, <1>4, <1>5, AuthLimitsAssumption DEF ChallengeCapacity

(* Sessions that end or fail give back what they held.                      *)
LEMMA SessionsShrink ==
    ASSUME SessionTypeOK, SessionCapacity, sessionHeld' \subseteq sessionHeld,
           \A s \in sessionHeld' : sessionBytes'[s] = sessionBytes[s]
    PROVE  SessionCapacity'
<1>1. IsFiniteSet(sessionHeld) /\ IsFiniteSet(sessionHeld')
  BY IdsFinite, AuthLimitsAssumption DEF SessionTypeOK, SessionId
<1>2. \A s \in sessionHeld : sessionBytes[s] \in Nat
  BY DEF SessionTypeOK
<1>3. /\ Reserved(sessionBytes, sessionHeld') <= Reserved(sessionBytes, sessionHeld)
      /\ Cardinality(sessionHeld') <= Cardinality(sessionHeld)
  BY <1>1, <1>2, ReservedMonotone
<1>4. Reserved(sessionBytes', sessionHeld') = Reserved(sessionBytes, sessionHeld')
  BY ReservedSame
<1>5. /\ Reserved(sessionBytes, sessionHeld') \in Nat
      /\ Reserved(sessionBytes, sessionHeld) \in Nat
      /\ Cardinality(sessionHeld) \in Nat /\ Cardinality(sessionHeld') \in Nat
  BY <1>1, <1>2, ReservedType, FS_CardinalityType
<1> QED
  BY <1>3, <1>4, <1>5, AuthLimitsAssumption DEF SessionCapacity

-----------------------------------------------------------------------------
(* Deleting sessions resets their replay windows.                          *)
LEMMA DeleteReplay ==
    ASSUME ReplayPart, NEW ids, DeleteCallerSessions(ids)
    PROVE  /\ highest' \in [SessionId -> 0..MaxSequence]
           /\ bitmap' \in [SessionId -> SUBSET (0..(Window - 1))]
           /\ admitted' \in [SessionId -> [1..MaxSequence -> Nat]]
           /\ ReplayWindowExact'
<1> DEFINE gone == ids \cap callerSessions
<1>1. /\ highest' = [s \in SessionId |-> IF s \in gone THEN 0 ELSE highest[s]]
      /\ bitmap' = [s \in SessionId |-> IF s \in gone THEN {} ELSE bitmap[s]]
      /\ admitted' = [s \in SessionId |-> IF s \in gone THEN NoneAdmitted ELSE admitted[s]]
  BY DEF DeleteCallerSessions
<1> HIDE DEF gone
<1>2. 0 \in 0..MaxSequence /\ NoneAdmitted \in [1..MaxSequence -> Nat]
  BY AuthLimitsAssumption DEF NoneAdmitted
<1>3. highest' \in [SessionId -> 0..MaxSequence]
  BY <1>1, <1>2 DEF ReplayPart, RequestTypeOK
<1>4. bitmap' \in [SessionId -> SUBSET (0..(Window - 1))]
  BY <1>1 DEF ReplayPart, RequestTypeOK
<1>5. admitted' \in [SessionId -> [1..MaxSequence -> Nat]]
  BY <1>1, <1>2 DEF ReplayPart, RequestTypeOK
<1>6. ASSUME NEW s \in SessionId
      PROVE  LET seen == {q \in 1..MaxSequence : admitted'[s][q] > 0}
             IN  /\ \A q \in 1..MaxSequence :
                      admitted'[s][q] <= 1 /\ (q \in seen => q <= highest'[s])
                 /\ highest'[s] \in seen \cup {0}
                 /\ bitmap'[s] = {highest'[s] - q : q \in seen} \cap 0..(Window - 1)
  <2>1. CASE s \in gone
    <3>1. highest'[s] = 0 /\ bitmap'[s] = {} /\ \A q \in 1..MaxSequence : admitted'[s][q] = 0
      BY <1>1, <2>1 DEF NoneAdmitted
    <3>2. {q \in 1..MaxSequence : admitted'[s][q] > 0} = {}
      BY <3>1
    <3> QED
      BY <3>1, <3>2
  <2>2. CASE s \notin gone
    <3>1. highest'[s] = highest[s] /\ bitmap'[s] = bitmap[s] /\ admitted'[s] = admitted[s]
      BY <1>1, <2>2
    <3> QED
      BY <3>1 DEF ReplayPart, ReplayWindowExact
  <2> QED
    BY <2>1, <2>2
<1>7. ReplayWindowExact'
  BY <1>6 DEF ReplayWindowExact
<1> QED
  BY <1>3, <1>4, <1>5, <1>7

(* Admitting a number keeps the bitmap the picture of what was admitted.   *)
LEMMA AdmitReplay ==
    ASSUME ReplayPart, NEW s \in SessionId, NEW q \in 1..MaxSequence, Admits(s, q), Admit(s, q)
    PROVE  /\ highest' \in [SessionId -> 0..MaxSequence]
           /\ bitmap' \in [SessionId -> SUBSET (0..(Window - 1))]
           /\ admitted' \in [SessionId -> [1..MaxSequence -> Nat]]
           /\ ReplayWindowExact'
<1> DEFINE top == highest[s]
           map == bitmap[s]
           seen == {x \in 1..MaxSequence : admitted[s][x] > 0}
           newTop == IF q > top THEN q ELSE top
           newMap == IF q <= top THEN map \cup {top - q} ELSE Shifted(s, q) \cup {0}
           newSeen == {x \in 1..MaxSequence : admitted'[s][x] > 0}
<1>1. /\ top \in 0..MaxSequence /\ map \in SUBSET (0..(Window - 1))
      /\ admitted[s] \in [1..MaxSequence -> Nat]
      /\ q \in Int /\ q >= 1 /\ q <= MaxSequence /\ MaxSequence \in Nat /\ Window \in Nat \ {0}
  BY AuthLimitsAssumption DEF ReplayPart, RequestTypeOK
<1>2. /\ highest' = [highest EXCEPT ![s] = newTop]
      /\ bitmap' = [bitmap EXCEPT ![s] = newMap]
      /\ admitted' = [admitted EXCEPT ![s] = [admitted[s] EXCEPT ![q] = @ + 1]]
  BY DEF Admit, ReplayPart, RequestTypeOK
<1>3. /\ \A x \in 1..MaxSequence : admitted[s][x] <= 1 /\ (x \in seen => x <= top)
      /\ top \in seen \cup {0}
      /\ map = {top - x : x \in seen} \cap 0..(Window - 1)
  BY DEF ReplayPart, ReplayWindowExact
<1>4. newTop \in 0..MaxSequence
  BY <1>1
<1>5. \A d : d \in newMap <=> IF q <= top THEN d \in map \/ d = top - q
                              ELSE d = 0 \/ (d \in 0..(Window - 1) /\ d - (q - top) \in map)
  <2>1. \A d : d \in Shifted(s, q) <=> d \in 0..(Window - 1) /\ d - (q - top) \in map
    <3>1. \A d : d \in Shifted(s, q) <=> d \in 0..(Window - 1) /\ \E e \in map : d = e + (q - top)
      BY DEF Shifted
    <3>2. \A d \in 0..(Window - 1) :
             (\E e \in map : d = e + (q - top)) <=> d - (q - top) \in map
      <4>1. \A e \in map : e \in Int
        BY <1>1
      <4> QED
        BY <1>1, <4>1
    <3> QED
      BY <3>1, <3>2
  <2> QED
    BY <2>1
<1>6. newMap \in SUBSET (0..(Window - 1))
  <2>1. q <= top => top - q \in 0..(Window - 1)
    BY <1>1 DEF Admits
  <2> QED
    BY <1>1, <1>5, <2>1
<1>7. /\ highest' \in [SessionId -> 0..MaxSequence]
      /\ bitmap' \in [SessionId -> SUBSET (0..(Window - 1))]
  BY <1>2, <1>4, <1>6 DEF ReplayPart, RequestTypeOK
<1>8. admitted' \in [SessionId -> [1..MaxSequence -> Nat]]
  BY <1>1, <1>2 DEF ReplayPart, RequestTypeOK
<1>9. q \notin seen
  <2>1. CASE q > top
    BY <1>1, <1>3, <2>1
  <2>2. CASE q <= top
    <3>1. top - q \in 0..(Window - 1) /\ top - q \notin map
      BY <1>1, <2>2 DEF Admits
    <3> QED
      BY <1>1, <1>3, <3>1
  <2> QED
    BY <1>1, <2>1, <2>2
<1>10. /\ highest'[s] = newTop /\ bitmap'[s] = newMap
       /\ \A x \in 1..MaxSequence : admitted'[s][x] = IF x = q THEN admitted[s][q] + 1
                                                      ELSE admitted[s][x]
  BY <1>1, <1>2 DEF ReplayPart, RequestTypeOK
<1>11. newSeen = seen \cup {q}
  <2>1. \A x \in 1..MaxSequence : admitted[s][x] \in Nat
    BY <1>1
  <2> QED
    BY <1>10, <2>1
<1> HIDE DEF newSeen, newMap, seen, map
<1>12. \A x \in 1..MaxSequence : admitted'[s][x] <= 1 /\ (x \in newSeen => x <= newTop)
  <2>1. admitted[s][q] = 0
    BY <1>1, <1>9 DEF seen
  <2> QED
    BY <1>1, <1>3, <1>10, <1>11, <2>1
<1>13. newTop \in newSeen \cup {0}
  BY <1>1, <1>3, <1>11
<1>14. newMap = {newTop - x : x \in newSeen} \cap 0..(Window - 1)
  <2>1. \A x \in seen : x \in 1..MaxSequence
    BY DEF seen
  <2>2. ASSUME NEW d \in 0..(Window - 1)
        PROVE  d \in newMap <=> \E x \in seen \cup {q} : d = newTop - x
    <3>1. \A e \in 0..(Window - 1) : e \in map <=> \E x \in seen : e = top - x
      BY <1>3
    <3>2. CASE q <= top
      BY <1>1, <1>5, <2>1, <3>1, <3>2
    <3>3. CASE q > top
      <4>1. newTop = q /\ \A x \in seen : x <= top
        BY <1>1, <1>3, <2>1, <3>3
      <4>2. d \in newMap <=> d = 0 \/ d - (q - top) \in map
        BY <1>1, <1>5, <3>3
      <4>3. d - (q - top) \in map <=> \E x \in seen : d = q - x
        <5>1. ASSUME NEW x \in seen, d = q - x
              PROVE  d - (q - top) \in 0..(Window - 1) /\ d - (q - top) = top - x
          BY <1>1, <2>1, <3>3, <4>1, <5>1
        <5>2. ASSUME d - (q - top) \in map
              PROVE  \E x \in seen : d = q - x
          <6>1. d - (q - top) \in 0..(Window - 1)
            BY <1>1, <5>2
          <6>2. PICK x \in seen : d - (q - top) = top - x
            BY <3>1, <5>2, <6>1
          <6>3. x \in Int /\ top \in Int /\ d \in Int /\ q \in Int
            BY <1>1, <2>1
          <6>4. d = q - x
            BY <6>2, <6>3
          <6> QED
            BY <6>4
        <5> QED
          BY <3>1, <5>1, <5>2
      <4>4. d = 0 <=> d = q - q
        BY <1>1
      <4> QED
        BY <4>1, <4>2, <4>3, <4>4
    <3> QED
      BY <1>1, <3>2, <3>3
  <2> QED
    BY <1>6, <1>11, <2>2
<1>15. ASSUME NEW t \in SessionId
       PROVE  LET after == {x \in 1..MaxSequence : admitted'[t][x] > 0}
              IN  /\ \A x \in 1..MaxSequence :
                       admitted'[t][x] <= 1 /\ (x \in after => x <= highest'[t])
                  /\ highest'[t] \in after \cup {0}
                  /\ bitmap'[t] = {highest'[t] - x : x \in after} \cap 0..(Window - 1)
  <2>1. CASE t = s
    BY <1>10, <1>12, <1>13, <1>14, <2>1 DEF newSeen
  <2>2. CASE t # s
    <3>1. highest'[t] = highest[t] /\ bitmap'[t] = bitmap[t] /\ admitted'[t] = admitted[t]
      BY <1>2, <2>2 DEF ReplayPart, RequestTypeOK
    <3> QED
      BY <3>1 DEF ReplayPart, ReplayWindowExact
  <2> QED
    BY <2>1, <2>2
<1>16. ReplayWindowExact'
  BY <1>15 DEF ReplayWindowExact
<1> QED
  BY <1>7, <1>8, <1>16

(* Where a call of a request is, after SetStage.                           *)
LEMMA SetStageKeeps ==
    ASSUME ReplayPart, NEW r \in Request,
           NEW st \in {"idle", "admitted", "digesting", "signing"},
           requestStage[r] # "idle", SetStage(r, st)
    PROVE  /\ requestStage' \in [Request -> {"idle", "verifying", "admitted", "digesting",
                                             "signing"}]
           /\ requestSession' \in [Request -> SessionId \cup {0}]
           /\ requestSequence' \in [Request -> 0..MaxSequence]
           /\ \A x \in Request : requestStage'[x] # "idle" => requestSession'[x] # 0
<1>1. 0 \in 0..MaxSequence
  BY AuthLimitsAssumption
<1> QED
  BY <1>1 DEF SetStage, ReplayPart, RequestTypeOK

(* The replay window of a session under every step of the authenticator.    *)
LEMMA ReplayStep == ReplayPart /\ SessionPart /\ [AuthNext]_authVars => ReplayPart'
<1> SUFFICES ASSUME ReplayPart, SessionPart, [AuthNext]_authVars
             PROVE  ReplayPart'
  OBVIOUS
<1>a. ASSUME UNCHANGED requestVars, UNCHANGED replayVars
      PROVE  ReplayPart'
  BY <1>a DEF ReplayPart, RequestTypeOK, ReplayWindowExact, requestVars, replayVars
<1>b. ASSUME UNCHANGED requestVars, NEW ids, DeleteCallerSessions(ids)
      PROVE  ReplayPart'
  BY <1>b, DeleteReplay DEF ReplayPart, RequestTypeOK, requestVars
<1>1. ASSUME NEW g \in Grant, NEW b \in ChallengeSizes, IssueChallenge(g, b)
      PROVE  ReplayPart'
  BY <1>1, <1>b DEF IssueChallenge, PruneSessions
<1>2. ASSUME NEW c \in ChallengeId, NEW ok \in BOOLEAN, ChallengeSigned(c, ok)
      PROVE  ReplayPart'
  BY <1>2, <1>a DEF ChallengeSigned
<1>3. ASSUME NEW h \in Hello, NEW c \in ChallengeId, NEW role, ReceiveProof(h, c, role)
      PROVE  ReplayPart'
  BY <1>3, <1>a DEF ReceiveProof
<1>4. ASSUME NEW h \in Hello, NEW ok \in BOOLEAN, ProofVerified(h, ok)
      PROVE  ReplayPart'
  BY <1>4, <1>a, <1>b DEF ProofVerified, PruneSessions, FailHello
<1>5. ASSUME NEW h \in Hello, NEW ok \in BOOLEAN, NEW b \in SessionSizes, TranscriptHashed(h, ok, b)
      PROVE  ReplayPart'
  BY <1>5, <1>a DEF TranscriptHashed, ReserveSession, FailHello
<1>6. ASSUME NEW h \in Hello, NEW ok \in BOOLEAN, AckSigned(h, ok)
      PROVE  ReplayPart'
  BY <1>6, <1>a DEF AckSigned, FailHello
<1>7. ASSUME NEW r \in Request, NEW s \in SessionId, NEW q \in 0..MaxSequence, Authenticate(r, s, q)
      PROVE  ReplayPart'
  <2>1. CASE UNCHANGED requestVars
    BY <1>7, <2>1, <1>b DEF Authenticate, PruneSessions
  <2>2. CASE /\ requestStage' = [requestStage EXCEPT ![r] = "verifying"]
             /\ requestSession' = [requestSession EXCEPT ![r] = s]
             /\ requestSequence' = [requestSequence EXCEPT ![r] = q]
             /\ PruneSessions({})
    <3>1. s # 0
      BY DEF SessionId
    <3>2. /\ requestStage' \in [Request -> {"idle", "verifying", "admitted", "digesting",
                                            "signing"}]
          /\ requestSession' \in [Request -> SessionId \cup {0}]
          /\ requestSequence' \in [Request -> 0..MaxSequence]
          /\ \A x \in Request : requestStage'[x] # "idle" => requestSession'[x] # 0
      BY <2>2, <3>1 DEF ReplayPart, RequestTypeOK
    <3> QED
      BY <2>2, <3>2, DeleteReplay DEF PruneSessions, ReplayPart, RequestTypeOK
  <2> QED
    BY <1>7, <2>1, <2>2 DEF Authenticate
<1>8. ASSUME NEW r \in Request, NEW ok \in BOOLEAN, RequestVerified(r, ok)
      PROVE  ReplayPart'
  <2> DEFINE s == requestSession[r]
             q == requestSequence[r]
  <2>1. CASE ok /\ SessionActive(s) /\ q > 0 /\ Admits(s, q)
    <3>1. SetStage(r, "admitted") /\ Admit(s, q) /\ requestStage[r] # "idle"
      BY <1>8, <2>1 DEF RequestVerified
    <3>2. s \in SessionId /\ q \in 1..MaxSequence
      BY <2>1 DEF SessionActive, SessionPart, SessionTypeOK, ReplayPart, RequestTypeOK
    <3> QED
      BY <2>1, <3>1, <3>2, SetStageKeeps, AdmitReplay DEF ReplayPart, RequestTypeOK
  <2>2. CASE ~(ok /\ SessionActive(s) /\ q > 0 /\ Admits(s, q))
    <3>1. /\ SetStage(r, "idle") /\ requestStage[r] # "idle"
          /\ DeleteCallerSessions(IF ok /\ ~SessionActive(s) THEN {s} ELSE {})
      BY <1>8, <2>2 DEF RequestVerified
    <3> QED
      BY <3>1, SetStageKeeps, DeleteReplay DEF ReplayPart, RequestTypeOK
  <2> QED
    BY <2>1, <2>2
<1>9. ASSUME NEW r \in Request, NEW ok \in BOOLEAN, SignResponse(r, ok)
      PROVE  ReplayPart'
  <2>1. PICK st \in {"idle", "admitted", "digesting", "signing"} : SetStage(r, st)
    BY <1>9 DEF SignResponse, NextStage
  <2>2. /\ requestStage[r] # "idle"
        /\ \E ids : DeleteCallerSessions(ids)
    BY <1>9 DEF SignResponse
  <2> QED
    BY <2>1, <2>2, SetStageKeeps, DeleteReplay DEF ReplayPart, RequestTypeOK
<1>10. ASSUME NEW s \in SessionId, RevokeCallerSession(s)
       PROVE  ReplayPart'
  BY <1>10, <1>b DEF RevokeCallerSession
<1>11. ASSUME Clear
       PROVE  ReplayPart'
  BY <1>11, <1>b DEF Clear, requestVars
<1>12. ASSUME NEW g \in Grant, GrantEnds(g)
       PROVE  ReplayPart'
  BY <1>12, <1>a DEF GrantEnds
<1>13. ASSUME NEW c \in ChallengeId, ChallengeExpires(c)
       PROVE  ReplayPart'
  BY <1>13, <1>a DEF ChallengeExpires
<1>14. ASSUME NEW s \in SessionId, SessionExpires(s)
       PROVE  ReplayPart'
  BY <1>14, <1>a DEF SessionExpires
<1>15. CASE UNCHANGED authVars
  BY <1>15, <1>a DEF authVars
<1> QED
  BY <1>1, <1>2, <1>3, <1>4, <1>5, <1>6, <1>7, <1>8, <1>9, <1>10, <1>11, <1>12, <1>13, <1>14,
     <1>15 DEF AuthNext

-----------------------------------------------------------------------------
(* Deleting published sessions disturbs no hello.                          *)
LEMMA DeleteSessions ==
    ASSUME SessionPart, ChallengePart, NEW ids, DeleteCallerSessions(ids),
           UNCHANGED <<helloSession, helloChallenge>>,
           clearedBelow' = clearedBelow \/ callerSessions \subseteq ids,
           \A h \in Hello : helloStage'[h] = "signing" /\ IsCaller(h)'
                              <=> helloStage[h] = "signing" /\ IsCaller(h)
    PROVE  SessionPart'
<1> DEFINE gone == ids \cap callerSessions
<1>1. /\ callerSessions' = callerSessions \ gone
      /\ sessionHeld' = sessionHeld \ gone
      /\ sessionBytes' = [s \in SessionId |-> IF s \in gone THEN 0 ELSE sessionBytes[s]]
      /\ sessionOrigin' = [s \in SessionId |-> IF s \in gone THEN 0 ELSE sessionOrigin[s]]
      /\ UNCHANGED <<sessionGrant, nextSession>>
      /\ gone \subseteq callerSessions
  BY DEF DeleteCallerSessions
<1>2. clearedBelow' = clearedBelow \/ callerSessions' = {}
  BY <1>1
<1> HIDE DEF gone
<1>3. SessionTypeOK'
  BY <1>1 DEF SessionPart, SessionTypeOK
<1>4. SessionsOwned'
  <2>1. sessionHeld' = callerSessions' \cup ({helloSession'[h] : h \in Hello} \ {0})
    BY <1>1 DEF SessionPart, SessionsOwned
  <2>2. \A h \in Hello : helloSession[h] # 0 =>
           helloSession[h] \in SessionId /\ helloSession[h] \notin gone
    BY <1>1 DEF SessionPart, SessionsOwned, ChallengePart, HelloTypeOK
  <2>3. \A h \in Hello :
          /\ helloSession'[h] # 0 <=> helloStage'[h] = "signing" /\ IsCaller(h)'
          /\ helloSession'[h] \notin callerSessions'
          /\ helloSession'[h] # 0 => sessionOrigin'[helloSession'[h]] = helloChallenge'[h]
    BY <1>1, <2>2 DEF SessionPart, SessionsOwned
  <2>4. \A s \in sessionHeld' : s < nextSession'
    BY <1>1 DEF SessionPart, SessionsOwned
  <2> QED
    BY <2>1, <2>3, <2>4 DEF SessionPart, SessionsOwned
<1>5. SessionCapacity'
  <2>1. \A s \in sessionHeld' : sessionBytes'[s] = sessionBytes[s]
    BY <1>1 DEF SessionPart, SessionTypeOK
  <2> QED
    BY <1>1, <2>1, SessionsShrink DEF SessionPart
<1>6. SessionsAfterClear'
  BY <1>1, <1>2 DEF SessionPart, SessionTypeOK, SessionsAfterClear
<1> QED
  BY <1>3, <1>4, <1>5, <1>6 DEF SessionPart

(* Nothing happens to the sessions or to the hellos that reserve them.     *)
LEMMA SessionsAlone ==
    ASSUME SessionPart, UNCHANGED callerSessionVars, UNCHANGED <<helloSession, clearedBelow>>,
           \A h \in Hello :
              /\ helloStage'[h] = "signing" /\ IsCaller(h)'
                    <=> helloStage[h] = "signing" /\ IsCaller(h)
              /\ helloSession[h] # 0 => helloChallenge'[h] = helloChallenge[h]
    PROVE  SessionPart'
<1>1. SessionTypeOK' /\ SessionCapacity' /\ SessionsAfterClear'
  BY DEF SessionPart, SessionTypeOK, SessionCapacity, SessionsAfterClear, callerSessionVars
<1>2. SessionsOwned'
  BY DEF SessionPart, SessionsOwned, callerSessionVars
<1> QED
  BY <1>1, <1>2 DEF SessionPart

(* A hello that fails gives back its challenge and its session.            *)
LEMMA FailHelloSessions ==
    ASSUME SessionPart, ChallengePart, NEW h \in Hello, FailHello(h), UNCHANGED clearedBelow
    PROVE  SessionPart'
<1> DEFINE s == helloSession[h]
<1>1. /\ helloSession' = [helloSession EXCEPT ![h] = 0]
      /\ helloStage' = [helloStage EXCEPT ![h] = "idle"]
      /\ helloChallenge' = [helloChallenge EXCEPT ![h] = 0]
      /\ sessionHeld' = sessionHeld \ {s}
      /\ sessionBytes' = [x \in SessionId |-> IF x = s THEN 0 ELSE sessionBytes[x]]
      /\ sessionOrigin' = [x \in SessionId |-> IF x = s THEN 0 ELSE sessionOrigin[x]]
      /\ UNCHANGED <<callerSessions, sessionGrant, nextSession, challengeGrant>>
  BY DEF FailHello, EndHello, ReleaseChallenge
<1>2. /\ s \notin callerSessions /\ s \in SessionId \cup {0} /\ 0 \notin SessionId
      /\ \A i \in Hello : i # h /\ helloSession[i] # 0 => helloSession[i] # s
      /\ helloSession \in [Hello -> SessionId \cup {0}]
      /\ helloStage \in [Hello -> {"idle", "verifying", "hashing", "signing"}]
      /\ helloChallenge \in [Hello -> ChallengeId \cup {0}]
  BY DEF SessionPart, SessionsOwned, ChallengePart, HelloTypeOK, SessionId
<1> HIDE DEF s
<1>3. SessionTypeOK'
  BY <1>1 DEF SessionPart, SessionTypeOK
<1>4. SessionsOwned'
  <2>1. sessionHeld' = callerSessions' \cup ({helloSession'[i] : i \in Hello} \ {0})
    <3>1. \A x : x \in {helloSession'[i] : i \in Hello} \ {0}
                   <=> x \in {helloSession[i] : i \in Hello} \ {0, s}
      BY <1>1, <1>2 DEF s
    <3> QED
      BY <1>1, <1>2, <3>1 DEF SessionPart, SessionsOwned
  <2>2. ASSUME NEW i \in Hello
        PROVE  /\ helloSession'[i] # 0 <=> helloStage'[i] = "signing" /\ IsCaller(i)'
               /\ helloSession'[i] \notin callerSessions'
               /\ helloSession'[i] # 0 => sessionOrigin'[helloSession'[i]] = helloChallenge'[i]
    <3>1. CASE i = h
      <4>1. 0 \notin callerSessions
        BY <1>2 DEF SessionPart, SessionTypeOK
      <4> QED
        BY <1>1, <1>2, <3>1, <4>1
    <3>2. CASE i # h
      <4>1. /\ helloSession'[i] = helloSession[i] /\ helloStage'[i] = helloStage[i]
            /\ helloChallenge'[i] = helloChallenge[i]
        BY <1>1, <1>2, <3>2
      <4> QED
        BY <1>1, <1>2, <3>2, <4>1 DEF SessionPart, SessionsOwned, IsCaller
    <3> QED
      BY <3>1, <3>2
  <2>3. \A i, j \in Hello : helloSession'[i] # 0 /\ helloSession'[i] = helloSession'[j] => i = j
    BY <1>1, <1>2 DEF SessionPart, SessionsOwned
  <2>4. \A x \in sessionHeld' : x < nextSession'
    BY <1>1 DEF SessionPart, SessionsOwned
  <2> QED
    BY <2>1, <2>2, <2>3, <2>4 DEF SessionsOwned
<1>5. SessionCapacity'
  <2>1. \A x \in sessionHeld' : sessionBytes'[x] = sessionBytes[x]
    BY <1>1 DEF SessionPart, SessionTypeOK
  <2> QED
    BY <1>1, <2>1, SessionsShrink DEF SessionPart
<1>6. SessionsAfterClear'
  BY <1>1, <1>2 DEF SessionPart, SessionTypeOK, SessionsAfterClear
<1> QED
  BY <1>3, <1>4, <1>5, <1>6 DEF SessionPart

(* The session of a caller's hello gets a fresh number and its share of the *)
(* capacity.                                                                *)
LEMMA ReserveSessionKeeps ==
    ASSUME SessionPart, ChallengePart, NEW h \in Hello, NEW b \in SessionSizes,
           helloStage[h] = "hashing", IsCaller(h), ReserveSession(h, b), UNCHANGED clearedBelow
    PROVE  SessionPart'
<1> DEFINE s == nextSession
<1>1. /\ s \in SessionId
      /\ Cardinality(sessionHeld) < maxCallerSessions
      /\ Reserved(sessionBytes, sessionHeld) + b <= maxCallerSessionsBytes
      /\ helloStage' = [helloStage EXCEPT ![h] = "signing"]
      /\ helloSession' = [helloSession EXCEPT ![h] = s]
      /\ sessionHeld' = sessionHeld \cup {s}
      /\ sessionGrant' = [sessionGrant EXCEPT ![s] = challengeGrant[helloChallenge[h]]]
      /\ sessionBytes' = [sessionBytes EXCEPT ![s] = b]
      /\ sessionOrigin' = [sessionOrigin EXCEPT ![s] = helloChallenge[h]]
      /\ nextSession' = s + 1
      /\ UNCHANGED <<challengeGrant, helloChallenge, callerSessions>>
  BY DEF ReserveSession, AdvanceHello, challengeVars
<1>2. /\ s \notin sessionHeld /\ helloChallenge[h] \in ChallengeId
      /\ helloSession[h] = 0 /\ s # 0 /\ 0 \notin SessionId
      /\ helloSession \in [Hello -> SessionId \cup {0}]
      /\ helloStage \in [Hello -> {"idle", "verifying", "hashing", "signing"}]
      /\ \A i \in Hello : helloSession[i] # s
      /\ b \in Nat
    <2>1. \A x \in sessionHeld : x \in Int /\ x < s
      BY DEF SessionPart, SessionsOwned, SessionTypeOK, SessionId
    <2>2. s \notin sessionHeld
      BY <1>1, <2>1 DEF SessionId
    <2>3. helloChallenge[h] \in ChallengeId
      BY DEF ChallengePart, ChallengesOwned, Working
    <2>4. s # 0 /\ 0 \notin SessionId
      BY <1>1 DEF SessionId
    <2>5. \A i \in Hello : helloSession[i] # s
      BY <2>2, <2>4 DEF SessionPart, SessionsOwned
    <2> QED
      BY <2>2, <2>3, <2>4, <2>5, AuthLimitsAssumption
         DEF SessionPart, SessionsOwned, ChallengePart, HelloTypeOK
<1>3. challengeGrant[helloChallenge[h]] \in AnyGrant
  BY <1>2 DEF ChallengePart, ChallengeTypeOK
<1>4. SessionTypeOK'
  <2>1. nextSession' \in 1..(MaxSessionIds + 1)
    BY <1>1, AuthLimitsAssumption DEF SessionId
  <2> QED
    BY <1>1, <1>2, <1>3, <2>1 DEF SessionPart, SessionTypeOK
<1>5. SessionsOwned'
  <2>1. \A x : x \in {helloSession'[i] : i \in Hello} \ {0}
                 <=> x \in ({helloSession[i] : i \in Hello} \ {0}) \cup {s}
    BY <1>1, <1>2
  <2>2. ASSUME NEW i \in Hello
        PROVE  /\ helloSession'[i] # 0 <=> helloStage'[i] = "signing" /\ IsCaller(i)'
               /\ helloSession'[i] \notin callerSessions'
               /\ helloSession'[i] # 0 => sessionOrigin'[helloSession'[i]] = helloChallenge'[i]
    <3>1. CASE i = h
      <4>1. s \notin callerSessions
        BY <1>2 DEF SessionPart, SessionsOwned
      <4>2. sessionOrigin'[s] = helloChallenge[h]
        BY <1>1 DEF SessionPart, SessionTypeOK
      <4> QED
        BY <1>1, <1>2, <3>1, <4>1, <4>2 DEF IsCaller
    <3>2. CASE i # h
      <4>1. helloSession'[i] = helloSession[i] /\ helloStage'[i] = helloStage[i]
        BY <1>1, <1>2, <3>2
      <4>2. helloSession[i] # 0 => sessionOrigin'[helloSession[i]] = sessionOrigin[helloSession[i]]
        BY <1>1, <1>2 DEF SessionPart, SessionTypeOK
      <4> QED
        BY <1>1, <4>1, <4>2 DEF SessionPart, SessionsOwned, IsCaller
    <3> QED
      BY <3>1, <3>2
  <2>3. \A i, j \in Hello : helloSession'[i] # 0 /\ helloSession'[i] = helloSession'[j] => i = j
    BY <1>1, <1>2 DEF SessionPart, SessionsOwned
  <2>4. \A x \in sessionHeld' : x < nextSession'
    <3>1. \A x \in sessionHeld \cup {s} : x \in Int
      BY <1>1 DEF SessionPart, SessionTypeOK, SessionId
    <3> QED
      BY <1>1, <3>1 DEF SessionPart, SessionsOwned
  <2>5. sessionHeld' = callerSessions' \cup ({helloSession'[i] : i \in Hello} \ {0})
    BY <1>1, <2>1 DEF SessionPart, SessionsOwned
  <2> QED
    BY <2>2, <2>3, <2>4, <2>5 DEF SessionsOwned
<1>6. SessionCapacity'
  <2>1. s \in (1..MaxSessionIds) \ sessionHeld /\ sessionHeld \in SUBSET (1..MaxSessionIds)
    BY <1>1, <1>2 DEF SessionPart, SessionTypeOK, SessionId
  <2>2. sessionBytes \in [1..MaxSessionIds -> Nat]
    BY DEF SessionPart, SessionTypeOK, SessionId
  <2> QED
    BY <1>1, <1>2, <2>1, <2>2, OneMoreFits, AuthLimitsAssumption DEF SessionCapacity
<1>7. SessionsAfterClear'
  <2>1. s \notin callerSessions
    BY <1>2 DEF SessionPart, SessionsOwned
  <2> QED
    BY <1>1, <2>1 DEF SessionPart, SessionTypeOK, SessionsAfterClear
<1> QED
  BY <1>4, <1>5, <1>6, <1>7 DEF SessionPart

(* The acknowledgement of a hello no clear() overtook publishes its session.*)
LEMMA PublishKeeps ==
    ASSUME SessionPart, ChallengePart, NEW h \in Hello, AckSigned(h, TRUE), AckCommits(h)
    PROVE  SessionPart'
<1> DEFINE s == helloSession[h]
<1>1. /\ helloSession' = [helloSession EXCEPT ![h] = 0]
      /\ helloStage' = [helloStage EXCEPT ![h] = "idle"]
      /\ helloChallenge' = [helloChallenge EXCEPT ![h] = 0]
      /\ callerSessions' = IF IsCaller(h) THEN callerSessions \cup {s} ELSE callerSessions
      /\ UNCHANGED <<sessionGrant, sessionBytes, sessionHeld, nextSession, sessionOrigin,
                     challengeGrant, clearedBelow>>
      /\ helloStage[h] = "signing"
  BY DEF AckSigned, EndHello, ReleaseChallenge
<1>2. /\ helloSession \in [Hello -> SessionId \cup {0}]
      /\ helloStage \in [Hello -> {"idle", "verifying", "hashing", "signing"}]
      /\ helloChallenge \in [Hello -> ChallengeId \cup {0}]
      /\ 0 \notin SessionId
      /\ s # 0 <=> IsCaller(h)
      /\ \A i \in Hello : i # h /\ helloSession[i] # 0 => helloSession[i] # s
  BY <1>1 DEF SessionPart, SessionsOwned, ChallengePart, HelloTypeOK, SessionId
<1> HIDE DEF s
<1>3. SessionTypeOK'
  BY <1>1, <1>2 DEF SessionPart, SessionTypeOK, s
<1>4. SessionsOwned'
  <2>1. \A x : x \in {helloSession'[i] : i \in Hello} \ {0}
                 <=> x \in {helloSession[i] : i \in Hello} \ {0, s}
    BY <1>1, <1>2 DEF s
  <2>2. sessionHeld' = callerSessions' \cup ({helloSession'[i] : i \in Hello} \ {0})
    <3>1. IsCaller(h) => s \in sessionHeld
      BY <1>2 DEF SessionPart, SessionsOwned, s
    <3> QED
      BY <1>1, <1>2, <2>1, <3>1 DEF SessionPart, SessionsOwned
  <2>3. ASSUME NEW i \in Hello
        PROVE  /\ helloSession'[i] # 0 <=> helloStage'[i] = "signing" /\ IsCaller(i)'
               /\ helloSession'[i] \notin callerSessions'
               /\ helloSession'[i] # 0 => sessionOrigin'[helloSession'[i]] = helloChallenge'[i]
    <3>1. CASE i = h
      <4>1. 0 \notin callerSessions'
        BY <1>2, <1>3 DEF SessionTypeOK
      <4> QED
        BY <1>1, <1>2, <3>1, <4>1
    <3>2. CASE i # h
      <4>1. /\ helloSession'[i] = helloSession[i] /\ helloStage'[i] = helloStage[i]
            /\ helloChallenge'[i] = helloChallenge[i]
        BY <1>1, <1>2, <3>2
      <4>2. helloSession[i] \notin callerSessions'
        BY <1>1, <1>2, <3>2 DEF SessionPart, SessionsOwned
      <4> QED
        BY <1>1, <4>1, <4>2 DEF SessionPart, SessionsOwned, IsCaller
    <3> QED
      BY <3>1, <3>2
  <2>4. \A i, j \in Hello : helloSession'[i] # 0 /\ helloSession'[i] = helloSession'[j] => i = j
    BY <1>1, <1>2 DEF SessionPart, SessionsOwned
  <2> QED
    BY <1>1, <2>2, <2>3, <2>4 DEF SessionPart, SessionsOwned
<1>5. SessionCapacity'
  BY <1>1 DEF SessionPart, SessionCapacity
<1>6. SessionsAfterClear'
  <2>1. helloChallenge[h] >= clearedBelow
    BY <1>1 DEF ChallengePart, ChallengesAfterClear, Working, AckCommits
  <2>2. IsCaller(h) => sessionOrigin[s] = helloChallenge[h]
    BY <1>2 DEF SessionPart, SessionsOwned, s
  <2> QED
    BY <1>1, <2>1, <2>2 DEF SessionPart, SessionsAfterClear
<1> QED
  BY <1>3, <1>4, <1>5, <1>6 DEF SessionPart

(* The sessions under every step of the authenticator.                      *)
LEMMA SessionStep == SessionPart /\ ChallengePart /\ ReplayPart /\ [AuthNext]_authVars => SessionPart'
<1> SUFFICES ASSUME SessionPart, ChallengePart, ReplayPart, [AuthNext]_authVars
             PROVE  SessionPart'
  OBVIOUS
<1>a. ASSUME UNCHANGED <<callerSessionVars, helloStage, helloChallenge, helloSession, challengeGrant,
                         clearedBelow>>
      PROVE  SessionPart'
  BY <1>a, SessionsAlone DEF IsCaller
<1>b. ASSUME NEW ids, DeleteCallerSessions(ids),
             UNCHANGED <<helloStage, helloChallenge, helloSession, challengeGrant, clearedBelow>>
      PROVE  SessionPart'
  BY <1>b, DeleteSessions DEF IsCaller
<1>1. ASSUME NEW g \in Grant, NEW b \in ChallengeSizes, IssueChallenge(g, b)
      PROVE  SessionPart'
  <2>1. /\ DeleteCallerSessions(expiredSessions)
        /\ UNCHANGED <<helloStage, helloChallenge, helloSession, clearedBelow>>
        /\ challengeGrant' = challengeGrant
             \/ challengeGrant' = [challengeGrant EXCEPT ![nextChallenge] = g]
    BY <1>1 DEF IssueChallenge, PruneSessions, helloVars
  <2>2. ASSUME NEW h \in Hello, helloStage[h] = "signing"
        PROVE  challengeGrant'[helloChallenge[h]] = challengeGrant[helloChallenge[h]]
    <3>1. helloChallenge[h] \in challengeHeld /\ helloChallenge[h] \in ChallengeId
      BY <2>2 DEF ChallengePart, ChallengesOwned, Working
    <3>2. helloChallenge[h] # nextChallenge
      BY <3>1 DEF ChallengePart, ChallengesOwned, ChallengeTypeOK, ChallengeId
    <3> QED
      BY <2>1, <3>1, <3>2 DEF ChallengePart, ChallengeTypeOK
  <2>3. \A h \in Hello : helloStage'[h] = "signing" /\ IsCaller(h)'
                           <=> helloStage[h] = "signing" /\ IsCaller(h)
    BY <2>1, <2>2 DEF IsCaller
  <2> QED
    BY <2>1, <2>3, DeleteSessions
<1>2. ASSUME NEW c \in ChallengeId, NEW ok \in BOOLEAN, ChallengeSigned(c, ok)
      PROVE  SessionPart'
  BY <1>2, <1>a DEF ChallengeSigned, helloVars
<1>3. ASSUME NEW h \in Hello, NEW c \in ChallengeId, NEW role, ReceiveProof(h, c, role)
      PROVE  SessionPart'
  <2>1. /\ UNCHANGED callerSessionVars /\ UNCHANGED <<helloSession, clearedBelow, challengeGrant>>
        /\ helloStage[h] = "idle" /\ helloSession[h] = 0
        /\ \A i \in Hello : i # h => /\ helloStage'[i] = helloStage[i]
                                     /\ helloChallenge'[i] = helloChallenge[i]
        /\ helloStage'[h] # "signing"
    BY <1>3 DEF ReceiveProof, ChallengePart, HelloTypeOK, ChallengesOwned, Working
  <2> QED
    BY <2>1, SessionsAlone DEF IsCaller
<1>4. ASSUME NEW h \in Hello, NEW ok \in BOOLEAN, ProofVerified(h, ok)
      PROVE  SessionPart'
  <2>1. CASE FailHello(h)
    BY <1>4, <2>1, FailHelloSessions DEF ProofVerified
  <2>2. CASE ~FailHello(h)
    <3>1. /\ helloStage' = [helloStage EXCEPT ![h] = "hashing"] /\ helloStage[h] = "verifying"
          /\ UNCHANGED <<helloChallenge, helloSession, challengeGrant, clearedBelow>>
          /\ UNCHANGED callerSessionVars \/ \E ids : DeleteCallerSessions(ids)
      BY <1>4, <2>2
         DEF ProofVerified, AdvanceHello, PruneSessions, PruneChallenges, challengeVars
    <3>2. \A i \in Hello : helloStage'[i] = "signing" /\ IsCaller(i)'
                             <=> helloStage[i] = "signing" /\ IsCaller(i)
      BY <3>1 DEF IsCaller, ChallengePart, HelloTypeOK
    <3> QED
      BY <3>1, <3>2, SessionsAlone, DeleteSessions
  <2> QED
    BY <2>1, <2>2
<1>5. ASSUME NEW h \in Hello, NEW ok \in BOOLEAN, NEW b \in SessionSizes, TranscriptHashed(h, ok, b)
      PROVE  SessionPart'
  <2>1. CASE FailHello(h)
    BY <1>5, <2>1, FailHelloSessions DEF TranscriptHashed
  <2>2. CASE ~FailHello(h) /\ IsCaller(h)
    BY <1>5, <2>2, ReserveSessionKeeps DEF TranscriptHashed
  <2>3. CASE ~FailHello(h) /\ ~IsCaller(h)
    <3>1. /\ helloStage' = [helloStage EXCEPT ![h] = "signing"] /\ helloStage[h] = "hashing"
          /\ UNCHANGED <<helloChallenge, helloSession, challengeGrant, clearedBelow>>
          /\ UNCHANGED callerSessionVars
      BY <1>5, <2>3 DEF TranscriptHashed, AdvanceHello, challengeVars
    <3>2. \A i \in Hello : helloStage'[i] = "signing" /\ IsCaller(i)'
                             <=> helloStage[i] = "signing" /\ IsCaller(i)
      BY <2>3, <3>1 DEF IsCaller, ChallengePart, HelloTypeOK
    <3> QED
      BY <3>1, <3>2, SessionsAlone
  <2> QED
    BY <2>1, <2>2, <2>3
<1>6. ASSUME NEW h \in Hello, NEW ok \in BOOLEAN, AckSigned(h, ok)
      PROVE  SessionPart'
  <2>1. CASE ok /\ AckCommits(h)
    BY <1>6, <2>1, PublishKeeps
  <2>2. CASE ~(ok /\ AckCommits(h))
    BY <1>6, <2>2, FailHelloSessions DEF AckSigned
  <2> QED
    BY <2>1, <2>2
<1>7. ASSUME NEW r \in Request, NEW s \in SessionId, NEW q \in 0..MaxSequence, Authenticate(r, s, q)
      PROVE  SessionPart'
  BY <1>7, <1>b DEF Authenticate, PruneSessions, PruneChallenges, helloVars
<1>8. ASSUME NEW r \in Request, NEW ok \in BOOLEAN, RequestVerified(r, ok)
      PROVE  SessionPart'
  BY <1>8, <1>a, <1>b DEF RequestVerified, helloVars, challengeVars
<1>9. ASSUME NEW r \in Request, NEW ok \in BOOLEAN, SignResponse(r, ok)
      PROVE  SessionPart'
  BY <1>9, <1>b DEF SignResponse, helloVars, challengeVars
<1>10. ASSUME NEW s \in SessionId, RevokeCallerSession(s)
       PROVE  SessionPart'
  BY <1>10, <1>b DEF RevokeCallerSession, helloVars, challengeVars
<1>11. ASSUME Clear
       PROVE  SessionPart'
  BY <1>11, DeleteSessions DEF Clear, IsCaller
<1>12. ASSUME NEW g \in Grant, GrantEnds(g)
       PROVE  SessionPart'
  BY <1>12, <1>a DEF GrantEnds, helloVars, challengeVars
<1>13. ASSUME NEW c \in ChallengeId, ChallengeExpires(c)
       PROVE  SessionPart'
  BY <1>13, <1>a DEF ChallengeExpires, helloVars
<1>14. ASSUME NEW s \in SessionId, SessionExpires(s)
       PROVE  SessionPart'
  BY <1>14 DEF SessionExpires, helloVars, challengeVars, SessionPart, SessionTypeOK, SessionsOwned,
               SessionCapacity, SessionsAfterClear, IsCaller
<1>15. CASE UNCHANGED authVars
  BY <1>15, <1>a DEF authVars, challengeVars, helloVars
<1> QED
  BY <1>1, <1>2, <1>3, <1>4, <1>5, <1>6, <1>7, <1>8, <1>9, <1>10, <1>11, <1>12, <1>13, <1>14,
     <1>15 DEF AuthNext

-----------------------------------------------------------------------------
(* The challenges hellos are consuming.                                     *)
Consumed == {helloChallenge[h] : h \in {x \in Hello : helloStage[x] # "idle"}}

(* Offered challenges may be taken away with what they reserve.            *)
LEMMA OffersShrink ==
    ASSUME ChallengePart, challenges' \subseteq challenges,
           challengeHeld' = challengeHeld \ (challenges \ challenges'),
           UNCHANGED <<reservedChallengeIds, outdatedIssues, challengeGrant, challengeBytes,
                       nextChallenge, helloChallenge, helloOutdated, accepted, clearedBelow>>,
           HelloTypeOK',
           \A h \in Hello : /\ Working(h)' <=> Working(h)
                            /\ ~Working(h) => helloSession'[h] = helloSession[h]
    PROVE  ChallengePart'
<1>1. ChallengeTypeOK'
  BY DEF ChallengePart, ChallengeTypeOK
<1>2. Consumed' = Consumed
  BY DEF Consumed, Working
<1>3. ChallengesOwned'
  <2>1. challengeHeld' = challenges' \cup reservedChallengeIds' \cup Consumed'
    <3>1. Consumed \cap challenges = {}
      BY DEF Consumed, ChallengePart, ChallengesOwned, Working
    <3> QED
      BY <1>2, <3>1 DEF ChallengePart, ChallengesOwned, Consumed
  <2> QED
    BY <2>1 DEF ChallengePart, ChallengesOwned, Consumed
<1>4. ChallengeCapacity'
  BY ChallengesShrink DEF ChallengePart
<1>5. ChallengesAfterClear'
  BY DEF ChallengePart, ChallengesAfterClear
<1> QED
  BY <1>1, <1>3, <1>4, <1>5 DEF ChallengePart

(* A challenge is issued, after the expired ones made room.                 *)
LEMMA IssueKeeps ==
    ASSUME ChallengePart, NEW g \in Grant, NEW b \in ChallengeSizes, IssueChallenge(g, b)
    PROVE  ChallengePart'
<1> DEFINE c == nextChallenge
<1>1. /\ challenges' = PrunedChallenges /\ c \in ChallengeId
      /\ UNCHANGED <<outdatedIssues, helloVars, clearedBelow>>
  BY DEF IssueChallenge
<1>2. HelloTypeOK'
  BY <1>1 DEF ChallengePart, HelloTypeOK, helloVars
<1>3. CASE UNCHANGED nextChallenge
  <2>1. c + 1 # c
    BY <1>1 DEF ChallengeId
  <2>2. /\ challengeHeld' = challengeHeld \ (challenges \ challenges')
        /\ UNCHANGED <<reservedChallengeIds, challengeGrant, challengeBytes>>
    BY <1>3, <2>1 DEF IssueChallenge, PrunedHeld, PrunedChallenges
  <2> QED
    BY <1>1, <1>2, <1>3, <2>2, OffersShrink DEF helloVars, Working, PrunedChallenges
<1>4. CASE nextChallenge' # nextChallenge
  <2>1. /\ Cardinality(PrunedHeld) < maxChallenges
        /\ Reserved(challengeBytes, PrunedHeld) + b <= maxChallengeBytes
        /\ challengeHeld' = PrunedHeld \cup {c}
        /\ reservedChallengeIds' = reservedChallengeIds \cup {c}
        /\ challengeGrant' = [challengeGrant EXCEPT ![c] = g]
        /\ challengeBytes' = [challengeBytes EXCEPT ![c] = b]
        /\ nextChallenge' = c + 1
    BY <1>4 DEF IssueChallenge
  <2>2. /\ PrunedHeld \in SUBSET (1..MaxChallengeIds)
        /\ PrunedHeld = challengeHeld \ (challenges \ challenges')
        /\ challenges' \subseteq challenges
        /\ c \notin challengeHeld
    BY <1>1 DEF PrunedHeld, PrunedChallenges, ChallengePart, ChallengeTypeOK, ChallengeId,
                ChallengesOwned
  <2>3. c \notin challenges /\ c \notin reservedChallengeIds /\ c \notin Consumed
    BY <2>2 DEF ChallengePart, ChallengesOwned, Consumed
  <2>4. b \in Nat
    BY AuthLimitsAssumption
  <2>5. ChallengeTypeOK'
    <3>1. nextChallenge' \in 1..(MaxChallengeIds + 1) /\ clearedBelow' \in 1..nextChallenge'
      BY <1>1, <2>1, AuthLimitsAssumption DEF ChallengePart, ChallengeTypeOK, ChallengeId
    <3>2. g \in AnyGrant
      BY DEF AnyGrant
    <3> QED
      BY <1>1, <2>1, <2>2, <2>4, <3>1, <3>2 DEF ChallengePart, ChallengeTypeOK, ChallengeId
  <2>6. ChallengesOwned'
    <3>1. Consumed' = Consumed
      BY <1>1 DEF Consumed, helloVars
    <3>2. challengeHeld' = challenges' \cup reservedChallengeIds' \cup Consumed'
      <4>1. Consumed \cap challenges = {}
        BY DEF Consumed, ChallengePart, ChallengesOwned, Working
      <4> QED
        BY <2>1, <2>2, <3>1, <4>1 DEF ChallengePart, ChallengesOwned, Consumed
    <3>3. ASSUME NEW h \in Hello
          PROVE  /\ ~Working(h)' => helloChallenge'[h] = 0 /\ helloSession'[h] = 0 /\ ~helloOutdated'[h]
                 /\ Working(h)' => helloChallenge'[h]
                                     \in ChallengeId \ (challenges' \cup reservedChallengeIds')
      <4>1. Working(h) => helloChallenge[h] \in Consumed
        BY DEF Consumed, Working
      <4> QED
        BY <1>1, <2>1, <2>2, <2>3, <4>1 DEF ChallengePart, ChallengesOwned, helloVars, Working
    <3>4. ASSUME NEW x \in ChallengeId
          PROVE  /\ accepted'[x] <= 1
                 /\ x \in challengeHeld' \/ x >= nextChallenge' => accepted'[x] = 0
                 /\ x \in challengeHeld' => x < nextChallenge'
      <4>1. x \in Int /\ c \in Int
        BY <1>1 DEF ChallengeId
      <4> QED
        BY <1>1, <2>1, <2>2, <4>1 DEF ChallengePart, ChallengesOwned, helloVars
    <3>5. \A h, i \in Hello : Working(h)' /\ helloChallenge'[h] = helloChallenge'[i] => h = i
      BY <1>1 DEF ChallengePart, ChallengesOwned, helloVars, Working
    <3>6. challenges' \cap reservedChallengeIds' = {}
      BY <2>1, <2>2, <2>3 DEF ChallengePart, ChallengesOwned
    <3> QED
      BY <3>2, <3>3, <3>4, <3>5, <3>6 DEF ChallengesOwned, Consumed
  <2>7. ChallengeCapacity'
    <3>1. /\ c \in (1..MaxChallengeIds) \ PrunedHeld
          /\ challengeBytes \in [1..MaxChallengeIds -> Nat]
      BY <1>1, <2>2 DEF ChallengePart, ChallengeTypeOK, ChallengeId
    <3> QED
      BY <2>1, <2>2, <2>4, <3>1, OneMoreFits, AuthLimitsAssumption DEF ChallengeCapacity
  <2>8. ChallengesAfterClear'
    <3>1. c >= clearedBelow
      BY DEF ChallengePart, ChallengeTypeOK
    <3> QED
      BY <1>1, <2>1, <2>2, <2>3, <3>1
         DEF ChallengePart, ChallengesAfterClear, helloVars, Working, ChallengeTypeOK
  <2> QED
    BY <1>2, <2>5, <2>6, <2>7, <2>8 DEF ChallengePart
<1> QED
  BY <1>3, <1>4

(* A challenge is signed and offered, or dropped.                           *)
LEMMA SignedKeeps ==
    ASSUME ChallengePart, NEW c \in ChallengeId, NEW ok \in BOOLEAN, ChallengeSigned(c, ok)
    PROVE  ChallengePart'
<1>1. /\ c \in reservedChallengeIds
      /\ reservedChallengeIds' = reservedChallengeIds \ {c}
      /\ outdatedIssues' = outdatedIssues \ {c}
      /\ \/ /\ c \notin outdatedIssues /\ challenges' = challenges \cup {c}
            /\ challengeHeld' = challengeHeld
         \/ /\ challenges' = challenges /\ challengeHeld' = challengeHeld \ {c}
      /\ UNCHANGED <<challengeGrant, challengeBytes, nextChallenge, helloVars, clearedBelow>>
  BY DEF ChallengeSigned
<1>2. c \notin challenges /\ c \notin Consumed
  BY <1>1 DEF ChallengePart, ChallengesOwned, Consumed, Working
<1>3. Consumed' = Consumed /\ HelloTypeOK'
  BY <1>1 DEF Consumed, helloVars, ChallengePart, HelloTypeOK
<1>4. ChallengeTypeOK'
  BY <1>1 DEF ChallengePart, ChallengeTypeOK
<1>5. ChallengesOwned'
  <2>1. challengeHeld' = challenges' \cup reservedChallengeIds' \cup Consumed'
    BY <1>1, <1>2, <1>3 DEF ChallengePart, ChallengesOwned, Consumed
  <2>2. challenges' \cup reservedChallengeIds' \subseteq challenges \cup reservedChallengeIds
    BY <1>1
  <2>3. challenges' \cap reservedChallengeIds' = {} /\ challengeHeld' \subseteq challengeHeld
    BY <1>1, <1>2 DEF ChallengePart, ChallengesOwned
  <2> QED
    BY <1>1, <2>1, <2>2, <2>3 DEF ChallengePart, ChallengesOwned, helloVars, Working, Consumed
<1>6. ChallengeCapacity'
  BY <1>1, ChallengesShrink DEF ChallengePart
<1>7. ChallengesAfterClear'
  BY <1>1 DEF ChallengePart, ChallengesAfterClear, helloVars, Working
<1> QED
  BY <1>3, <1>4, <1>5, <1>6, <1>7 DEF ChallengePart

(* A proof arrives and takes its challenge off the table.                   *)
LEMMA ReceiveKeeps ==
    ASSUME ChallengePart, NEW h \in Hello, NEW c \in ChallengeId, NEW role, ReceiveProof(h, c, role)
    PROVE  ChallengePart'
<1>1. /\ helloStage[h] = "idle" /\ c \in challenges
      /\ challenges' = challenges \ {c}
      /\ UNCHANGED <<reservedChallengeIds, outdatedIssues, challengeGrant, challengeBytes,
                     nextChallenge, helloOutdated, helloSession, accepted, clearedBelow>>
  BY DEF ReceiveProof, TakeChallenge
<1>2. CASE UNCHANGED helloStage
  <2>1. helloStage[h] # "verifying"
    BY <1>1
  <2>2. challengeHeld' = challengeHeld \ {c} /\ UNCHANGED helloChallenge
    BY <1>2, <2>1 DEF ReceiveProof, ChallengePart, HelloTypeOK
  <2>3. HelloTypeOK'
    BY <1>1, <1>2, <2>2 DEF ChallengePart, HelloTypeOK
  <2>4. challenges \ challenges' = {c}
    BY <1>1
  <2> QED
    BY <1>1, <1>2, <2>2, <2>3, <2>4, OffersShrink DEF Working
<1>3. CASE ~UNCHANGED helloStage
  <2>1. /\ challengeHeld' = challengeHeld
        /\ helloStage' = [helloStage EXCEPT ![h] = "verifying"]
        /\ helloChallenge' = [helloChallenge EXCEPT ![h] = c]
    BY <1>3 DEF ReceiveProof
  <2>2. /\ helloStage \in [Hello -> {"idle", "verifying", "hashing", "signing"}]
        /\ helloChallenge \in [Hello -> ChallengeId \cup {0}]
        /\ c \notin reservedChallengeIds /\ c \notin Consumed /\ 0 # c
        /\ helloOutdated[h] = FALSE
    BY <1>1 DEF ChallengePart, HelloTypeOK, ChallengesOwned, Consumed, Working, ChallengeId
  <2>3. HelloTypeOK'
    BY <1>1, <2>1 DEF ChallengePart, HelloTypeOK
  <2>4. ChallengeTypeOK'
    BY <1>1, <2>1 DEF ChallengePart, ChallengeTypeOK
  <2>5. Consumed' = Consumed \cup {c}
    <3>1. \A x : x \in Consumed' <=> x \in Consumed \cup {c}
      BY <1>1, <2>1, <2>2 DEF Consumed
    <3> QED
      BY <3>1
  <2>6. ChallengesOwned'
    <3>1. challengeHeld' = challenges' \cup reservedChallengeIds' \cup Consumed'
      BY <1>1, <2>1, <2>5 DEF ChallengePart, ChallengesOwned, Consumed
    <3>2. ASSUME NEW i \in Hello
          PROVE  /\ ~Working(i)' => helloChallenge'[i] = 0 /\ helloSession'[i] = 0 /\ ~helloOutdated'[i]
                 /\ Working(i)' => helloChallenge'[i]
                                     \in ChallengeId \ (challenges' \cup reservedChallengeIds')
      BY <1>1, <2>1, <2>2 DEF ChallengePart, ChallengesOwned, Working
    <3>3. ASSUME NEW i \in Hello, NEW j \in Hello, Working(i)', helloChallenge'[i] = helloChallenge'[j]
          PROVE  i = j
      <4>1. \A x \in Hello : Working(x) => helloChallenge[x] # c
        BY <2>2 DEF Consumed, Working
      <4>2. \A x \in Hello : ~Working(x) => helloChallenge[x] = 0
        BY DEF ChallengePart, ChallengesOwned
      <4> QED
        BY <2>1, <2>2, <3>3, <4>1, <4>2 DEF ChallengePart, ChallengesOwned, Working
    <3>4. \A x \in ChallengeId : /\ accepted'[x] <= 1
                                 /\ x \in challengeHeld' \/ x >= nextChallenge' => accepted'[x] = 0
                                 /\ x \in challengeHeld' => x < nextChallenge'
      BY <1>1, <2>1 DEF ChallengePart, ChallengesOwned
    <3>5. challenges' \cap reservedChallengeIds' = {}
      BY <1>1 DEF ChallengePart, ChallengesOwned
    <3>6. \A i, j \in Hello : Working(i)' /\ helloChallenge'[i] = helloChallenge'[j] => i = j
      BY <3>3
    <3> QED
      BY <3>1, <3>2, <3>4, <3>5, <3>6 DEF ChallengesOwned, Consumed
  <2>7. ChallengeCapacity'
    BY <1>1, <2>1 DEF ChallengePart, ChallengeCapacity
  <2>8. ChallengesAfterClear'
    BY <1>1, <2>1, <2>2 DEF ChallengePart, ChallengesAfterClear, Working
  <2> QED
    BY <2>3, <2>4, <2>6, <2>7, <2>8 DEF ChallengePart
<1> QED
  BY <1>2, <1>3

(* A hello that ends gives its challenge back; accepted says whether it    *)
(* was accepted.                                                           *)
LEMMA EndKeeps ==
    ASSUME ChallengePart, NEW h \in Hello, Working(h), EndHello(h),
           ReleaseChallenge(helloChallenge[h]), UNCHANGED clearedBelow,
           \/ accepted' = accepted
           \/ accepted' = [accepted EXCEPT ![helloChallenge[h]] = @ + 1]
    PROVE  ChallengePart'
<1> DEFINE c == helloChallenge[h]
<1>1. /\ helloStage' = [helloStage EXCEPT ![h] = "idle"]
      /\ helloChallenge' = [helloChallenge EXCEPT ![h] = 0]
      /\ helloOutdated' = [helloOutdated EXCEPT ![h] = FALSE]
      /\ helloSession' = [helloSession EXCEPT ![h] = 0]
      /\ challengeHeld' = challengeHeld \ {c}
      /\ UNCHANGED <<challenges, reservedChallengeIds, outdatedIssues, challengeGrant,
                     challengeBytes, nextChallenge>>
  BY DEF EndHello, ReleaseChallenge
<1>2. /\ helloStage \in [Hello -> {"idle", "verifying", "hashing", "signing"}]
      /\ helloChallenge \in [Hello -> ChallengeId \cup {0}]
      /\ helloOutdated \in [Hello -> BOOLEAN] /\ helloSession \in [Hello -> SessionId \cup {0}]
      /\ accepted \in [ChallengeId -> Nat]
      /\ c \in ChallengeId /\ c \notin challenges /\ c \notin reservedChallengeIds
      /\ c \in challengeHeld /\ accepted[c] = 0 /\ c < nextChallenge /\ c # 0
      /\ \A i \in Hello : i # h => helloChallenge[i] # c
  <2>1. c \in ChallengeId \ (challenges \cup reservedChallengeIds) /\ c \in challengeHeld
    BY DEF ChallengePart, ChallengesOwned, Working
  <2>2. c # 0
    BY <2>1 DEF ChallengeId
  <2> QED
    BY <2>1, <2>2 DEF ChallengePart, HelloTypeOK, ChallengesOwned
<1> HIDE DEF c
<1>3. accepted' \in [ChallengeId -> Nat] /\ \A x \in ChallengeId \ {c} : accepted'[x] = accepted[x]
  BY <1>2 DEF c
<1>4. accepted'[c] <= 1
  BY <1>2 DEF c
<1>5. HelloTypeOK'
  BY <1>1, <1>2, <1>3 DEF HelloTypeOK
<1>6. ChallengeTypeOK'
  BY <1>1 DEF ChallengePart, ChallengeTypeOK
<1>7. Consumed' = Consumed \ {c}
  <2>1. \A x : x \in Consumed' <=> x \in Consumed \ {c}
    BY <1>1, <1>2 DEF Consumed, c
  <2> QED
    BY <2>1
<1>8. ChallengesOwned'
  <2>1. challengeHeld' = challenges' \cup reservedChallengeIds' \cup Consumed'
    BY <1>1, <1>2, <1>7 DEF ChallengePart, ChallengesOwned, Consumed
  <2>2. ASSUME NEW i \in Hello
        PROVE  /\ ~Working(i)' => helloChallenge'[i] = 0 /\ helloSession'[i] = 0 /\ ~helloOutdated'[i]
               /\ Working(i)' => helloChallenge'[i]
                                   \in ChallengeId \ (challenges' \cup reservedChallengeIds')
    BY <1>1, <1>2 DEF ChallengePart, ChallengesOwned, Working
  <2>3. ASSUME NEW i \in Hello, NEW j \in Hello, Working(i)', helloChallenge'[i] = helloChallenge'[j]
        PROVE  i = j
    <3>1. i # h /\ helloChallenge'[i] = helloChallenge[i] /\ Working(i)
      BY <1>1, <1>2, <2>3 DEF Working
    <3>2. helloChallenge[i] # 0
      BY <3>1 DEF ChallengePart, ChallengesOwned, ChallengeId
    <3>3. j # h /\ helloChallenge'[j] = helloChallenge[j]
      BY <1>1, <1>2, <2>3, <3>1, <3>2
    <3> QED
      BY <2>3, <3>1, <3>3 DEF ChallengePart, ChallengesOwned
  <2>4. ASSUME NEW x \in ChallengeId
        PROVE  /\ accepted'[x] <= 1
               /\ x \in challengeHeld' \/ x >= nextChallenge' => accepted'[x] = 0
               /\ x \in challengeHeld' => x < nextChallenge'
    <3>1. c \in Int /\ nextChallenge \in Int
      BY <1>2 DEF ChallengePart, ChallengeTypeOK, ChallengeId
    <3> QED
      BY <1>1, <1>2, <1>3, <1>4, <3>1 DEF ChallengePart, ChallengesOwned
  <2> QED
    BY <1>1, <2>1, <2>2, <2>3, <2>4 DEF ChallengePart, ChallengesOwned, Consumed
<1>9. ChallengeCapacity'
  BY <1>1, ChallengesShrink DEF ChallengePart
<1>10. ChallengesAfterClear'
  BY <1>1, <1>2 DEF ChallengePart, ChallengesAfterClear, Working
<1> QED
  BY <1>5, <1>6, <1>8, <1>9, <1>10 DEF ChallengePart

(* clear() forgets what is offered and outdates what is on its way.         *)
LEMMA ClearKeeps == ASSUME ChallengePart, Clear PROVE ChallengePart'
<1>1. /\ challenges' = {} /\ challengeHeld' = challengeHeld \ challenges
      /\ outdatedIssues' = reservedChallengeIds
      /\ helloOutdated' = [h \in Hello |-> helloStage[h] # "idle"]
      /\ clearedBelow' = nextChallenge
      /\ UNCHANGED <<reservedChallengeIds, challengeGrant, challengeBytes, nextChallenge,
                     helloStage, helloChallenge, helloSession, accepted>>
  BY DEF Clear
<1>2. Consumed' = Consumed /\ Consumed \cap challenges = {}
  BY <1>1 DEF Consumed, ChallengePart, ChallengesOwned, Working
<1>3. HelloTypeOK'
  BY <1>1 DEF ChallengePart, HelloTypeOK
<1>4. ChallengeTypeOK'
  BY <1>1 DEF ChallengePart, ChallengeTypeOK
<1>5. ChallengesOwned'
  <2>1. challengeHeld' = challenges' \cup reservedChallengeIds' \cup Consumed'
    BY <1>1, <1>2 DEF ChallengePart, ChallengesOwned, Consumed
  <2> QED
    BY <1>1, <2>1 DEF ChallengePart, ChallengesOwned, Working, Consumed
<1>6. ChallengeCapacity'
  BY <1>1, ChallengesShrink DEF ChallengePart
<1>7. ChallengesAfterClear'
  BY <1>1 DEF ChallengesAfterClear, Working
<1> QED
  BY <1>3, <1>4, <1>5, <1>6, <1>7 DEF ChallengePart

(* The challenges under every step of the authenticator.                    *)
LEMMA ChallengeStep == ChallengePart /\ [AuthNext]_authVars => ChallengePart'
<1> SUFFICES ASSUME ChallengePart, [AuthNext]_authVars
             PROVE  ChallengePart'
  OBVIOUS
<1>a. ASSUME UNCHANGED <<challenges, reservedChallengeIds, outdatedIssues, challengeGrant,
                         challengeBytes, challengeHeld, nextChallenge, helloVars, clearedBelow>>
      PROVE  ChallengePart'
  <2>1. HelloTypeOK'
    BY <1>a DEF ChallengePart, HelloTypeOK, helloVars
  <2> QED
    BY <1>a, <2>1, OffersShrink DEF helloVars, Working
<1>b. ASSUME PruneChallenges, UNCHANGED <<helloVars, clearedBelow>>
      PROVE  ChallengePart'
  <2>1. HelloTypeOK'
    BY <1>b DEF ChallengePart, HelloTypeOK, helloVars
  <2>2. /\ challenges' \subseteq challenges
        /\ challengeHeld' = challengeHeld \ (challenges \ challenges')
    BY <1>b DEF PruneChallenges, PrunedHeld, PrunedChallenges
  <2> QED
    BY <1>b, <2>1, <2>2, OffersShrink DEF PruneChallenges, helloVars, Working
<1>c. ASSUME NEW h \in Hello, Working(h), FailHello(h), UNCHANGED clearedBelow
      PROVE  ChallengePart'
  BY <1>c, EndKeeps DEF FailHello
<1>1. ASSUME NEW g \in Grant, NEW b \in ChallengeSizes, IssueChallenge(g, b)
      PROVE  ChallengePart'
  BY <1>1, IssueKeeps
<1>2. ASSUME NEW c \in ChallengeId, NEW ok \in BOOLEAN, ChallengeSigned(c, ok)
      PROVE  ChallengePart'
  BY <1>2, SignedKeeps
<1>3. ASSUME NEW h \in Hello, NEW c \in ChallengeId, NEW role, ReceiveProof(h, c, role)
      PROVE  ChallengePart'
  BY <1>3, ReceiveKeeps
<1>4. ASSUME NEW h \in Hello, NEW ok \in BOOLEAN, ProofVerified(h, ok)
      PROVE  ChallengePart'
  <2>1. CASE FailHello(h)
    BY <1>4, <2>1, <1>c DEF ProofVerified, Working
  <2>2. CASE ~FailHello(h)
    <3>1. /\ helloStage' = [helloStage EXCEPT ![h] = "hashing"] /\ helloStage[h] = "verifying"
          /\ UNCHANGED <<helloChallenge, helloSession, helloOutdated, accepted, clearedBelow>>
          /\ PruneChallenges \/ UNCHANGED challengeVars
      BY <1>4, <2>2 DEF ProofVerified, AdvanceHello
    <3>2. HelloTypeOK' /\ \A i \in Hello : Working(i)' <=> Working(i)
      BY <3>1 DEF ChallengePart, HelloTypeOK, Working
    <3>3. /\ challenges' \subseteq challenges
          /\ challengeHeld' = challengeHeld \ (challenges \ challenges')
          /\ UNCHANGED <<reservedChallengeIds, outdatedIssues, challengeGrant, challengeBytes,
                         nextChallenge>>
      BY <3>1 DEF PruneChallenges, PrunedHeld, PrunedChallenges, challengeVars
    <3> QED
      BY <3>1, <3>2, <3>3, OffersShrink
  <2> QED
    BY <2>1, <2>2
<1>5. ASSUME NEW h \in Hello, NEW ok \in BOOLEAN, NEW b \in SessionSizes, TranscriptHashed(h, ok, b)
      PROVE  ChallengePart'
  <2>1. CASE FailHello(h)
    BY <1>5, <2>1, <1>c DEF TranscriptHashed, Working
  <2>2. CASE ~FailHello(h)
    <3>1. /\ helloStage' = [helloStage EXCEPT ![h] = "signing"] /\ helloStage[h] = "hashing"
          /\ UNCHANGED <<helloChallenge, helloOutdated, accepted, clearedBelow, challengeVars>>
          /\ helloSession' = helloSession
               \/ (helloSession' = [helloSession EXCEPT ![h] = nextSession] /\ nextSession \in SessionId)
      <4>1. CASE ReserveSession(h, b)
        BY <1>5, <4>1 DEF TranscriptHashed, ReserveSession, AdvanceHello
      <4>2. CASE ~ReserveSession(h, b)
        BY <1>5, <2>2, <4>2 DEF TranscriptHashed, AdvanceHello
      <4> QED
        BY <4>1, <4>2
    <3>2. HelloTypeOK' /\ \A i \in Hello : Working(i)' <=> Working(i)
      BY <3>1 DEF ChallengePart, HelloTypeOK, Working
    <3>3. \A i \in Hello : ~Working(i) => helloSession'[i] = helloSession[i]
      BY <3>1 DEF ChallengePart, HelloTypeOK, Working
    <3> QED
      BY <3>1, <3>2, <3>3, OffersShrink DEF challengeVars
  <2> QED
    BY <2>1, <2>2
<1>6. ASSUME NEW h \in Hello, NEW ok \in BOOLEAN, AckSigned(h, ok)
      PROVE  ChallengePart'
  <2>1. CASE ok /\ AckCommits(h)
    BY <1>6, <2>1, EndKeeps DEF AckSigned, Working
  <2>2. CASE ~(ok /\ AckCommits(h))
    BY <1>6, <2>2, <1>c DEF AckSigned, Working
  <2> QED
    BY <2>1, <2>2
<1>7. ASSUME NEW r \in Request, NEW s \in SessionId, NEW q \in 0..MaxSequence, Authenticate(r, s, q)
      PROVE  ChallengePart'
  BY <1>7, <1>b DEF Authenticate
<1>8. ASSUME NEW r \in Request, NEW ok \in BOOLEAN, RequestVerified(r, ok)
      PROVE  ChallengePart'
  BY <1>8, <1>a DEF RequestVerified, challengeVars
<1>9. ASSUME NEW r \in Request, NEW ok \in BOOLEAN, SignResponse(r, ok)
      PROVE  ChallengePart'
  BY <1>9, <1>a DEF SignResponse, challengeVars
<1>10. ASSUME NEW s \in SessionId, RevokeCallerSession(s)
       PROVE  ChallengePart'
  BY <1>10, <1>a DEF RevokeCallerSession, challengeVars
<1>11. ASSUME Clear
       PROVE  ChallengePart'
  BY <1>11, ClearKeeps
<1>12. ASSUME NEW g \in Grant, GrantEnds(g)
       PROVE  ChallengePart'
  BY <1>12, <1>a DEF GrantEnds, challengeVars
<1>13. ASSUME NEW c \in ChallengeId, ChallengeExpires(c)
       PROVE  ChallengePart'
  BY <1>13, <1>a DEF ChallengeExpires
<1>14. ASSUME NEW s \in SessionId, SessionExpires(s)
       PROVE  ChallengePart'
  BY <1>14, <1>a DEF SessionExpires, challengeVars
<1>15. CASE UNCHANGED authVars
  BY <1>15, <1>a DEF authVars, challengeVars
<1> QED
  BY <1>1, <1>2, <1>3, <1>4, <1>5, <1>6, <1>7, <1>8, <1>9, <1>10, <1>11, <1>12, <1>13, <1>14,
     <1>15 DEF AuthNext

-----------------------------------------------------------------------------
(* A new authenticator.                                                     *)
LEMMA AuthInitIInv == AuthInit => AuthIInv
<1> SUFFICES ASSUME AuthInit PROVE AuthIInv
  OBVIOUS
<1> USE AuthLimitsAssumption
<1>1. ChallengeTypeOK /\ HelloTypeOK
  BY DEF AuthInit, ChallengeTypeOK, HelloTypeOK, AnyGrant
<1>2. SessionTypeOK
  BY DEF AuthInit, SessionTypeOK, AnyGrant
<1>3. RequestTypeOK
  <2>1. NoneAdmitted \in [1..MaxSequence -> Nat] /\ 0 \in 0..MaxSequence
    BY DEF NoneAdmitted
  <2> QED
    BY <2>1 DEF AuthInit, RequestTypeOK
<1>4. ChallengesOwned /\ ChallengesAfterClear
  BY DEF AuthInit, ChallengesOwned, ChallengesAfterClear, Working
<1>5. SessionsOwned /\ SessionsAfterClear
  BY DEF AuthInit, SessionsOwned, SessionsAfterClear
<1>6. ChallengeCapacity /\ SessionCapacity
  BY ReservedNone, FS_EmptySet DEF AuthInit, ChallengeCapacity, SessionCapacity
<1>7. ReplayWindowExact
  <2>1. ASSUME NEW s \in SessionId
        PROVE  /\ highest[s] = 0 /\ bitmap[s] = {}
               /\ {q \in 1..MaxSequence : admitted[s][q] > 0} = {}
               /\ \A q \in 1..MaxSequence : admitted[s][q] <= 1
    BY DEF AuthInit, NoneAdmitted
  <2> QED
    BY <2>1 DEF ReplayWindowExact
<1> QED
  BY <1>1, <1>2, <1>3, <1>4, <1>5, <1>6, <1>7
     DEF AuthIInv, ChallengePart, SessionPart, ReplayPart

(* The invariant is one.                                                    *)
LEMMA AuthInvariance == AuthSpec => []AuthIInv
<1>1. AuthIInv /\ [AuthNext]_authVars => AuthIInv'
  BY ChallengeStep, SessionStep, ReplayStep DEF AuthIInv
<1> QED
  BY <1>1, AuthInitIInv, PTL DEF AuthSpec

(* However calls, failures, expiry and clear() interleave, the reserved    *)
(* capacity is that of the records that are offered, being signed or being *)
(* consumed, and within any configured limits.                             *)
THEOREM AuthReservationsSafe == AuthSpec => []AuthReservationsExact
<1>1. AuthIInv => AuthReservationsExact
  BY DEF AuthIInv, ChallengePart, SessionPart, ChallengesOwned, SessionsOwned, ChallengeCapacity,
         SessionCapacity, AuthReservationsExact
<1> QED
  BY <1>1, AuthInvariance, PTL

(* No challenge admits two peers, no sequence number two requests, and     *)
(* nothing that began before clear() appears after it, for any number of   *)
(* overlapping proofs and requests and any width of the replay window.     *)
THEOREM AdmissionsSafe == AuthSpec => []AdmissionsSound
<1>1. ASSUME AuthIInv PROVE AdmissionsSound
  <2>1. ChallengeSpentOnce
    BY <1>1 DEF AuthIInv, ChallengePart, ChallengesOwned, Working, ChallengeSpentOnce
  <2>2. ClearedForGood
    BY <1>1 DEF AuthIInv, ChallengePart, SessionPart, ChallengesAfterClear, SessionsAfterClear,
                ClearedForGood
  <2> QED
    BY <1>1, <2>1, <2>2 DEF AuthIInv, ReplayPart, AdmissionsSound, NothingAdmittedTwice
<1> QED
  BY <1>1, AuthInvariance, PTL

(* Every step a request takes past an await is taken under a session that  *)
(* is live, not expired and has its grant at that moment.                  *)
THEOREM AuthorityChecked == AuthSpec => AuthorityCurrent
<1> DEFINE Checked ==
      \A r \in Request :
          requestStage[r] # "idle" /\ requestStage'[r] \notin {"idle", requestStage[r]} =>
            LET s == requestSession[r]
            IN  s \in callerSessions /\ s \notin expiredSessions /\ sessionGrant[s] \in granted
<1>1. ASSUME AuthIInv, [AuthNext]_authVars PROVE [Checked]_authVars
  <2> SUFFICES ASSUME NEW r \in Request, requestStage[r] # "idle",
                      requestStage'[r] \notin {"idle", requestStage[r]}
               PROVE  SessionActive(requestSession[r])
    BY DEF SessionActive
  <2>1. requestStage \in [Request -> {"idle", "verifying", "admitted", "digesting", "signing"}]
    BY <1>1 DEF AuthIInv, ReplayPart, RequestTypeOK
  <2>2. requestStage' # requestStage
    OBVIOUS
  <2>3. ASSUME NEW x \in Request, NEW ok \in BOOLEAN, RequestVerified(x, ok)
        PROVE  SessionActive(requestSession[r])
    BY <2>1, <2>3 DEF RequestVerified, SetStage
  <2>4. ASSUME NEW x \in Request, NEW ok \in BOOLEAN, SignResponse(x, ok)
        PROVE  SessionActive(requestSession[r])
    BY <2>1, <2>4 DEF SignResponse, SetStage
  <2>5. ASSUME NEW x \in Request, NEW s \in SessionId, NEW q \in 0..MaxSequence, Authenticate(x, s, q)
        PROVE  FALSE
    BY <2>1, <2>5 DEF Authenticate, requestVars
  <2>6. ASSUME UNCHANGED requestVars
        PROVE  FALSE
    BY <2>2, <2>6 DEF requestVars
  <2> QED
    BY <1>1, <2>3, <2>4, <2>5, <2>6
       DEF AuthNext, authVars, IssueChallenge, ChallengeSigned, ReceiveProof, ProofVerified,
           TranscriptHashed, AckSigned, RevokeCallerSession, Clear, GrantEnds, ChallengeExpires,
           SessionExpires
<1> QED
  BY <1>1, AuthInvariance, PTL DEF AuthSpec, AuthorityCurrent

-----------------------------------------------------------------------------
(* The credential files.                                                   *)

USE CredentialAssumption

(* What the files and the loaders hold.                                     *)
CredentialTypeOK ==
    /\ published \in [Role -> Loader \cup {NoKey, Damaged}]
    /\ temporary \subseteq Loader \X Role
    /\ stage \in [Loader -> [Role -> {"read", "missing", "generate", "link", "linked", "broken",
                                      "reread", "loaded", "failed"}]]
    /\ loadedKey \in [Loader -> [Role -> Loader \cup {NoKey}]]
    /\ killed \subseteq Loader
    /\ faulty \subseteq Loader \X Role

(* A temporary file belongs to a loader that is between its write and its  *)
(* removal.                                                                *)
TemporaryOwned ==
    \A l \in Loader, r \in Role :
        <<l, r>> \in temporary => stage[l][r] \in {"link", "linked", "broken"}

(* Once a loader has linked, there is a key, and whoever was loaded has it.*)
KeyThere ==
    \A l \in Loader, r \in Role :
        /\ stage[l][r] \in {"linked", "reread", "loaded"} => published[r] \in Loader
        /\ stage[l][r] = "loaded" => loadedKey[l][r] = published[r]

(* A damaged file was there from the start, so nobody found it missing.    *)
DamageFound ==
    \A l \in Loader, r \in Role : published[r] = Damaged => stage[l][r] \in {"read", "failed"}

(* A failure has a cause.                                                  *)
FailureCaused ==
    \A l \in Loader, r \in Role :
        /\ stage[l][r] = "broken" => <<l, r>> \in faulty
        /\ stage[l][r] = "failed" => <<l, r>> \in faulty \/ published[r] # NoKey

(* The inductive invariant.                                                 *)
CredentialIInv ==
    CredentialTypeOK /\ TemporaryOwned /\ KeyThere /\ DamageFound /\ FailureCaused

(* The files as the loaders find them.                                      *)
LEMMA CredentialInitIInv == CredentialInit => CredentialIInv
BY DEF CredentialInit, CredentialIInv, CredentialTypeOK, TemporaryOwned, KeyThere, DamageFound,
       FailureCaused

(* Where a loader may be with a role's key.                                 *)
Stages == {"read", "missing", "generate", "link", "linked", "broken", "reread", "loaded", "failed"}

(* A table of loaders and roles in which one entry is replaced.            *)
LEMMA ReplaceEntry ==
    ASSUME NEW S, NEW f \in [Loader -> [Role -> S]], NEW v \in S,
           NEW l \in Loader, NEW r \in Role
    PROVE  /\ [f EXCEPT ![l][r] = v] \in [Loader -> [Role -> S]]
           /\ \A m \in Loader, q \in Role :
                 [f EXCEPT ![l][r] = v][m][q] = IF m = l /\ q = r THEN v ELSE f[m][q]
OBVIOUS

(* One read of the file: a key that is there is loaded, a damaged file is  *)
(* a failure, and a missing one leads to the given stage.                  *)
LEMMA ReadKeeps ==
    ASSUME CredentialIInv, NEW l \in Loader, NEW r \in Role, NEW missing,
           ReadStored(l, r, missing),
           \/ stage[l][r] = "read" /\ missing = "missing"
           \/ stage[l][r] = "reread" /\ missing = "failed"
    PROVE  CredentialIInv'
<1>1. published[r] \in Loader \cup {NoKey, Damaged} /\ missing \in Stages
  BY DEF CredentialIInv, CredentialTypeOK, Stages
<1>2. ASSUME NEW place \in Stages, Moves(l, r, place)
      PROVE  /\ stage' \in [Loader -> [Role -> Stages]]
             /\ \A m \in Loader, q \in Role :
                   stage'[m][q] = IF m = l /\ q = r THEN place ELSE stage[m][q]
  BY <1>2, ReplaceEntry DEF CredentialIInv, CredentialTypeOK, Stages, Moves
<1>3. \E place \in Stages :
         /\ Moves(l, r, place)
         /\ \/ place = missing /\ published[r] = NoKey
            \/ place = "failed" /\ published[r] = Damaged
            \/ place = "loaded" /\ published[r] \in Loader
         /\ loadedKey' = IF place = "loaded" THEN [loadedKey EXCEPT ![l][r] = published[r]]
                         ELSE loadedKey
  BY <1>1 DEF ReadStored, Stages
<1>4. PICK place \in Stages :
         /\ stage' \in [Loader -> [Role -> Stages]]
         /\ \A m \in Loader, q \in Role :
               stage'[m][q] = IF m = l /\ q = r THEN place ELSE stage[m][q]
         /\ \/ place = missing /\ published[r] = NoKey
            \/ place = "failed" /\ published[r] = Damaged
            \/ place = "loaded" /\ published[r] \in Loader
         /\ loadedKey' = IF place = "loaded" THEN [loadedKey EXCEPT ![l][r] = published[r]]
                         ELSE loadedKey
  BY <1>2, <1>3
<1>5. UNCHANGED <<published, temporary, killed, faulty>>
  BY DEF ReadStored
<1>6. /\ loadedKey' \in [Loader -> [Role -> Loader \cup {NoKey}]]
      /\ \A m \in Loader, q \in Role :
            loadedKey'[m][q] = IF m = l /\ q = r /\ place = "loaded" THEN published[r]
                               ELSE loadedKey[m][q]
  <2>1. CASE place = "loaded"
    <3>1. published[r] \in Loader \cup {NoKey}
      BY <1>1, <1>4, <2>1
    <3>2. loadedKey \in [Loader -> [Role -> Loader \cup {NoKey}]]
      BY DEF CredentialIInv, CredentialTypeOK
    <3> QED
      BY <1>4, <2>1, <3>1, <3>2, ReplaceEntry
  <2>2. CASE place # "loaded"
    BY <1>4, <2>2 DEF CredentialIInv, CredentialTypeOK
  <2> QED
    BY <2>1, <2>2
<1>7. CredentialTypeOK'
  BY <1>4, <1>5, <1>6 DEF CredentialIInv, CredentialTypeOK, Stages
<1>8. TemporaryOwned'
  BY <1>4, <1>5 DEF CredentialIInv, TemporaryOwned
<1>9. KeyThere'
  BY <1>1, <1>4, <1>5, <1>6 DEF CredentialIInv, KeyThere
<1>10. DamageFound'
  BY <1>1, <1>4, <1>5 DEF CredentialIInv, DamageFound, KeyThere
<1>11. FailureCaused'
  BY <1>1, <1>4, <1>5 DEF CredentialIInv, FailureCaused, KeyThere
<1> QED
  BY <1>7, <1>8, <1>9, <1>10, <1>11 DEF CredentialIInv

(* Every step keeps the invariant.                                         *)
LEMMA CredentialStep == CredentialIInv /\ [CredentialNext]_credentialVars => CredentialIInv'
<1> SUFFICES ASSUME CredentialIInv, [CredentialNext]_credentialVars
             PROVE  CredentialIInv'
  OBVIOUS
<1>1. ASSUME NEW l \in Loader, NEW r \in Role, FirstRead(l, r) \/ LastRead(l, r)
      PROVE  CredentialIInv'
  BY <1>1, ReadKeeps DEF FirstRead, LastRead, At
<1> USE DEF CredentialIInv, CredentialTypeOK, TemporaryOwned, KeyThere, DamageFound, FailureCaused
<1>2. ASSUME NEW l \in Loader, NEW r \in Role, AskAgain(l, r)
      PROVE  CredentialIInv'
  BY <1>2 DEF AskAgain, Moves, At
<1>3. ASSUME NEW l \in Loader, NEW r \in Role, WriteTemporary(l, r)
      PROVE  CredentialIInv'
  BY <1>3 DEF WriteTemporary, Moves, At
<1>4. ASSUME NEW l \in Loader, NEW r \in Role, Link(l, r)
      PROVE  CredentialIInv'
  BY <1>4 DEF Link, Moves, At
<1>5. ASSUME NEW l \in Loader, NEW r \in Role, RemoveTemporary(l, r)
      PROVE  CredentialIInv'
  BY <1>5 DEF RemoveTemporary, Moves
<1>6. ASSUME NEW l \in Loader, NEW r \in Role, FileSystemFails(l, r)
      PROVE  CredentialIInv'
  BY <1>6 DEF FileSystemFails, Moves
<1>7. ASSUME NEW l \in Loader, NEW r \in Role, TriesAgain(l, r)
      PROVE  CredentialIInv'
  BY <1>7 DEF TriesAgain, Moves
<1>8. ASSUME NEW l \in Loader, Killed(l)
      PROVE  CredentialIInv'
  BY <1>8 DEF Killed
<1>9. CASE UNCHANGED credentialVars
  BY <1>9 DEF credentialVars
<1> QED
  BY <1>1, <1>2, <1>3, <1>4, <1>5, <1>6, <1>7, <1>8, <1>9 DEF CredentialNext, LoaderStep

(* Every process that loads a credential gets the one the file holds,      *)
(* temporary files are removed, damaged files are kept, and a failure is   *)
(* one of the file system or ends with a file that is there.               *)
THEOREM CredentialsSafe == CredentialSpec => []CredentialsAgree
<1>1. CredentialIInv => CredentialsAgree
  <2> SUFFICES ASSUME CredentialIInv PROVE CredentialsAgree
    OBVIOUS
  <2>1. ASSUME NEW t \in temporary
        PROVE  stage[t[1]][t[2]] \notin {"reread", "loaded", "failed"}
    <3>1. PICK l \in Loader, r \in Role : t = <<l, r>>
      BY DEF CredentialIInv, CredentialTypeOK
    <3> QED
      BY <3>1 DEF CredentialIInv, TemporaryOwned
  <2> QED
    BY <2>1 DEF CredentialIInv, KeyThere, DamageFound, FailureCaused, CredentialsAgree
<1> QED
  BY <1>1, CredentialInitIInv, CredentialStep, PTL DEF CredentialSpec
==============================================================================

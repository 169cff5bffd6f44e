------------------------- MODULE HelloAuthentication -------------------------
(***************************************************************************)
(* The class SessionBrokerAuthenticator of                                 *)
(* packages/session-broker/src/authentication.ts and the replay window     *)
(* CallerSequenceReplayWindow of session-broker-core/src/auth.ts.          *)
(*                                                                         *)
(* A peer asks for a challenge, answers it with a proof and is accepted as *)
(* a producer or as a caller; a caller then gets a session under which it  *)
(* sends signed, numbered requests.  Signing, verifying and hashing are    *)
(* awaited, so between two steps of one call every other call, clear()     *)
(* and the end of a grant may happen.                                      *)
(*                                                                         *)
(* Data abstraction.  Cryptography is its verdict: an awaited step may     *)
(* fail.  Ids are random in the code and 1, 2, ... here.  Time is the set  *)
(* of what has expired.  What was read before an await and compared after  *)
(* it (clearEpoch) is the flag "outdated" that clear() raises.             *)
(***************************************************************************)
EXTENDS Integers, FiniteSets, Reservations

CONSTANTS
    CallerGrant, ProducerGrant, \* the credentials, by role
    Hello,                      \* proofs that may be in flight at once
    Request,                    \* requests that may be in flight at once
    ChallengeSizes,             \* retained bytes of a challenge record
    SessionSizes,               \* retained bytes of a caller session
    maxChallenges, maxChallengeBytes,
    maxCallerSessions, maxCallerSessionsBytes,
    Window,                     \* width of the replay bitmap (64 in the code)
    MaxSequence,                \* largest sequence number
    MaxChallengeIds,            \* bound: challenges issued in one behaviour
    MaxSessionIds               \* bound: caller sessions in one behaviour

ASSUME GrantAssumption == CallerGrant \cap ProducerGrant = {}

ASSUME AuthLimitsAssumption ==
    /\ maxChallenges \in Nat /\ maxChallengeBytes \in Nat
    /\ maxCallerSessions \in Nat /\ maxCallerSessionsBytes \in Nat
    /\ ChallengeSizes \subseteq Nat \ {0}
    /\ SessionSizes \subseteq Nat \ {0}
    /\ Window \in Nat \ {0}
    /\ MaxSequence \in Nat
    /\ MaxChallengeIds \in Nat /\ MaxSessionIds \in Nat

Grant == CallerGrant \cup ProducerGrant
ChallengeId == 1..MaxChallengeIds
SessionId == 1..MaxSessionIds

VARIABLES
    challenges,             \* ids a proof may still consume
    reservedChallengeIds,   \* ids whose challenge is being signed
    outdatedIssues,         \* those of them that clear() overtook
    challengeGrant,         \* [ChallengeId -> Grant]
    challengeBytes,         \* [ChallengeId -> bytes its reservation holds]
    challengeHeld,          \* ids whose reservation is not released
    expiredChallenges,      \* live or signing ids past expiresAt
    nextChallenge,          \* the next random id
    helloStage,             \* [Hello -> where its call is suspended]
    helloChallenge,         \* [Hello -> the challenge it consumes]
    helloOutdated,          \* [Hello -> clear() ran since it started]
    helloSession,           \* [Hello -> the session id it reserved, or 0]
    callerSessions,         \* ids of the caller sessions
    sessionGrant,           \* [SessionId -> Grant]
    sessionBytes,           \* [SessionId -> bytes its reservation holds]
    sessionHeld,            \* ids whose reservation is not released
    expiredSessions,        \* live or signing ids past expiresAt
    nextSession,            \* the next random id
    highest, bitmap,        \* [SessionId -> the replay window]
    requestStage,           \* [Request -> where its call is suspended]
    requestSession,         \* [Request -> the session that signed it]
    requestSequence,        \* [Request -> its sequence number]
    granted,                \* grants neither revoked nor expired
    accepted,               \* history: [ChallengeId -> hellos accepted with it]
    admitted,               \* history: [SessionId -> [sequence -> times admitted]]
    sessionOrigin,          \* history: [SessionId -> the challenge behind it]
    clearedBelow            \* history: ids below it were issued before clear()

challengeVars == <<challenges, reservedChallengeIds, outdatedIssues, challengeGrant,
                   challengeBytes, challengeHeld, expiredChallenges, nextChallenge>>
helloVars == <<helloStage, helloChallenge, helloOutdated, helloSession, accepted>>
callerSessionVars == <<callerSessions, sessionGrant, sessionBytes, sessionHeld, expiredSessions,
                 nextSession, sessionOrigin>>
replayVars == <<highest, bitmap, admitted>>
requestVars == <<requestStage, requestSession, requestSequence>>
authVars == <<challengeVars, helloVars, callerSessionVars, replayVars, requestVars, granted,
              clearedBelow>>

NoneAdmitted == [q \in 1..MaxSequence |-> 0]

AuthInit ==
    /\ challenges = {} /\ reservedChallengeIds = {} /\ outdatedIssues = {}
    /\ challengeGrant \in [ChallengeId -> {CHOOSE g \in Grant : TRUE}]
    /\ challengeBytes = [c \in ChallengeId |-> 0]
    /\ challengeHeld = {} /\ expiredChallenges = {} /\ nextChallenge = 1
    /\ helloStage = [h \in Hello |-> "idle"]
    /\ helloChallenge = [h \in Hello |-> 0]
    /\ helloOutdated = [h \in Hello |-> FALSE]
    /\ helloSession = [h \in Hello |-> 0]
    /\ callerSessions = {}
    /\ sessionGrant \in [SessionId -> {CHOOSE g \in Grant : TRUE}]
    /\ sessionBytes = [s \in SessionId |-> 0]
    /\ sessionHeld = {} /\ expiredSessions = {} /\ nextSession = 1
    /\ highest = [s \in SessionId |-> 0]
    /\ bitmap = [s \in SessionId |-> {}]
    /\ requestStage = [r \in Request |-> "idle"]
    /\ requestSession = [r \in Request |-> 0]
    /\ requestSequence = [r \in Request |-> 0]
    /\ granted = Grant
    /\ accepted = [c \in ChallengeId |-> 0]
    /\ admitted = [s \in SessionId |-> NoneAdmitted]
    /\ sessionOrigin = [s \in SessionId |-> 0]
    /\ clearedBelow = 1

-----------------------------------------------------------------------------
(***************************************************************************)
(* Deleting records.                                                       *)
(***************************************************************************)

(* deleteCallerSession for a set of ids: each record goes with what it     *)
(* reserved and with its replay window.  An id that is not in the map is   *)
(* left alone.                                                             *)
DeleteCallerSessions(ids) ==
    LET gone == ids \cap callerSessions
    IN  /\ callerSessions' = callerSessions \ gone
        /\ sessionHeld' = sessionHeld \ gone
        /\ expiredSessions' = expiredSessions \ gone
        /\ sessionBytes' = [s \in SessionId |-> IF s \in gone THEN 0 ELSE sessionBytes[s]]
        /\ sessionOrigin' = [s \in SessionId |-> IF s \in gone THEN 0 ELSE sessionOrigin[s]]
        /\ highest' = [s \in SessionId |-> IF s \in gone THEN 0 ELSE highest[s]]
        /\ bitmap' = [s \in SessionId |-> IF s \in gone THEN {} ELSE bitmap[s]]
        /\ admitted' = [s \in SessionId |-> IF s \in gone THEN NoneAdmitted ELSE admitted[s]]
        /\ UNCHANGED <<sessionGrant, nextSession>>

(* Mutant: the expired challenges are forgotten with their reservations.   *)
PrunedHeld_Leaks == challengeHeld

(* The challenge reservations that pruneExpired leaves.                    *)
PrunedHeld == challengeHeld \ (challenges \cap expiredChallenges)

(* The map after pruneExpired. *)
PrunedChallenges == challenges \ expiredChallenges

(* The session half of pruneExpired, with one more session deleted.        *)
PruneSessions(also) == DeleteCallerSessions(expiredSessions \cup also)

(* pruneExpired, for a call that changes no challenge besides.             *)
PruneChallenges ==
    /\ challenges' = PrunedChallenges
    /\ challengeHeld' = PrunedHeld
    /\ expiredChallenges' = expiredChallenges \ challenges
    /\ UNCHANGED <<reservedChallengeIds, outdatedIssues, challengeGrant, challengeBytes,
                   nextChallenge>>

-----------------------------------------------------------------------------
(***************************************************************************)
(* Challenges.                                                             *)
(***************************************************************************)

(* issueChallenge up to its await: prune, look the credential up, reserve  *)
(* one record and its bytes and keep the id while the challenge is signed. *)
IssueChallenge(g, bytes) ==
    LET c == nextChallenge
        fits == /\ g \in granted
                /\ Cardinality(PrunedHeld) < maxChallenges
                /\ Reserved(challengeBytes, PrunedHeld) + bytes <= maxChallengeBytes
    IN  /\ c \in ChallengeId
        /\ PruneSessions({})
        /\ challenges' = PrunedChallenges
        /\ expiredChallenges' = expiredChallenges \ challenges
        /\ challengeHeld' = IF fits THEN PrunedHeld \cup {c} ELSE PrunedHeld
        /\ reservedChallengeIds' = IF fits THEN reservedChallengeIds \cup {c}
                                   ELSE reservedChallengeIds
        /\ challengeGrant' = IF fits THEN [challengeGrant EXCEPT ![c] = g] ELSE challengeGrant
        /\ challengeBytes' = IF fits THEN [challengeBytes EXCEPT ![c] = bytes]
                             ELSE challengeBytes
        /\ nextChallenge' = IF fits THEN c + 1 ELSE c
        /\ UNCHANGED <<outdatedIssues, helloVars, requestVars, granted, clearedBelow>>

(* The challenge is signed: it is offered if nothing cleared meanwhile,    *)
(* and what it reserved is released otherwise.                             *)
ChallengeSigned(c, ok) ==
    LET committed == ok /\ c \notin outdatedIssues
    IN  /\ c \in reservedChallengeIds
        /\ reservedChallengeIds' = reservedChallengeIds \ {c}
        /\ outdatedIssues' = outdatedIssues \ {c}
        /\ challenges' = IF committed THEN challenges \cup {c} ELSE challenges
        /\ challengeHeld' = IF committed THEN challengeHeld ELSE challengeHeld \ {c}
        /\ expiredChallenges' = IF committed THEN expiredChallenges
                                ELSE expiredChallenges \ {c}
        /\ UNCHANGED <<challengeGrant, challengeBytes, nextChallenge, helloVars, callerSessionVars,
                       replayVars, requestVars, granted, clearedBelow>>

-----------------------------------------------------------------------------
(***************************************************************************)
(* Hellos: completeCallerHello and completeProducerHello.                  *)
(***************************************************************************)

(* takeChallenge removes the challenge before anything is awaited.         *)
TakeChallenge(c) == challenges \ {c}

(* A proof arrives at the endpoint of one role.  A challenge that is gone  *)
(* refuses it; one that expired or has the other role is spent with it.    *)
ReceiveProof(h, c, roleGrants) ==
    LET valid == c \notin expiredChallenges /\ challengeGrant[c] \in roleGrants
    IN  /\ helloStage[h] = "idle"
        /\ c \in challenges
        /\ challenges' = TakeChallenge(c)
        /\ expiredChallenges' = expiredChallenges \ {c}
        /\ challengeHeld' = IF valid THEN challengeHeld ELSE challengeHeld \ {c}
        /\ helloStage' = IF valid THEN [helloStage EXCEPT ![h] = "verifying"] ELSE helloStage
        /\ helloChallenge' = IF valid THEN [helloChallenge EXCEPT ![h] = c] ELSE helloChallenge
        /\ UNCHANGED <<reservedChallengeIds, outdatedIssues, challengeGrant, challengeBytes,
                       nextChallenge, helloOutdated, helloSession, accepted, callerSessionVars,
                       replayVars, requestVars, granted, clearedBelow>>

(* The call of h returns or throws. *)
EndHello(h) ==
    /\ helloStage' = [helloStage EXCEPT ![h] = "idle"]
    /\ helloChallenge' = [helloChallenge EXCEPT ![h] = 0]
    /\ helloOutdated' = [helloOutdated EXCEPT ![h] = FALSE]
    /\ helloSession' = [helloSession EXCEPT ![h] = 0]

ReleaseChallenge(c) ==
    /\ challengeHeld' = challengeHeld \ {c}
    /\ UNCHANGED <<challenges, reservedChallengeIds, outdatedIssues, challengeGrant,
                   challengeBytes, expiredChallenges, nextChallenge>>

(* The hello fails: its challenge, and the session it reserved, come back. *)
FailHello(h) ==
    /\ EndHello(h)
    /\ ReleaseChallenge(helloChallenge[h])
    /\ sessionHeld' = sessionHeld \ {helloSession[h]}
    /\ expiredSessions' = expiredSessions \ {helloSession[h]}
    /\ sessionBytes' = [s \in SessionId |-> IF s = helloSession[h] THEN 0 ELSE sessionBytes[s]]
    /\ sessionOrigin' = [s \in SessionId |-> IF s = helloSession[h] THEN 0 ELSE sessionOrigin[s]]
    /\ UNCHANGED <<callerSessions, sessionGrant, nextSession, accepted, replayVars>>

AdvanceHello(h, stage) ==
    /\ helloStage' = [helloStage EXCEPT ![h] = stage]
    /\ UNCHANGED <<helloChallenge, helloOutdated, accepted>>

IsCaller(h) == challengeGrant[helloChallenge[h]] \in CallerGrant

(* The proof is verified.  A caller's hello prunes before it goes on.      *)
ProofVerified(h, ok) ==
    /\ helloStage[h] = "verifying"
    /\ IF ok /\ ~helloOutdated[h] /\ challengeGrant[helloChallenge[h]] \in granted
       THEN /\ AdvanceHello(h, "hashing")
            /\ UNCHANGED helloSession
            /\ IF IsCaller(h) THEN PruneChallenges /\ PruneSessions({})
               ELSE UNCHANGED <<challengeVars, callerSessionVars, replayVars>>
       ELSE FailHello(h)
    /\ UNCHANGED <<requestVars, granted, clearedBelow>>

(* createCallerSession up to its second await: a session id and room for   *)
(* its record are reserved while the acknowledgement is signed.            *)
ReserveSession(h, bytes) ==
    LET s == nextSession
    IN  /\ s \in SessionId
        /\ Cardinality(sessionHeld) < maxCallerSessions
        /\ Reserved(sessionBytes, sessionHeld) + bytes <= maxCallerSessionsBytes
        /\ AdvanceHello(h, "signing")
        /\ helloSession' = [helloSession EXCEPT ![h] = s]
        /\ sessionHeld' = sessionHeld \cup {s}
        /\ sessionGrant' = [sessionGrant EXCEPT ![s] = challengeGrant[helloChallenge[h]]]
        /\ sessionBytes' = [sessionBytes EXCEPT ![s] = bytes]
        /\ sessionOrigin' = [sessionOrigin EXCEPT ![s] = helloChallenge[h]]
        /\ nextSession' = s + 1
        /\ UNCHANGED <<challengeVars, callerSessions, expiredSessions, replayVars>>

(* The transcript is hashed. *)
TranscriptHashed(h, ok, bytes) ==
    /\ helloStage[h] = "hashing"
    /\ IF ok /\ ~helloOutdated[h] /\ IsCaller(h) THEN
          \/ ReserveSession(h, bytes)
          \/ /\ \/ Cardinality(sessionHeld) >= maxCallerSessions
                \/ Reserved(sessionBytes, sessionHeld) + bytes > maxCallerSessionsBytes
             /\ FailHello(h)
       ELSE IF ok /\ ~helloOutdated[h] THEN
          /\ AdvanceHello(h, "signing")
          /\ UNCHANGED <<helloSession, challengeVars, callerSessionVars, replayVars>>
       ELSE FailHello(h)
    /\ UNCHANGED <<requestVars, granted, clearedBelow>>

(* Mutant: the epoch is not compared again after the last await.           *)
AckCommits_AnyEpoch(h) == IsCaller(h) \/ challengeGrant[helloChallenge[h]] \in granted

(* What is checked again once the acknowledgement is signed: the epoch     *)
(* and, for a producer, the grant.                                         *)
AckCommits(h) ==
    /\ ~helloOutdated[h]
    /\ IsCaller(h) \/ challengeGrant[helloChallenge[h]] \in granted

(* The acknowledgement is signed: the caller session is published, or the  *)
(* producer accepted, and the challenge's reservation is released.         *)
AckSigned(h, ok) ==
    LET c == helloChallenge[h]
    IN  /\ helloStage[h] = "signing"
        /\ IF ok /\ AckCommits(h)
           THEN /\ EndHello(h)
                /\ ReleaseChallenge(c)
                /\ callerSessions' = IF IsCaller(h) THEN callerSessions \cup {helloSession[h]}
                                     ELSE callerSessions
                /\ accepted' = [accepted EXCEPT ![c] = @ + 1]
                /\ UNCHANGED <<sessionGrant, sessionBytes, sessionHeld, expiredSessions,
                               nextSession, sessionOrigin, replayVars>>
           ELSE FailHello(h)
        /\ UNCHANGED <<requestVars, granted, clearedBelow>>

-----------------------------------------------------------------------------
(***************************************************************************)
(* Signed requests.                                                        *)
(***************************************************************************)

SetStage(r, stage) ==
    /\ requestStage' = [requestStage EXCEPT ![r] = stage]
    /\ requestSession' = IF stage = "idle" THEN [requestSession EXCEPT ![r] = 0]
                         ELSE requestSession
    /\ requestSequence' = IF stage = "idle" THEN [requestSequence EXCEPT ![r] = 0]
                          ELSE requestSequence

(* authenticate up to its awaits: prune, find the session; a session whose *)
(* grant ended is deleted on the way.                                      *)
Authenticate(r, s, q) ==
    LET active == s \in callerSessions \ expiredSessions
    IN  /\ requestStage[r] = "idle"
        /\ PruneChallenges
        /\ IF active /\ sessionGrant[s] \in granted
           THEN /\ PruneSessions({})
                /\ requestStage' = [requestStage EXCEPT ![r] = "verifying"]
                /\ requestSession' = [requestSession EXCEPT ![r] = s]
                /\ requestSequence' = [requestSequence EXCEPT ![r] = q]
           ELSE /\ PruneSessions({s})
                /\ UNCHANGED requestVars
        /\ UNCHANGED <<helloVars, granted, clearedBelow>>

(* Mutant: only the existence of the session is checked again.             *)
SessionActive_MapOnly(s) == s \in callerSessions

(* assertCallerSessionActive would not throw. *)
SessionActive(s) ==
    /\ s \in callerSessions
    /\ sessionGrant[s] \in granted
    /\ s \notin expiredSessions

(* Mutant: the bitmap is not shifted by the whole advance.                 *)
(* The bitmap, moved by the distance of a new highest sequence. *)
Shifted(s, q) == {d + (q - highest[s]) : d \in bitmap[s]} \cap 0..(Window - 1)

(* CallerSequenceReplayWindow.admit returns "accepted". *)
Admits(s, q) ==
    IF q <= highest[s]
    THEN highest[s] - q < Window /\ highest[s] - q \notin bitmap[s]
    ELSE q - highest[s] <= Window

Admit(s, q) ==
    /\ highest' = [highest EXCEPT ![s] = IF q > @ THEN q ELSE @]
    /\ bitmap' = [bitmap EXCEPT ![s] = IF q <= highest[s] THEN @ \cup {highest[s] - q}
                                       ELSE Shifted(s, q) \cup {0}]
    /\ admitted' = [admitted EXCEPT ![s][q] = @ + 1]

(* The body is hashed and the signature verified: the session is looked at *)
(* again, and the sequence number admitted, in one step.                   *)
RequestVerified(r, ok) ==
    LET s == requestSession[r]
        q == requestSequence[r]
    IN  /\ requestStage[r] = "verifying"
        /\ IF ok /\ SessionActive(s) /\ q > 0 /\ Admits(s, q)
           THEN SetStage(r, "admitted") /\ Admit(s, q) /\ UNCHANGED callerSessionVars
           ELSE SetStage(r, "idle") /\ DeleteCallerSessions(IF ok /\ ~SessionActive(s) THEN {s}
                                                             ELSE {})
        /\ UNCHANGED <<challengeVars, helloVars, granted, clearedBelow>>

NextStage(stage) ==
    CASE stage = "admitted" -> "digesting"
      [] stage = "digesting" -> "signing"
      [] stage = "signing" -> "idle"

(* signResponse, one step per await: every time the session is looked at   *)
(* again.  (assertActive compares the epoch too, which adds nothing: clear *)
(* empties the session map.)                                               *)
SignResponse(r, ok) ==
    LET s == requestSession[r]
    IN  /\ requestStage[r] \in {"admitted", "digesting", "signing"}
        /\ IF ok /\ SessionActive(s) THEN SetStage(r, NextStage(requestStage[r]))
           ELSE SetStage(r, "idle")
        /\ DeleteCallerSessions(IF ok /\ ~SessionActive(s) THEN {s} ELSE {})
        /\ UNCHANGED <<challengeVars, helloVars, granted, clearedBelow>>

-----------------------------------------------------------------------------
(***************************************************************************)
(* Revocation, clear() and time.                                           *)
(***************************************************************************)

RevokeCallerSession(s) ==
    /\ s \in callerSessions
    /\ DeleteCallerSessions({s})
    /\ UNCHANGED <<challengeVars, helloVars, requestVars, granted, clearedBelow>>

(* clear() empties both maps.  What a call in flight reserved stays        *)
(* reserved until that call notices the new epoch.                         *)
Clear ==
    /\ challenges' = {}
    /\ challengeHeld' = challengeHeld \ challenges
    /\ expiredChallenges' = expiredChallenges \ challenges
    /\ outdatedIssues' = reservedChallengeIds
    /\ helloOutdated' = [h \in Hello |-> helloStage[h] # "idle"]
    /\ DeleteCallerSessions(callerSessions)
    /\ clearedBelow' = nextChallenge
    /\ UNCHANGED <<reservedChallengeIds, challengeGrant, challengeBytes, nextChallenge,
                   helloStage, helloChallenge, helloSession, accepted, requestVars,
                   granted>>

GrantEnds(g) ==
    /\ g \in granted
    /\ granted' = granted \ {g}
    /\ UNCHANGED <<challengeVars, helloVars, callerSessionVars, replayVars, requestVars, clearedBelow>>

ChallengeExpires(c) ==
    /\ c \in (challenges \cup reservedChallengeIds) \ expiredChallenges
    /\ expiredChallenges' = expiredChallenges \cup {c}
    /\ UNCHANGED <<challenges, reservedChallengeIds, outdatedIssues, challengeGrant,
                   challengeBytes, challengeHeld, nextChallenge, helloVars, callerSessionVars,
                   replayVars, requestVars, granted, clearedBelow>>

SessionExpires(s) ==
    /\ s \in sessionHeld \ expiredSessions
    /\ expiredSessions' = expiredSessions \cup {s}
    /\ UNCHANGED <<challengeVars, helloVars, callerSessions, sessionGrant, sessionBytes,
                   sessionHeld, nextSession, sessionOrigin, replayVars, requestVars, granted,
                   clearedBelow>>

AuthNext ==
    \/ \E g \in Grant, b \in ChallengeSizes : IssueChallenge(g, b)
    \/ \E c \in ChallengeId, ok \in BOOLEAN : ChallengeSigned(c, ok)
    \/ \E h \in Hello, c \in ChallengeId, role \in {CallerGrant, ProducerGrant} :
          ReceiveProof(h, c, role)
    \/ \E h \in Hello, ok \in BOOLEAN : ProofVerified(h, ok)
    \/ \E h \in Hello, ok \in BOOLEAN, b \in SessionSizes : TranscriptHashed(h, ok, b)
    \/ \E h \in Hello, ok \in BOOLEAN : AckSigned(h, ok)
    \/ \E r \in Request, s \in SessionId, q \in 0..MaxSequence : Authenticate(r, s, q)
    \/ \E r \in Request, ok \in BOOLEAN : RequestVerified(r, ok)
    \/ \E r \in Request, ok \in BOOLEAN : SignResponse(r, ok)
    \/ \E s \in SessionId : RevokeCallerSession(s)
    \/ Clear
    \/ \E g \in Grant : GrantEnds(g)
    \/ \E c \in ChallengeId : ChallengeExpires(c)
    \/ \E s \in SessionId : SessionExpires(s)

AuthSpec == AuthInit /\ [][AuthNext]_authVars

-----------------------------------------------------------------------------
(***************************************************************************)
(* Properties.                                                             *)
(***************************************************************************)

(* Whatever fails, expires or is cleared between two awaits, exactly the   *)
(* records that are offered, being signed or being consumed hold capacity, *)
(* and never more than the limits allow: no path of the calls leaks a      *)
(* reservation or lets clear() hand out room that is still in use.         *)
AuthReservationsExact ==
    /\ challengeHeld = challenges \cup reservedChallengeIds
                         \cup {helloChallenge[h] : h \in {x \in Hello : helloStage[x] # "idle"}}
    /\ sessionHeld = callerSessions \cup ({helloSession[h] : h \in Hello} \ {0})
    /\ Cardinality(challengeHeld) <= maxChallenges
    /\ Reserved(challengeBytes, challengeHeld) <= maxChallengeBytes
    /\ Cardinality(sessionHeld) <= maxCallerSessions
    /\ Reserved(sessionBytes, sessionHeld) <= maxCallerSessionsBytes

(* A challenge admits one peer: however many proofs for it overlap, at     *)
(* most one is accepted, and two calls never work on one challenge.        *)
ChallengeSpentOnce ==
    /\ \A c \in ChallengeId : accepted[c] <= 1
    /\ \A h, i \in Hello :
          helloStage[h] # "idle" /\ helloChallenge[h] = helloChallenge[i] => h = i

(* No sequence number of a session is admitted twice, in whatever order    *)
(* overlapping requests finish their verification, and the bitmap is the   *)
(* set of admitted numbers as far back as it reaches, so none that was     *)
(* never admitted is refused as a duplicate.                               *)
ReplayWindowExact ==
    \A s \in SessionId :
        LET seen == {q \in 1..MaxSequence : admitted[s][q] > 0}
        IN  /\ \A q \in 1..MaxSequence : admitted[s][q] <= 1 /\ (q \in seen => q <= highest[s])
            /\ highest[s] \in seen \cup {0}
            /\ bitmap[s] = {highest[s] - q : q \in seen} \cap 0..(Window - 1)

(* What is presented twice is admitted once: a challenge by one proof, a   *)
(* sequence number by one request, in whatever order verifications finish. *)
NothingAdmittedTwice == ChallengeSpentOnce /\ ReplayWindowExact

(* Nothing that began before clear() survives it: neither a challenge that *)
(* was being signed nor a session whose hello was in flight appears after. *)
ClearedForGood ==
    /\ \A c \in challenges : c >= clearedBelow
    /\ \A s \in callerSessions : sessionOrigin[s] >= clearedBelow

(* Both: nothing is admitted twice, and nothing across a clear().          *)
AdmissionsSound == NothingAdmittedTwice /\ ClearedForGood

(* A request is admitted only under a session that neither clear(), a      *)
(* revocation nor its expiry ended while the signature was being verified, *)
(* and the same holds for every step of the response.                      *)
AuthorityCurrent ==
    [][\A r \in Request :
          requestStage[r] # "idle" /\ requestStage'[r] \notin {"idle", requestStage[r]} =>
            LET s == requestSession[r]
            IN  s \in callerSessions /\ s \notin expiredSessions /\ sessionGrant[s] \in granted
      ]_authVars
===============================================================================

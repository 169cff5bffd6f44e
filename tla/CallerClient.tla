----------------------------- MODULE CallerClient -----------------------------
(***************************************************************************)
(* The caller's side of signed requests: SessionBrokerCallerClient in      *)
(* packages/session-broker/src/clientAuthentication.ts.                    *)
(*                                                                         *)
(* Requests run concurrently over one caller session.  They share a        *)
(* negotiation when there is no session, or when it has expired, and each  *)
(* may renegotiate once after a 401.  A negotiation, and a 401, may arrive *)
(* when what they are about was already replaced.                          *)
(*                                                                         *)
(* Data abstraction.  A session is named by the negotiation that made it;  *)
(* its allocator is installed with it and numbers a request in the step    *)
(* that reads the session.  The daemon (HelloAuthentication) is here what  *)
(* it answers: a daemon that was restarted knows neither the challenges    *)
(* nor the sessions of the one before it.                                  *)
(***************************************************************************)
EXTENDS Integers, FiniteSets

CONSTANTS
    CRequest,             \* the requests of one behaviour
    MaxRestarts,          \* bound on daemon restarts
    MaxExpiries,          \* bound on sessions that expire
    MaxDrops              \* bound on fetches that fail by themselves

ASSUME CallerAssumption ==
    /\ IsFiniteSet(CRequest)
    /\ MaxRestarts \in Nat /\ MaxExpiries \in Nat /\ MaxDrops \in Nat

(* Every request starts at most two negotiations; the first one may have   *)
(* ended before the behaviour begins.  0 is "none".                        *)
Negotiation == 1..(1 + 2 * Cardinality(CRequest))
NoSession == 0

VARIABLES
    session,          \* this.session, with this.sequence and this.pending
    authenticationEpoch,
    negotiation,      \* this.negotiation, or 0
    talk,             \* [Negotiation -> what negotiate() awaits]
    talkEpoch,        \* [Negotiation -> the epoch it was started in]
    origin,           \* [Negotiation -> the daemon that gave the challenge]
    callStage,        \* [CRequest -> where request() is]
    tries,            \* [CRequest -> 0 or 1]
    waitsFor,         \* [CRequest -> the negotiation it awaits]
    attemptedSession, attemptedEpoch,
    outcome,          \* [CRequest -> how request() ended]
    incarnation,      \* which daemon runs
    expiredSessions,  \* sessions past expiresAt
    drops

talkVars == <<negotiation, talk, talkEpoch, origin>>
callVars == <<callStage, tries, waitsFor, attemptedSession, attemptedEpoch, outcome>>
peerVars == <<incarnation, expiredSessions, drops>>
callerVars == <<session, authenticationEpoch, talkVars, callVars, peerVars>>

CallerInit ==
    /\ session \in {NoSession, 1}
    /\ authenticationEpoch = 0 /\ negotiation = 0
    /\ talk = [n \in Negotiation |-> IF n <= session THEN "over" ELSE "unused"]
    /\ talkEpoch = [n \in Negotiation |-> 0]
    /\ origin = [n \in Negotiation |-> 0]
    /\ callStage = [r \in CRequest |-> "idle"]
    /\ tries = [r \in CRequest |-> 0]
    /\ waitsFor = [r \in CRequest |-> 0]
    /\ attemptedSession = [r \in CRequest |-> NoSession]
    /\ attemptedEpoch = [r \in CRequest |-> 0]
    /\ outcome = [r \in CRequest |-> "none"]
    /\ incarnation = 0 /\ expiredSessions = {} /\ drops = 0

(* A request that was woken runs on before any event is handled. *)
Quiet == \A r \in CRequest : callStage[r] # "woken"

(* The negotiation that is started next. *)
NextNegotiation ==
    CHOOSE n \in Negotiation :
        talk[n] = "unused" /\ \A k \in Negotiation : talk[k] = "unused" => n <= k

-----------------------------------------------------------------------------
(***************************************************************************)
(* One attempt of request().                                               *)
(***************************************************************************)

(* The loop's head, when it finds session s, negotiation n and epoch e: go *)
(* on with the session, or await the negotiation, started if there is none. *)
LoopHead(r, s, n, e) ==
    \/ /\ s # NoSession /\ s \notin expiredSessions
       /\ callStage' = [callStage EXCEPT ![r] = "woken"]
       /\ negotiation' = n
       /\ UNCHANGED <<talk, talkEpoch, origin, waitsFor>>
    \/ /\ s = NoSession \/ s \in expiredSessions
       /\ callStage' = [callStage EXCEPT ![r] = "waiting"]
       /\ IF n # 0
          THEN /\ waitsFor' = [waitsFor EXCEPT ![r] = n]
               /\ negotiation' = n
               /\ UNCHANGED <<talk, talkEpoch, origin>>
          ELSE /\ waitsFor' = [waitsFor EXCEPT ![r] = NextNegotiation]
               /\ negotiation' = NextNegotiation
               /\ talk' = [talk EXCEPT ![NextNegotiation] = "challenge"]
               /\ talkEpoch' = [talkEpoch EXCEPT ![NextNegotiation] = e]
               /\ UNCHANGED origin

(* request() is called. *)
CallRequest(r) ==
    /\ Quiet
    /\ callStage[r] = "idle"
    /\ LoopHead(r, session, negotiation, authenticationEpoch)
    /\ UNCHANGED <<session, authenticationEpoch, tries, attemptedSession, attemptedEpoch, outcome,
                   peerVars>>

(* signedRequest(): the session is read and the request is sent. *)
SendSigned(r) ==
    /\ callStage[r] = "woken"
    /\ callStage' = [callStage EXCEPT ![r] = "sent"]
    /\ attemptedSession' = [attemptedSession EXCEPT ![r] = session]
    /\ attemptedEpoch' = [attemptedEpoch EXCEPT ![r] = authenticationEpoch]
    /\ UNCHANGED <<session, authenticationEpoch, talkVars, tries, waitsFor, outcome, peerVars>>

(* The daemon authenticates the request; its answer travels. *)
DaemonAuthenticates(r) ==
    /\ Quiet
    /\ callStage[r] = "sent"
    /\ LET s == attemptedSession[r]
       IN  callStage' = [callStage EXCEPT ![r] =
               IF origin[s] = incarnation /\ s \notin expiredSessions THEN "answered" ELSE "401"]
    /\ UNCHANGED <<session, authenticationEpoch, talkVars, tries, waitsFor, attemptedSession,
                   attemptedEpoch, outcome, peerVars>>

CallEnds(r, how) ==
    /\ callStage' = [callStage EXCEPT ![r] = "ended"]
    /\ outcome' = [outcome EXCEPT ![r] = how]

(* A signed answer arrives. *)
AnswerArrives(r) ==
    /\ Quiet
    /\ callStage[r] = "answered"
    /\ CallEnds(r, "ok")
    /\ UNCHANGED <<session, authenticationEpoch, talkVars, tries, waitsFor, attemptedSession,
                   attemptedEpoch, peerVars>>

(* Only the request that still owns the current epoch may clear it. *)
OwnsEpoch(r) == session = attemptedSession[r] /\ authenticationEpoch = attemptedEpoch[r]

(* A 401 arrives: the first one is tried again, with clear() if the        *)
(* request owns the epoch; the second ends the request.                    *)
RefusalArrives(r) ==
    /\ Quiet
    /\ callStage[r] = "401"
    /\ \/ /\ tries[r] = 0
          /\ tries' = [tries EXCEPT ![r] = 1]
          /\ UNCHANGED outcome
          /\ \/ /\ OwnsEpoch(r)
                /\ session' = NoSession
                /\ authenticationEpoch' = authenticationEpoch + 1
                /\ LoopHead(r, NoSession, 0, authenticationEpoch + 1)
             \/ /\ ~OwnsEpoch(r)
                /\ UNCHANGED <<session, authenticationEpoch>>
                /\ LoopHead(r, session, negotiation, authenticationEpoch)
       \/ /\ tries[r] = 1
          /\ CallEnds(r, "refused")
          /\ UNCHANGED <<session, authenticationEpoch, talkVars, tries, waitsFor>>
    /\ UNCHANGED <<attemptedSession, attemptedEpoch, peerVars>>

(* The caller aborts: the wait, or the fetch, rejects; the negotiation     *)
(* goes on for the others.                                                 *)
CallAborted(r) ==
    /\ Quiet
    /\ callStage[r] \in {"waiting", "sent", "answered", "401"}
    /\ CallEnds(r, "aborted")
    /\ UNCHANGED <<session, authenticationEpoch, talkVars, tries, waitsFor, attemptedSession,
                   attemptedEpoch, peerVars>>

-----------------------------------------------------------------------------
(***************************************************************************)
(* negotiate().                                                            *)
(***************************************************************************)

(* The daemon issues the challenge. *)
ChallengeComes(n) ==
    /\ Quiet
    /\ talk[n] = "challenge"
    /\ talk' = [talk EXCEPT ![n] = "proof"]
    /\ origin' = [origin EXCEPT ![n] = incarnation]
    /\ UNCHANGED <<session, authenticationEpoch, negotiation, talkEpoch, callVars, peerVars>>

(* The daemon accepts the proof; the session travels. *)
ProofAccepted(n) ==
    /\ Quiet
    /\ talk[n] = "proof"
    /\ origin[n] = incarnation
    /\ talk' = [talk EXCEPT ![n] = "ack"]
    /\ UNCHANGED <<session, authenticationEpoch, negotiation, talkEpoch, origin, callVars,
                   peerVars>>

(* The requests whose await of this promise is over. *)
WakesWaiters(n) == {r \in CRequest : callStage[r] = "waiting" /\ waitsFor[r] = n}

(* The promise of negotiation n rejects. *)
NegotiationRejects(n, why) ==
    /\ talk' = [talk EXCEPT ![n] = "over"]
    /\ negotiation' = IF negotiation = n THEN 0 ELSE negotiation
    /\ callStage' = [r \in CRequest |-> IF r \in WakesWaiters(n) THEN "ended" ELSE callStage[r]]
    /\ outcome' = [r \in CRequest |-> IF r \in WakesWaiters(n) THEN why ELSE outcome[r]]
    /\ UNCHANGED <<session, authenticationEpoch, talkEpoch, origin, tries, waitsFor,
                   attemptedSession, attemptedEpoch>>

(* A daemon that never gave the challenge refuses the proof. *)
ProofRefused(n) ==
    /\ Quiet
    /\ talk[n] = "proof"
    /\ origin[n] # incarnation
    /\ NegotiationRejects(n, "negotiation")
    /\ UNCHANGED peerVars

(* A fetch of negotiation n fails. *)
NegotiationDrops(n) ==
    /\ Quiet
    /\ talk[n] \in {"challenge", "proof", "ack"}
    /\ drops < MaxDrops
    /\ drops' = drops + 1
    /\ NegotiationRejects(n, "negotiation")
    /\ UNCHANGED <<incarnation, expiredSessions>>

Installs_Always(n) == TRUE

(* The epoch check after the last await. *)
Installs(n) == talkEpoch[n] = authenticationEpoch

(* The acknowledgement is verified: the session is installed and its       *)
(* waiters go on, or clear() was called meanwhile and they fail.           *)
AckArrives(n) ==
    /\ Quiet
    /\ talk[n] = "ack"
    /\ \/ /\ Installs(n)
          /\ talk' = [talk EXCEPT ![n] = "over"]
          /\ negotiation' = IF negotiation = n THEN 0 ELSE negotiation
          /\ session' = n
          /\ callStage' = [r \in CRequest |-> IF r \in WakesWaiters(n) THEN "woken"
                                              ELSE callStage[r]]
          /\ UNCHANGED <<authenticationEpoch, talkEpoch, origin, tries, waitsFor,
                         attemptedSession, attemptedEpoch, outcome>>
       \/ /\ ~Installs(n)
          /\ NegotiationRejects(n, "overtaken")
    /\ UNCHANGED peerVars

-----------------------------------------------------------------------------
(***************************************************************************)
(* The daemon.                                                             *)
(***************************************************************************)

(* The daemon is replaced. *)
DaemonRestarts ==
    /\ Quiet
    /\ incarnation < MaxRestarts
    /\ incarnation' = incarnation + 1
    /\ UNCHANGED <<session, authenticationEpoch, talkVars, callVars, expiredSessions, drops>>

(* A session reaches its expiresAt, on both sides. *)
SessionExpires(n) ==
    /\ Quiet
    /\ talk[n] \in {"ack", "over"} /\ n \notin expiredSessions
    /\ Cardinality(expiredSessions) < MaxExpiries
    /\ expiredSessions' = expiredSessions \cup {n}
    /\ UNCHANGED <<session, authenticationEpoch, talkVars, callVars, incarnation, drops>>

CallProgress(r) ==
    SendSigned(r) \/ DaemonAuthenticates(r) \/ AnswerArrives(r) \/ RefusalArrives(r)

TalkProgress(n) == ChallengeComes(n) \/ ProofAccepted(n) \/ ProofRefused(n) \/ AckArrives(n)

CallerNext ==
    \/ \E r \in CRequest : CallRequest(r) \/ CallProgress(r) \/ CallAborted(r)
    \/ \E n \in Negotiation : TalkProgress(n) \/ NegotiationDrops(n) \/ SessionExpires(n)
    \/ DaemonRestarts

CallerSpec == CallerInit /\ [][CallerNext]_callerVars

(* Fairness: every fetch is answered and every continuation runs. *)
CallerFairSpec ==
    /\ CallerSpec
    /\ \A r \in CRequest : WF_callerVars(CallProgress(r))
    /\ \A n \in Negotiation : WF_callerVars(TalkProgress(n))

-----------------------------------------------------------------------------
(***************************************************************************)
(* Properties.                                                             *)
(***************************************************************************)

(* A negotiation that was overtaken never puts an older session in place   *)
(* of a newer one, or back in the place of one that was cleared            *)
(* (negotiate()'s epoch check).                                            *)
SessionAdvances ==
    [][session' # session /\ session' # NoSession =>
          /\ session' > session
          /\ \A n \in Negotiation : n > session' => talkEpoch[n] = authenticationEpoch
                                                    \/ talk[n] = "unused"]_callerVars

(* One retry is enough, and recovery is shared: a request is refused for   *)
(* good only if sessions were invalidated twice, and a delayed 401 of one  *)
(* request makes the negotiation another one waits for fail only if a      *)
(* session had expired by then.                                            *)
RecoveryShared ==
    \A r \in CRequest :
        /\ outcome[r] = "refused" => incarnation + Cardinality(expiredSessions) >= 2
        /\ outcome[r] = "overtaken" => expiredSessions # {}

(* Every request ends, also when the negotiation it awaits was overtaken   *)
(* or belongs to requests that were aborted.                               *)
RequestsSettle == []<>(\A r \in CRequest : callStage[r] \in {"idle", "ended"})

(* Recovery is shared and makes progress: the installed session never goes *)
(* back to an overtaken one and every request ends.                        *)
CallsRecover == []RecoveryShared /\ SessionAdvances /\ RequestsSettle
===============================================================================

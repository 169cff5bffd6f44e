--------------------------- MODULE WatchController ---------------------------
(***************************************************************************)
(* The refresh coordinator of watch mode, createWatchController in         *)
(* packages/hunk/src/core/watch/controller.ts, with the observer           *)
(* (observer.ts) that feeds it.                                            *)
(*                                                                         *)
(* Filesystem hints, one chained timeout and periodic safety checks lead   *)
(* to signature checks; a check whose signature differs from the applied   *)
(* one reloads the review.  Deadlines are kept as the ticks left to them.  *)
(* The watched input is a version number; a signature names a version, and *)
(* both the signature and the reload read some version that was on disk    *)
(* while they ran.  Error reports are not represented.                     *)
(***************************************************************************)
EXTENDS Integers

CONSTANTS
    Targets,            \* how many targets the watch plan has
    MaxEdits,           \* bound on the changes of the watched input
    SignatureOf(_),     \* the signature computed for a version
    quietDelay, maximumDelay, healthyCheck, degradedCheck, startupTimeout

ASSUME TargetsAssumption == Targets \in Nat \ {0}

ASSUME EditsAssumption == MaxEdits \in Nat

ASSUME DelaysAssumption ==
    /\ quietDelay \in Nat \ {0}
    /\ maximumDelay \in Nat \ {0}
    /\ healthyCheck \in Nat \ {0}
    /\ degradedCheck \in Nat \ {0}
    /\ startupTimeout \in Nat \ {0}

VARIABLES
    phase,              \* state.phase, from "idle" on
    dirty,              \* state.dirty
    degraded,           \* state.degraded
    applied,            \* the version state.appliedSignature was read from
    sourceStatus,
    handle,             \* the observer: eventSource, or still being created
    remainingReady,     \* of the observer: targets not ready yet
    timer,              \* ticks left to the one timeout
    startupDeadline, quietDeadline, maximumDeadline, safetyDeadline,
    signatures,         \* getSignature promises outstanding
    refreshes,          \* refresh promises outstanding
    since,              \* the version on disk when that promise was made
    candidate,          \* the version the check in progress has read
    disk,               \* the version of the watched input
    shown,              \* the version the review shows
    hintAge             \* history: on-time ticks an unserved hint has waited

watchVars == <<dirty, degraded, applied>>
sourceVars == <<sourceStatus, handle, remainingReady>>
delayVars == <<quietDeadline, maximumDeadline, safetyDeadline>>
promiseVars == <<signatures, refreshes, since, candidate>>
inputVars == <<disk, shown>>
vars == <<phase, watchVars, sourceVars, timer, startupDeadline, delayVars,
          promiseVars, inputVars, hintAge>>

(* The deadline that is not set: later than every deadline that is. *)
Never == quietDelay + maximumDelay + healthyCheck + degradedCheck + startupTimeout + 1
NoSignature == -1
NoHint == -1
LongestWait == maximumDelay + degradedCheck

Lesser(a, b) == IF a <= b THEN a ELSE b

(* The phases in which a check runs and hints only set the dirty flag. *)
InFlight == {"checking", "refreshing"}

Earliest(startup, quiet, maximum, safety) ==
    Lesser(Lesser(startup, quiet), Lesser(maximum, safety))

(* schedule(): the last call of most handlers.  Only the earliest deadline *)
(* gets the timeout, and none does while a check runs.                     *)
Schedule ==
    LET deadline == Earliest(startupDeadline', quietDeadline', maximumDeadline', safetyDeadline')
    IN  timer' = IF phase' \in InFlight \cup {"closed"} \/ deadline = Never
                 THEN timer ELSE deadline

(* safetyInterval(). *)
SafetyInterval == IF degraded THEN degradedCheck ELSE healthyCheck

(* closeEventSource(): an observer that is still being created is closed   *)
(* when its creation returns.                                              *)
CloseEventSource ==
    IF sourceStatus \in {"starting", "ready"}
    THEN /\ sourceStatus' = "closed"
         /\ startupDeadline' = Never
         /\ handle' = IF handle = "held" THEN "released" ELSE handle
    ELSE UNCHANGED <<sourceStatus, startupDeadline, handle>>

(* beginCheck() up to its first await: no deadline but the startup one     *)
(* survives, and a signature is asked for.  The callers have made sure     *)
(* that no check runs; "outstanding" promises are left of earlier ones.    *)
BeginCheck(outstanding) ==
    /\ phase' = "checking"
    /\ timer' = Never
    /\ quietDeadline' = Never
    /\ maximumDeadline' = Never
    /\ safetyDeadline' = Never
    /\ signatures' = outstanding + 1
    /\ since' = disk
    /\ hintAge' = NoHint

(* finishCheck(): all hints of the check just done are one trailing check. *)
FinishCheck(outstanding) ==
    IF dirty
    THEN dirty' = FALSE /\ BeginCheck(outstanding) /\ UNCHANGED startupDeadline
    ELSE /\ phase' = "idle"
         /\ signatures' = outstanding
         /\ safetyDeadline' = SafetyInterval
         /\ UNCHANGED <<dirty, startupDeadline, quietDeadline, maximumDeadline, since, hintAge>>
         /\ Schedule

-----------------------------------------------------------------------------
(***************************************************************************)
(* Creation.  The review was loaded after its baseline was read, or has no *)
(* baseline.  A plan without coverage polls; otherwise the observer is     *)
(* created, which may call back before it returns, or throw.               *)
(***************************************************************************)
Init ==
    /\ phase = "idle"
    /\ dirty = FALSE
    /\ disk \in 0..MaxEdits
    /\ shown \in 0..disk
    /\ applied \in {NoSignature} \cup 0..shown
    /\ degraded \in BOOLEAN
    /\ sourceStatus = IF degraded THEN "none" ELSE "starting"
    /\ handle = IF degraded THEN "absent" ELSE "creating"
    /\ remainingReady = Targets
    /\ startupDeadline = IF degraded THEN Never ELSE startupTimeout
    /\ quietDeadline = Never
    /\ maximumDeadline = Never
    /\ safetyDeadline = IF degraded THEN degradedCheck ELSE healthyCheck
    /\ timer = Lesser(startupDeadline, safetyDeadline)
    /\ signatures = 0
    /\ refreshes = 0
    /\ since = disk
    /\ candidate = NoSignature
    /\ hintAge = NoHint

CreateReturns_Unchecked ==
    /\ handle = "creating"
    /\ handle' = "held"
    /\ UNCHANGED <<phase, watchVars, sourceStatus, remainingReady, startupDeadline,
                   delayVars, promiseVars, inputVars, hintAge>>
    /\ Schedule

(* createEventSource returns; a source closed meanwhile is closed now. *)
CreateReturns ==
    /\ handle = "creating"
    /\ handle' = IF sourceStatus = "closed" THEN "released" ELSE "held"
    /\ UNCHANGED <<phase, watchVars, sourceStatus, remainingReady, startupDeadline,
                   delayVars, promiseVars, inputVars, hintAge>>
    /\ Schedule

CreateThrows ==
    /\ handle = "creating"
    /\ handle' = "absent"
    /\ sourceStatus' = "closed"
    /\ startupDeadline' = Never
    /\ degraded' = TRUE
    /\ safetyDeadline' = degradedCheck
    /\ UNCHANGED <<phase, dirty, applied, remainingReady, quietDeadline, maximumDeadline,
                   promiseVars, inputVars, hintAge>>
    /\ Schedule

(* Timeouts, promises and close() come after the synchronous creation. *)
Created == handle # "creating"

-----------------------------------------------------------------------------
(***************************************************************************)
(* Callbacks of the observer.                                              *)
(***************************************************************************)

(* The observer is open, so its callbacks go through. *)
Observing == handle \in {"creating", "held"}

MaximumFrom_Latest(deadline) == maximumDelay

(* maximumDeadline ??= now + maximumDelayMs *)
MaximumFrom(deadline) == IF deadline = Never THEN maximumDelay ELSE deadline

(* onEvent(): a hint, from a source that is starting or ready. *)
OnEvent ==
    /\ Observing
    /\ phase # "closed"
    /\ sourceStatus \in {"starting", "ready"}
    /\ hintAge' = IF hintAge = NoHint THEN 0 ELSE hintAge
    /\ UNCHANGED <<degraded, applied, sourceVars, startupDeadline, promiseVars, inputVars>>
    /\ \/ /\ phase \in InFlight
          /\ dirty' = TRUE
          /\ UNCHANGED <<phase, timer, delayVars>>
       \/ /\ phase \notin InFlight
          /\ phase' = "debouncing"
          /\ quietDeadline' = quietDelay
          /\ maximumDeadline' = MaximumFrom(maximumDeadline)
          /\ UNCHANGED <<dirty, safetyDeadline>>
          /\ Schedule

(* onSourceReady(), the last target of markReady(): the check that closes  *)
(* the race between the scan and the first hints.  The progress report     *)
(* markReady() makes first only moves the deadline that is cleared here.   *)
OnSourceReady ==
    /\ Observing
    /\ phase # "closed"
    /\ sourceStatus = "starting"
    /\ remainingReady = 1
    /\ remainingReady' = 0
    /\ sourceStatus' = "ready"
    /\ startupDeadline' = Never
    /\ IF phase \in InFlight
       THEN dirty' = TRUE /\ UNCHANGED <<phase, timer, delayVars, signatures, since, hintAge>>
       ELSE BeginCheck(signatures) /\ UNCHANGED dirty
    /\ UNCHANGED <<degraded, applied, handle, refreshes, candidate, inputVars>>

(* onSourceProgress(): directories registered, or a target that is ready   *)
(* while others are not.                                                   *)
OnSourceProgress ==
    /\ Observing
    /\ phase # "closed"
    /\ sourceStatus = "starting"
    /\ remainingReady' \in {n \in {remainingReady, remainingReady - 1} : n > 0}
    /\ startupDeadline' = startupTimeout
    /\ UNCHANGED <<phase, watchVars, sourceStatus, handle, delayVars, promiseVars,
                   inputVars, hintAge>>
    /\ Schedule

(* onSourceError() for exhausted watcher resources, ENOSPC or EMFILE; the  *)
(* other errors are only reported.                                         *)
OnSourceError ==
    /\ Observing
    /\ phase # "closed"
    /\ sourceStatus # "closed"
    /\ degraded' = TRUE
    /\ CloseEventSource
    /\ safetyDeadline' = Lesser(safetyDeadline, degradedCheck)
    /\ UNCHANGED <<phase, dirty, applied, remainingReady, quietDeadline, maximumDeadline,
                   promiseVars, inputVars, hintAge>>
    /\ Schedule

-----------------------------------------------------------------------------
(***************************************************************************)
(* The timeout and the promises of a check.                                *)
(***************************************************************************)

DegradeStalledSource_KeepsSource ==
    /\ degraded' = TRUE
    /\ phase' = "idle"
    /\ quietDeadline' = Never
    /\ maximumDeadline' = Never
    /\ safetyDeadline' = degradedCheck
    /\ UNCHANGED <<sourceStatus, startupDeadline, handle, signatures, since, hintAge>>
    /\ Schedule

(* degradeStalledSource(): a hint that was being debounced is left to the  *)
(* safety check.                                                           *)
DegradeStalledSource ==
    /\ sourceStatus = "starting"
    /\ CloseEventSource
    /\ degraded' = TRUE
    /\ phase' = "idle"
    /\ quietDeadline' = Never
    /\ maximumDeadline' = Never
    /\ safetyDeadline' = degradedCheck
    /\ UNCHANGED <<signatures, since, hintAge>>
    /\ Schedule

OnTimer_TrustsSource ==
    /\ Created
    /\ timer = 0
    /\ \/ startupDeadline = 0 /\ DegradeStalledSource
       \/ /\ startupDeadline # 0
          /\ 0 \in {quietDeadline, maximumDeadline} \/ degraded
          /\ BeginCheck(signatures)
          /\ UNCHANGED <<degraded, sourceStatus, handle, startupDeadline>>
       \/ /\ startupDeadline # 0
          /\ 0 \notin {quietDeadline, maximumDeadline} /\ ~degraded
          /\ safetyDeadline' = SafetyInterval
          /\ UNCHANGED <<phase, degraded, sourceStatus, handle, startupDeadline, quietDeadline,
                         maximumDeadline, signatures, since, hintAge>>
          /\ Schedule
    /\ UNCHANGED <<dirty, applied, remainingReady, refreshes, candidate, inputVars>>

(* onTimer(): the startup deadline goes before a check that is due. *)
OnTimer ==
    /\ Created
    /\ timer = 0
    /\ \/ startupDeadline = 0 /\ DegradeStalledSource
       \/ /\ startupDeadline # 0
          /\ 0 \in {quietDeadline, maximumDeadline, safetyDeadline}
          /\ BeginCheck(signatures)
          /\ UNCHANGED <<degraded, sourceStatus, handle, startupDeadline>>
    /\ UNCHANGED <<dirty, applied, remainingReady, refreshes, candidate, inputVars>>

(* getSignature resolves with version v.  A closed controller ignores it;  *)
(* the applied signature ends the check; another one starts a refresh.     *)
SignatureResolves(v) ==
    /\ Created
    /\ signatures > 0
    /\ v \in since..disk
    /\ \/ /\ phase = "closed"
          /\ signatures' = signatures - 1
          /\ UNCHANGED <<phase, dirty, timer, startupDeadline, delayVars, refreshes,
                         since, candidate, hintAge>>
       \/ /\ phase # "closed"
          /\ applied # NoSignature /\ SignatureOf(v) = SignatureOf(applied)
          /\ FinishCheck(signatures - 1)
          /\ UNCHANGED <<refreshes, candidate>>
       \/ /\ phase # "closed"
          /\ applied = NoSignature \/ SignatureOf(v) # SignatureOf(applied)
          /\ phase' = "refreshing"
          /\ signatures' = signatures - 1
          /\ refreshes' = refreshes + 1
          /\ since' = disk
          /\ candidate' = v
          /\ UNCHANGED <<dirty, timer, startupDeadline, delayVars, hintAge>>
    /\ UNCHANGED <<degraded, applied, sourceVars, inputVars>>

SignatureFails ==
    /\ Created
    /\ signatures > 0
    /\ \/ /\ phase = "closed"
          /\ signatures' = signatures - 1
          /\ UNCHANGED <<phase, dirty, timer, startupDeadline, delayVars, since, hintAge>>
       \/ phase # "closed" /\ FinishCheck(signatures - 1)
    /\ UNCHANGED <<degraded, applied, sourceVars, refreshes, candidate, inputVars>>

(* refresh resolves: the review shows version v, read since it started.    *)
(* What is recorded is the signature the check read before.                *)
RefreshResolves(v) ==
    /\ Created
    /\ refreshes > 0
    /\ v \in since..disk
    /\ refreshes' = refreshes - 1
    /\ shown' = v
    /\ \/ /\ phase = "closed"
          /\ UNCHANGED <<phase, dirty, applied, timer, startupDeadline, delayVars,
                         signatures, since, hintAge>>
       \/ /\ phase # "closed"
          /\ applied' = candidate
          /\ FinishCheck(signatures)
    /\ UNCHANGED <<degraded, sourceVars, candidate, disk>>

RefreshFails_Applies ==
    /\ Created
    /\ refreshes > 0
    /\ refreshes' = refreshes - 1
    /\ \/ /\ phase = "closed"
          /\ UNCHANGED <<phase, dirty, applied, timer, startupDeadline, delayVars,
                         signatures, since, hintAge>>
       \/ phase # "closed" /\ applied' = candidate /\ FinishCheck(signatures)
    /\ UNCHANGED <<degraded, sourceVars, candidate, inputVars>>

(* refresh rejects: the review and its baseline stay as they were. *)
RefreshFails ==
    /\ Created
    /\ refreshes > 0
    /\ refreshes' = refreshes - 1
    /\ \/ /\ phase = "closed"
          /\ UNCHANGED <<phase, dirty, timer, startupDeadline, delayVars, signatures,
                         since, hintAge>>
       \/ phase # "closed" /\ FinishCheck(signatures)
    /\ UNCHANGED <<degraded, applied, sourceVars, candidate, inputVars>>

(* close() *)
Close ==
    /\ Created
    /\ phase # "closed"
    /\ phase' = "closed"
    /\ dirty' = FALSE
    /\ quietDeadline' = Never
    /\ maximumDeadline' = Never
    /\ safetyDeadline' = Never
    /\ timer' = Never
    /\ CloseEventSource
    /\ UNCHANGED <<degraded, applied, remainingReady, promiseVars, inputVars, hintAge>>

-----------------------------------------------------------------------------
(***************************************************************************)
(* The environment: the watched input changes, time passes.                *)
(***************************************************************************)
Edit ==
    /\ disk < MaxEdits
    /\ disk' = disk + 1
    /\ UNCHANGED <<phase, watchVars, sourceVars, timer, startupDeadline, delayVars,
                   promiseVars, shown, hintAge>>

(* A tick passes; a deadline that has passed stays due. *)
Elapse(deadline) == IF deadline \in {0, Never} THEN deadline ELSE deadline - 1

Tick ==
    /\ timer' = Elapse(timer)
    /\ startupDeadline' = Elapse(startupDeadline)
    /\ quietDeadline' = Elapse(quietDeadline)
    /\ maximumDeadline' = Elapse(maximumDeadline)
    /\ safetyDeadline' = Elapse(safetyDeadline)
    /\ hintAge' = IF hintAge # NoHint /\ phase \in {"idle", "debouncing"} /\ timer > 0
                  THEN hintAge + 1 ELSE hintAge
    /\ UNCHANGED <<phase, watchVars, sourceVars, promiseVars, inputVars>>

Next ==
    \/ CreateReturns \/ CreateThrows
    \/ OnEvent \/ OnSourceReady \/ OnSourceProgress \/ OnSourceError
    \/ OnTimer
    \/ \E v \in 0..MaxEdits : SignatureResolves(v) \/ RefreshResolves(v)
    \/ SignatureFails \/ RefreshFails
    \/ Close
    \/ Edit \/ Tick

Spec == Init /\ [][Next]_vars

(***************************************************************************)
(* Fairness.  Creation returns, time passes and the timeout fires; a       *)
(* signature or a reload that is tried again and again succeeds at last.   *)
(***************************************************************************)
FairSpec ==
    /\ Spec
    /\ WF_vars(CreateReturns \/ CreateThrows)
    /\ WF_vars(Tick)
    /\ WF_vars(OnTimer)
    /\ SF_vars(\E v \in 0..MaxEdits : SignatureResolves(v))
    /\ SF_vars(\E v \in 0..MaxEdits : RefreshResolves(v))

-----------------------------------------------------------------------------
(***************************************************************************)
(* Properties.                                                             *)
(***************************************************************************)

(* The type invariant. *)
TypeOK ==
    /\ phase \in {"idle", "debouncing", "checking", "refreshing", "closed"}
    /\ dirty \in BOOLEAN
    /\ degraded \in BOOLEAN
    /\ applied \in 0..MaxEdits \cup {NoSignature}
    /\ sourceStatus \in {"none", "starting", "ready", "closed"}
    /\ handle \in {"absent", "creating", "held", "released"}
    /\ remainingReady \in 0..Targets
    /\ timer \in 0..Never
    /\ startupDeadline \in 0..Never
    /\ quietDeadline \in 0..Never
    /\ maximumDeadline \in 0..Never
    /\ safetyDeadline \in 0..Never
    /\ signatures \in Nat
    /\ refreshes \in Nat
    /\ since \in 0..MaxEdits
    /\ candidate \in 0..MaxEdits \cup {NoSignature}
    /\ disk \in 0..MaxEdits
    /\ shown \in 0..MaxEdits
    /\ hintAge \in Nat \cup {NoHint}

(* No wake-up is lost: whenever no check runs, the timeout is set for the  *)
(* earliest deadline and there is one; a running check and a closed        *)
(* controller hold no timeout (schedule, clearTimer).                      *)
TimerArmed ==
    IF phase \in {"idle", "debouncing"}
    THEN /\ timer = Earliest(startupDeadline, quietDeadline, maximumDeadline, safetyDeadline)
         /\ timer < Never
    ELSE timer = Never

(* Checks are serialized: hints, readiness and timeouts never start a      *)
(* second one while a signature or a reload is awaited (beginCheck).       *)
Serialized ==
    /\ signatures + refreshes <= 1
    /\ phase = "checking" <=> signatures = 1 /\ phase # "closed"
    /\ phase = "refreshing" <=> refreshes = 1 /\ phase # "closed"

(* An observer the controller is done with is released, even when it       *)
(* failed or was closed before its creation returned (closeEventSource).   *)
SourceReleased == handle = "held" <=> Created /\ sourceStatus \in {"starting", "ready"}

(* The applied signature is never ahead of what the review shows, so a     *)
(* change cannot hide behind it: whatever lands while the signature or the *)
(* reload is awaited, or fails, differs at the next check (beginCheck).    *)
ShownCoversApplied == applied <= shown

(* No hint is dropped: one that arrives during a check is in the dirty     *)
(* flag; a debounced one is checked within the maximum delay however many  *)
(* follow it; and one dropped with a stalled source waits for the degraded *)
(* check at most (onEvent, degradeStalledSource).                          *)
HintsServed ==
    hintAge # NoHint =>
        /\ phase \in {"checking", "refreshing"} => dirty
        /\ phase = "debouncing" => hintAge + timer <= maximumDelay
        /\ phase = "idle" => hintAge + timer <= LongestWait

(* What keeps the controller going: no wake-up is lost, checks follow one  *)
(* another, and no hint is dropped or kept waiting.                        *)
ChecksSound == TimerArmed /\ Serialized /\ HintsServed

(* Once the input stops changing, the review catches up with it, whatever  *)
(* hints are missed and however the observer fares.                        *)
CatchesUp == <>[](phase = "closed" \/ SignatureOf(shown) = SignatureOf(disk))

(* A source that neither becomes ready nor reports progress is given up.   *)
StalledSourceDegrades ==
    <>[][~OnSourceProgress]_vars /\ <>[][~OnEvent]_vars => <>(sourceStatus # "starting")
=============================================================================

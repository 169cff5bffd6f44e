# Hunk: a TLA+ verification project

Hunk is an interactive terminal diff viewer.  Every running window can publish
its review session to a local daemon, the *session broker*, so that command
line callers and agents can inspect and steer it.  The broker, the producer
connection to it, the daemon launcher, the watch mode of the viewer and its
highlight worker are where Hunk is concurrent, and that is what this project
models.

## 1. The system's parts

| Part | Source | State | Operations | What makes it hard |
|---|---|---|---|---|
| Broker state | `packages/session-broker-core/src/{brokerState,budgets}.ts` | sessions, owner maps, pending commands, per-session FIFOs, four budgets | register, snapshot, heartbeat, unregister, prune, dispatch, result, timeout, shutdown | takeovers against commands in flight, exact accounting on every exit path, suspended hosts |
| Broker daemon | `packages/session-broker/src/{daemon,broker}.ts` | authentication per connection, producer owners, reconnect bindings, idle timer | hello, messages, close, sweep, health, idle stop, admin stop, HTTP controls | two-step asynchronous hello, displaced transports, revoked grants, quiescent shutdown |
| Hello and request authentication | `packages/session-broker/src/authentication.ts`, `session-broker-core/src/auth.ts` | challenges, caller sessions, sequence numbers, clear epoch | issue, complete, authenticate, sign, clear | single-use challenges across awaits, replay windows, budgets |
| Signing caller | `packages/session-broker/src/clientAuthentication.ts` | one caller session, its epoch, a shared negotiation | request, negotiate, retry after a 401, abort | refusals and negotiations that arrive when their session was replaced |
| Producer connection | `packages/session-broker/src/connection.ts` | socket generation, handshake phase, timers, queued commands | connect, hello, register, heartbeat, command, close, stop | late events of dead sockets, reconnects racing stop |
| Runtime adapters | `packages/session-broker-{bun,node}/src/serve.ts` | admissions, outbound reservations | upgrade, message, drain, close, stop | back-pressure, handshake deadline, orderly stop |
| Credentials | `packages/hunk/src/session/broker/credentials.ts` | one key file per role, temporary files | load, generate, link | several processes at their first use, killed between two system calls |
| Daemon launcher | `packages/hunk/src/session/broker/brokerLauncher.ts` | lock file, metadata file, child process | lock, probe, spawn, wait, clean up | several windows launching at once, stale locks |
| Producer client | `packages/hunk/src/session/broker/brokerClient.ts` | startup state, retry timer | start, retry, upgrade wait, stop | start racing stop, incompatible incumbents |
| Hunk broker state | `packages/hunk/src/session/broker/{state,reviewMirror,reviewResourceCache}.ts` | mirrors of review state, resource cache | reconcile, fetch, evict | caches following sessions that come and go |
| Browser review | `packages/hunk/src/session/broker/browserReviewServer.ts` | capabilities, event streams | open, stream, close | streams outliving their session |
| Watch mode | `packages/hunk/src/core/watch/{controller,observer}.ts` | phase, dirty flag, deadlines, observer generation | event, check, refresh, degrade, close | one check at a time, no lost change |
| Portable tree | `packages/hunk/src/core/watch/portableTree.ts` | known and queued directories, batches and their watchers | enqueue, drain, invalidate, close | a file system that changes while a batch is scanned and listed |
| Review model | `packages/hunk/src/core/review/*` | selection, filters, comments, reload generation | intents, navigation, reload | generations applied out of order |
| Highlight worker | `packages/hunk/src/ui/diff/worker/*` | jobs in flight, cache | request, answer, cancel, restart | late answers of a replaced worker |
| User interface | `packages/hunk/src/{app,ui}` | rendering state | key handling, layout | rendering, not protocols |
| VCS adapters | `packages/hunk-{vcs,git,jj,sapling,gh}` | none of their own | run a command, parse its output | subprocess I/O |
| Extensions | `packages/hunk/src/extensions` | loaded extensions | load, call, reload | third-party code |
| Term video, website, workers, scripts | `packages/term-video`, `website`, `workers`, `scripts` | build and release tooling | - | - |

How they interact.  A window's producer client asks the launcher for a
daemon, opens a producer connection to it and registers its session.  The
daemon checks the hello with the authenticator and hands the messages to the
broker state; a runtime adapter turns WebSocket events into the daemon's
calls.  Callers reach the broker state through authenticated HTTP controls of
the daemon; a dispatched command travels through the broker state's FIFO to
the producer connection and its answer back.  All of it runs on JavaScript
event loops: a handler is atomic up to its next `await`, callback or timer,
and that is the grain of the actions here.

`PROJECT.json` lists the hazards found in this code, each at its line.

## 2. Modules

* `Reservations` says what a `ResourceBudget` should have reserved.
* `BrokerState` is the broker state.  Each public method is one action; each
  variable is named after the field it stands for.  Registrations, snapshots
  and commands are reduced to the sizes the budgets see; instants are kept as
  saturating ages (`silence`, `sincePrune`).  `advanceSessionQueue` and
  `finishPending` call each other: `FinishPending` is their closed form, in
  which some prefix of the queue is refused by the transport and the command
  behind it is written.  A producer's result may name every request that was
  ever written to some socket (`Disclosed`; ids are random), so that it is the
  owner check of `HandleCommandResult` that refuses it.  `answeredBy` is a
  history variable: no guard reads it, `ResolvedByOwner` does.
* `CommandService` is what the broker state promises, without its maps,
  budgets and timers: who owns a session, the commands that wait there in
  order, and one answer to each.  `BrokerState` instantiates it as `Service`;
  the refinement mapping takes its owners from `sessions`, its queues from
  `commandQueues` and its answers from `outcome`, and the property
  `ImplementsService` is the abstract specification.
* `BrokerDaemon` extends `BrokerState` with the daemon.  Each of its actions
  is a daemon handler and contains the broker-state action that handler
  calls.  A hello step awaited on a connection is a value of `awaited`; it
  becomes `outdated` when the connection's authentication state is replaced,
  which is what the code's identity comparison after each `await` tests.
  A command for an owner whose grant ended is not written and closes the
  owner's connection, whichever handler advanced the queue (`SendsGranted`).
* `HelloAuthentication` is the authenticator the daemon asks: challenges,
  proofs, caller sessions, signed requests and their responses.  One action
  is the code between two awaits; cryptography is a verdict, and an awaited
  step carries the clear epoch it started in.  The replay window is the
  bitmap of the code, with its width as a constant.
* `BrokerConnection` is the producer's end.  A socket is a *generation*, as in
  the code; every callback, authentication step and bridge answer carries the
  generation it was made for, and the guards are the code's checks that it
  still has authority.  Generations are reused once nothing refers to them, so
  a run of two or three of them has no bound on the number of reconnects.
* `ProducerClient` is the window's client around that connection: startup
  attempts and their retry, refusals by a daemon, the waits for another daemon
  or another session, probes and the notice the window shows.  Daemons come
  and go in it; the connection is the phases in which it calls the client.
* `CallerClient` is the caller's side of signed requests: concurrent requests
  over one session, the shared negotiation and the authentication epoch, with
  a daemon that may be restarted.
* `ReviewService` is what the daemon adds for browsers and agents: the mirror
  ordered by generation, single-flight loads assembled from chunks, the cache
  and its two byte budgets, and the event streams.  The broker core below it
  is a set of live sessions; producers may publish and answer anything.
* `ServerAdapter` is the two runtime adapters below the daemon: admissions and
  the handshake's deadline, what peers and buffered responses keep in memory,
  and the stop of the port.  They differ in how a write is charged (Bun: one
  reservation per peer, set to what is buffered; Node: one per write), in what
  outlives a request's handler and in what the stop waits for, and are one
  module.  The native servers buffer, flush and close at will, and what a
  socket buffers is more than the messages: `unflushed` are the message bytes
  in it, `framing` the frame headers and control frames, which only Bun's
  charges include and only as far as there is room for them.
* `CredentialStore` is the credential files.  Processes meet in the file system
  only, so the grain is the system call; a key is the process that made it.
* `WatchController` is the refresh coordinator of watch mode with the observer
  that feeds it.  The four deadlines and the one chained timeout are kept as
  the ticks left to them; the watched input is a version number, and a
  signature or a reload reads some version that was on disk while it ran.
* `PortableTree` is the observer that watches a tree in batches, over a file
  system of directories with inodes that are removed and made again.
* `HighlightWorker` is the highlight client's queue and the worker with its
  bounded cache; replies are messages that may arrive late.
* `DaemonLauncher` is the launch lock with the two programs that take it, a
  window's `ensureSessionBrokerAvailable` and `hunk daemon restart`.  These
  are processes of the operating system, so the grain is the system call:
  creating the lock file, writing it, reading it and removing it are separate
  actions, and a process may be killed between any two.
* The `MC` modules give the constants small values.  `MCHelloAuthentication`,
  `MCReviewService`, `MCClients` and `MCWatch` put modules side by side that share no variable:
  a behaviour chooses one of them in its initial state (`part`) and only that
  one moves, so each is explored completely and none is multiplied by another.
  `MCDaemonIdle` gives a behaviour a second connection, a command or hello
  steps that overlap on one connection, and `MCDaemonProducers` either two pipelined hello steps or a command;
  `MCReviewService` gives an adapter either traffic to its peers or two
  requests at a time.
* `Filtering` is the filter of a sequence that several modules use, as a
  recursive function.
* `DataLemmas` and the modules that end in `Proofs` hold the proofs (section 4).

## 3. Runs

| Run | Shows | Bounds |
|---|---|---|
| `broker_commands` | owners, budgets, FIFOs and outcomes are exact; a command is settled by a result only from the socket that owns its session; the broker state implements `CommandService` | 2 sessions, 2 sockets, 3 commands, two registration sizes, limits that bind |
| `broker_stale` | sweeps spare the living, remove the dead; commands settle | 2 sessions, 2 sockets (one without `isOpen`), 1 command, clock steps below and above the TTL |
| `daemon_producers` | daemon and broker state agree; retired transports are unbound; sessions pass only within one producer; bindings bounded | 2 sessions, 2 connections, 2 producers, 2 hello steps awaited at once, room for 1 session; or 1 producer and 1 command while the clock stands still |
| `daemon_idle` | a quiescent daemon stops where grants last and no proof is pipelined behind the accepted one; the timer never runs over live work; a revoked producer loses its session | 1 session, a grant that may end, and one of: 2 connections; 1 command; 1 connection with 2 hello steps awaited at once |
| `daemon_idle_revoked` | violated: see section 6 | 1 session, 2 connections, revocable grant |
| `hello_authentication` | reservations exact, nothing admitted twice, nothing survives `clear()`, no request under an ended session; no socket is forgotten, the heartbeat is the live one's, a lost socket is replaced, stop leaves nothing behind; every process loads the credential the file holds | 2 proofs and 2 requests in flight, 2 challenges, 2 sessions, sequence numbers to 3 with a window of 2; 3 overlapping sockets, 1 command; 3 processes, 1 killed |
| `review_service` | nothing of a retired generation is kept or told, byte counts exact, streams miss nothing and never go back, loads settle; at the server, charges are exact and cover the message bytes sockets hold until Bun's stop forsakes a socket, places are given back, a stop ends | 1 session, 2 producers, 2 resources, 2 loads, 1 stream, chunks of 1, sizes at and above the ceiling; 2 peers, 2 requests, 1 unauthenticated place, 1 byte of framing per socket, limits that bind |
| `clients` | connection: budgets exact, one command at the bridge, no answer to another socket's daemon, every command answered; window: sound retries and notices, it reconnects; caller: one retry suffices, recovery is shared, every request ends; highlighting: queue and cache exact, every request settles | 2 sockets, 2 commands; 2 daemons, 2 payloads, 3 refusals, 1 unexplained fault; 2 requests, 2 restarts, 1 expiry, 1 drop; 4 requests (one a preload, two sharing a key), 2 workers, a cache of 1 |
| `watch` | checks serialized and never without a timer, hints served in time, observer released, baseline never ahead of the review; a quiet input is shown, a silent source is given up; no directory of the tree is lost, scans end and are reported, closed trees hold no watcher | 2 targets, 2 edits, delays of 1 to 4 ticks; 4 directories on 3 levels, batches of 2, 5 watchers, 2 changes |
| `watch_undone` | violated: see section 6 | 1 target, 2 edits, patch signatures |
| `launch_lock` | no live process leaves its lock behind; one process at a time until one is killed; a daemon comes up again and again while a window lives | 2 windows, 1 restart, 2 daemons, 1 process killed |
| `launch_takeover` | violated: see section 6 | 3 windows, 1 killed |

Two sockets and two sessions are enough for a takeover, a rename and a rename
onto a live session; three commands with a limit of two, per session and in
total, fill one queue and the total budget; clock steps of one tick and of more than a TTL
give the ordinary sweep and the one after a suspend.  `MaxRequests` and
`MaxHellos` are the only bounds of the broker models that are not limits of
the code.  Three sequence numbers and a window of two let a number fall out of
the window; two proofs are the pair that race for one challenge.  Three
generations are a live socket, one that is closing and one being constructed.
Two producers, two loads and two resources give a takeover during a read, two
readers of one resource and an eviction.  Two daemons are an incumbent and its
replacement, three refusals one that is read, one that replaced it and one to
come.  Two peers and one place are one that holds it and one that is refused,
and limits of two bytes for one peer and three for both make either one
bind; one byte of framing is what lets a socket hold more than it is charged
and Bun's last resize fail.  Three loading processes are a winner, a loser and one that is killed.
Two restarts invalidate a session twice, which is once more than a
request retries.  The watch delays are distinct wherever the code compares
them, and two edits are one during a check and one during the reload it
leads to.  Four directories in batches of two need three batches, and two
changes remove a directory and make it again.  Three launching processes are
one that holds the lock and two that meet it.  `MaxCrashes`, `MaxEdits`,
`MaxChanges`, `MaxKills`, `MaxFaults`, `MaxRestarts`, `MaxExpiries`, `MaxDrops`,
`MaxSequence`, `MaxChallengeIds`, `MaxSessionIds` and `FrameBytes` bound what
the code does not.  The byte limit of the highlight cache does not bind in
`clients`, its limit of one entry does.

Deadlock is not checked where the system really may stop: in `launch_lock` and
`launch_takeover` once every window has been killed or has lost its
authority, in `watch` once the controller or the tree is closed, in
`review_service` after a shutdown, and in `clients` once all requests of a
behaviour are used and the client was stopped.

Fairness.  Timers fire, time passes and the sweep interval keeps firing, all
of which the event loop guarantees; `broker_stale` also needs the host not to
be suspended for more than a TTL before every single sweep.  `daemon_idle`
also assumes that a connection the daemon closed reports its close event.
Nothing is assumed of producers or callers: they may stay silent for ever.
`review_service` assumes that the read a load waits for is answered, which
the broker core enforces with its command timeout, that the handshake's
deadline fires, that a socket which was told to close reports it, and that the
handlers a stop finds come to their end, since the daemon was shut down first.
In `clients` a closing
socket reports its close, the socket factory returns or throws, and the
application's bridge settles each command it was given, which the connection
cannot enforce; the window's attempts, sockets and timers take their next
step; every fetch of the caller is answered or fails; and a worker ends every
job.  `watch` assumes that the timeout fires, that the observer's creation
returns or throws, that signatures and reloads which are started again and
again do not fail every time, and that the event loop goes on with the tree's
timers and promises and chokidar's scans.  `launch_lock` assumes that a living
process takes its next step, that a lock left alone grows old, and that a
started daemon binds or fails and a stopping one exits.

## 4. Proofs

Every safety invariant and action property of the passing runs is also a
theorem, for every value of the constants.  `DataLemmas` holds what the
proofs share; the seven other proof modules each cover the components that one
part of the system is made of.

| Module | Component | Main theorems | Invariant |
|---|---|---|---|
| `BrokerStateProofs` | broker state | `OwnershipSafe`, `BudgetsSafe`, `QueuesSafe`, `OrderSafe`, `ShutdownSafe`, `SettlesOnce`, `AnswersFromOwner`, `SweepsSpareTheSeen`, `ImplementsTheService` | `IInv` |
| `BrokerDaemonProofs` | daemon over the broker state | `DaemonSafe`, `IdleTimerSafe`, `TransfersBound`, `BrokerSafeUnderDaemon`, `CommandsSafeUnderDaemon`, `DaemonImplementsTheService` | `DaemonIInv` |
| `AuthenticationProofs` | authenticator; credential files | `AuthReservationsSafe`, `AdmissionsSafe`, `AuthorityChecked`; `CredentialsSafe` | `AuthIInv`; `CredentialIInv` |
| `ServerProofs` | review service; runtime adapters | `ReviewCurrent`, `ReviewBytesSafe`, `StreamsOnlyAdvance`; `AdapterBudgetsSafe` | `ReviewIInv`; `AdapterIInv` |
| `ClientProofs` | connection; window client; highlighter; signing caller | `SocketsSafe`, `CommandsSafe`; `WindowSafe`; `HighlightSafe`; `CallerRecovers`, `CallerAdvances` | `ConnectionIInv`; `ProducerIInv`; `HighlightIInv`; `CallerIInv` |
| `WatchProofs` | controller and observer; portable tree | `WatchChecksSound` and its parts; `TreeTracked` | `IInv`; `TreeIInv` |
| `DaemonLauncherProofs` | launch lock | `LockNeverLeaked`, `LaunchesAreSerialized` | `Owned`, `Untouched` |

**Assumptions.**  They are the named `ASSUME`s of the component modules, which
TLC evaluates on every run: placeholders such as `NoSession` are not members
of the sets they stand beside, limits are naturals, sets whose members are
counted are finite, and sizes are positive where the code adds a fixed
overhead.  `LimitsAssumption` takes the per-session limit to be below the
total, which `mergeSessionBrokerLimits` enforces.  The bounds that are not
limits of the code (`MaxRequests`, `MaxHellos`, `MaxEdits` and so on) are
arbitrary naturals in the theorems.

**Broker state.**  `IInv` is the conjunction of `TypeOK`, `OwnersAgree`, the
session half and the command half of the budgets, `QueuesSound`,
`SentInOrder`, `CommandHistory` and `ShutdownFinal`.  `CommandHistory` is the
strengthening: request ids are handed out in order, an outcome is `pending`
exactly for pending commands, a queued command that was not written is younger
than everything its socket received, and no socket at all received it, so that
no result can name it.  Without these parts `SentInOrder` is not inductive,
and an answer could not be shown to be for an active command.  That it comes
from the owner is the owner check with `QueuesSound`: the pending socket of an
active command owns its session.  The refinement of `CommandService` needs nothing further:
under `IInv` every step maps to one of the service's, or to none.  The proofs
about what a method does to the state are stated for the operations the
methods are made of, so that the daemon, which runs several of them in one
step, cites the same lemmas.

**Daemon.**  `DaemonIInv` is the broker state's `IInv`, the properties, and
three facts they rest on: only a connection in the middle of a hello has an
awaited step that may still take effect (`HelloSound`); the owner of a session
is bound to that session and no other, has left the stage of an offered
challenge for good, and is closed or being closed once it lost its
authentication (`OwnersBound`); and the daemon's shutdown flag is the
broker's (`ShutdownAgrees`).  Each daemon action contains a broker action, so
that `IInv` is re-established by the lemmas of `BrokerStateProofs`, also for a
sweep that removes several sessions.  By the same lemmas every daemon step is a
step of `CommandService` or none, so the service is implemented by the
composition and not only by the broker state on its own.

**Authenticator.**  `AuthIInv` has three parts that share no variable:
challenges (each is offered, being signed or being consumed by one proof, and
what is held is what is reserved), caller sessions (likewise), and the replay
window, for which the bitmap must be shown to hold exactly the admitted
numbers within its width.  `ChallengesAfterClear` and `SessionsAfterClear`
relate both to the last `clear()`, which is why a result that was awaited
across it is not published.  `AuthorityChecked` is an action property and
follows from the guards after each await together with the types.

**Credential files.**  `CredentialIInv` says whose temporary files exist and
what each stage of a loader has seen of the published file; a published file
is never replaced, so that what one loader read is what every loader reads.

**Review service.**  `ReviewIInv` relates the mirror, the cache, the loads and
the streams pairwise: nothing cached or reserved is of a retired generation,
the loads that hold a reservation are current and alone on their key, and a
stream shows its session's address.  `evictWhere` and `store` are filters of
sequences, whose sums `DataLemmas` bounds.

**Adapters.**  `AdapterIInv` says that charges add up to what is reserved and
cover the message bytes in each socket until Bun's stop drops them all; that a
peer without a socket holds no bytes; that the places taken are those of the
connected peers without trust; and that a transport or a Node server that has
stopped has no socket left, and one of Bun's no place.  `Leaves` names what a
callback may hand to `Leave`, so that one lemma shows every callback that may
complete the stop to be sound.  Framing is an arbitrary natural in the proof.
Both runtimes share it: what differs is which sequence of reservations a peer
holds.

**Producer connection.**  `ConnectionIInv` has a part about sockets and timers
(each timer belongs to the generation it was made for, a pending retry has a
timer or a promise behind it, a generation is not active before its socket
opened), one about the queue (the two budgets are exactly the queued commands
and the one at the bridge) and one about answers (what waits or runs was asked
for by the connection it will be answered to).

**Window client and highlighter.**  `ProducerIInv` adds to `WindowSound` which
refusal a pending retry, a probe and the notice are about.  `HighlightIInv`
says that a promise is pending exactly for the requests in line, each once,
and that each worker's cache, that of a replaced one included, is exact.

**Signing caller.**  `CallerIInv` orders the negotiations.  A session that is
not the current one has expired, or belongs to an earlier epoch and an earlier
daemon (`Superseded`), and later negotiations were started only for that
reason (`Succession`); a negotiation still running in the current epoch is the
latest one.  Hence a retry after a 401 uses a session that was made after an
invalidation (`Late`), and a second 401 proves a second one.  `StartPart`
counts the negotiations against the requests and retries, so that there is
always one left to start: the bound on `Negotiation` cuts no behaviour off.

**Watch mode.**  The controller's `IInv` adds to the properties `Versions`
(the baseline is not newer than the review, the review not newer than the
disk, and a reload in progress started no earlier than either), `Deadlines`
(the debounce deadlines are set exactly while hints are debounced, and a
safety check is due whenever no check runs), `Hints` (a hint not yet served is
remembered as dirty during a check, waits for the maximum deadline while
debounced, and is left to the safety check only by a source that was given up)
and `Creating` (a source being created was asked for).  Without `Deadlines`
and `Hints` nothing bounds the age of a hint.  The tree's `TreeIInv` accounts
for every known directory: it is queued once or owned by one watcher, and what
is queued has a timer or a drain that will take it.

**Launch lock.**  The strengthening of `LockReleased` is `Owned`, which says
where the process named by the lock file can be, and that of
`SerializedUnlessKilled` is `Untouched`, which says that a process inside
still finds its own file.  `launch_takeover` shows that the condition "until
the first kill" is needed.

**Shared lemmas.**  A budget is `Reserved(f, S)`, the sum of `f` over a finite
set, defined as a cardinality; `DataLemmas` proves how it changes when an
element is added, removed or changed, and when a set is split.  `Filtered` is
a recursive function on the length of a sequence; what it keeps, and what a
sequence weighs, is proved by least counterexample (the set of lengths at
which the claim fails has a least element), since the library's induction
rules take an operator as a parameter and the provers cannot instantiate it.

**Model-checked only.**  Liveness under fairness, which is beyond the prover:
`CommandsSettle`, `DeadSessionsRemoved`, `GrantedQuiescentStops`,
`RevokedRetired`, `CatchesUp`, `StalledSourceDegrades`, `TreeGoesOn`,
`ServiceComesUp`, `LoadsSettle`, `CommandsAnswered`, `WindowReconnects`,
`HighlightsSettle`, and the liveness halves of `ServerSound`
(`AdapterSettles`) and `CallsRecover` (`RequestsSettle`).  The safety halves of
the last two are `AdapterBudgetsSafe`, `CallerRecovers` and `CallerAdvances`.

## 5. What is left out, and the plan

Planned next: the connection composed with the daemon, to compare the
producer's view of a session with the daemon's.

Theorems planned: for the liveness properties, the invariants their arguments
rest on, such as that a pending command always has a timer and that a load
always has a read or a settled result.

Left out for good: rendering and layout, VCS subprocesses and the parsing of
their output, the contents of payloads, signatures and digests (an accepted
proof is a guard), extensions, and build or release tooling.

In `BrokerDaemon` the scopes of a producer's grant, the HTTP count and body
budgets and the signing of responses are not represented; a refusal for any
of these reasons is `MessageRefused`, or an `ApiRequest` without a dispatch.
In `BrokerConnection` application callbacks call back into the connection
only from the socket factory, and `close()` throws only in `stop()`; the second
throwing `close()` that `reportLifecycleDefect` swallows is left out.
`WatchController` has no rate limit of error reports and one kind of watcher.
`DaemonLauncher` leaves out the launch metadata, which is a hint, and the
SIGTERM sent to daemons that predate the admin scope.
`HelloAuthentication` leaves out the validation of credentials at startup and
the building of transcripts.  `ReviewService` takes a session's disappearance
from the broker core as a step of its own, and leaves out byte ranges and
routing.  `PortableTree` has no symbolic links and no file events.
`ServerAdapter` merges the upgrade with the open callback behind it and leaves
out the inbound reservation, which lives inside one synchronous call.  The
promise of Bun's own stop settles only when no socket is left; a runtime that
settled it earlier would forsake unauthenticated sockets as well.
`CredentialStore` takes permissions and the validation of a file as one
verdict.  `HighlightWorker` has no rendering: a result is its key and its size.

## 6. Findings

`daemon_idle_revoked`.  A sweep that finds the grant of a live session's
owner inactive removes the session (`daemon.ts:797`) but does not count it as
activity, and it deletes the authentication state the close handler would
need to count the close (`daemon.ts:771`).  If it was the last session, the
idle timer is never armed again and the daemon outlives its work until some
control request arrives.  `daemon.test.ts:1567` states the expectation that
the daemon "requests shutdown after the idle timeout when no sessions
remain".

`watch_undone`.  A check skips the reload when the signature equals the one
taken before the content was loaded (`controller.ts:215`).  Git signatures
are the patch text, so a change that is loaded and then undone before the
next check leaves the review on content that is gone, although
`loaders.ts:310` takes the baseline first "so watch mode can detect mutations
that race initial loading".

`launch_takeover`.  The lock of a dead process is read, judged and then
removed by name (`brokerLauncher.ts:244`).  Two windows that both judged it
remove it in turn, and the second removal hits the first one's new lock; both
then launch, although "the lock serializes who may spawn a daemon" (`:172`).
The loser's daemon fails to bind the port, so the damage is a wasted start.

Further observations, which no run of the project reports as a violation.  The state
that `daemon_idle_revoked` reaches is also reached with lasting grants when
two proofs are pipelined on one connection and the second fails after the
first was accepted and the session registered (`daemon.ts:592`): the catch clause
deletes the authentication of a registered connection.  `daemon_idle` explores
these behaviours, and the condition `NoLateHello` of `GrantedQuiescentStops`
excludes them; without it the property is violated.  A dirty
controller starts its trailing check at once (`controller.ts:185`) and does
not return to the timeout, so while a hint arrives during every check the
startup deadline of a source that never becomes ready is not consumed;
`StalledSourceDegrades` therefore speaks of sources that fall silent.  The
restart command reads the daemon's state before it takes the lock
(`daemonCommands.ts:256`) and takes any daemon that answers afterwards for its
own (`:313`), also one that a window spawned in between.
A close event that waits while the daemon is replaced, or the session is, is
put down to the new one (`brokerClient.ts:465` reads the launch metadata and
the payload when the event arrives); the window then waits for a replacement
of a daemon that would accept it, although `brokerClient.test.ts:661` expects
a reconnect.  `WindowReconnects` excludes exactly this with `Mistaken`.  In the
signing caller a delayed 401 of a session that had expired locally clears the
epoch under the negotiation that replaced it, and the request waiting for that
one fails; `RecoveryShared` excludes it by its condition on `expiredSessions`.
A process at its first use asks the file system twice whether a credential
file is there (`credentials.ts:312` and `:316`).  If another process links its
own in between, the first answer is "missing" and the second "exists", and the
process reports the file as unsafe or malformed, although it is neither and
`credentials.test.ts:49` expects every concurrent first use to adopt "one
complete winner".  The next attempt loads the file, which is what
`CredentialsAgree` states of failures.  Bun's adapter counts a peer among
`activeAdmissions` only until it is authenticated, so a stop may be complete,
and the reservations of authenticated peers dropped, before their close
callbacks, although `session-broker-bun/src/serve.ts:100` takes an empty set
for the proof that "no socket can deliver another message" and `:355` says that
"reservations stay live through each close callback".  `AdapterBudgetsExact`
names these sockets (`Forsaken`) and excludes them from the coverage of what
is buffered.  What the native socket reports as buffered includes frame
headers.  Node's reservations do not (`session-broker-node/src/serve.ts:61`),
and under Bun the resize after a successful write (`:151`) may find no room
for them; it then throws out of `send()` although the message is on its way,
and the earlier reservation stays until a drain or the close.  Either way a
socket may buffer somewhat more than it is charged, by its framing.
In the portable tree a listing that was read before a directory was made again
and arrives afterwards leaves the new directory unwatched until something
else invalidates it; `DirectoriesTracked` speaks of the observer's own books.

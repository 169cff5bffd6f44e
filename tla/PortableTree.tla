----------------------------- MODULE PortableTree -----------------------------
(***************************************************************************)
(* The portable tree observer of watch mode:                               *)
(* packages/hunk/src/core/watch/portableTree.ts.                           *)
(*                                                                         *)
(* Directories are admitted in batches.  Each batch gets a watcher of its  *)
(* own, waits for its scan, lists its directories and queues what it       *)
(* finds; events of older watchers, removals and close() come in between.  *)
(* The file system changes under it: a directory that is removed and made  *)
(* again is another inode under the same path.  Chokidar is external: a    *)
(* watcher scans its paths, then reports in order what changes in them.    *)
(***************************************************************************)
EXTENDS Integers, Sequences, FiniteSets, SequencesExt, Filtering

CONSTANTS
    Dir, Root,
    Below,                   \* [Dir -> the directory and all that lie below it]
    FirstDirs,               \* the directories there are at first
    Ignored,                 \* isIgnored
    Watcher, NoWatcher,
    BatchSize,               \* PORTABLE_TREE_BATCH_SIZE
    MaxChanges               \* bound on changes of the file system

ASSUME TreeAssumption ==
    /\ IsFiniteSet(Dir) /\ Root \in Dir /\ Below[Root] = Dir
    /\ Below \in [Dir -> SUBSET Dir]
    /\ \A d \in Dir : d \in Below[d] /\ \A c \in Below[d] : Below[c] \subseteq Below[d]
    /\ FirstDirs \subseteq Dir /\ Root \in FirstDirs
    /\ NoWatcher \notin Watcher
    /\ BatchSize \in Nat \ {0}
    /\ MaxChanges \in Nat

VARIABLES
    inode,        \* [Dir -> the inode at that path, 0 when there is none]
    changes,      \* changes of the file system so far
    known, queued,
    batchTimer,   \* cancelTimer is set
    drainPhase,   \* where drain() is: idle, scan or list
    batch,        \* the watcher of the batch being drained
    asked,        \* directories readDirectories is at work on
    listed,       \* what it found and has not delivered
    anchor,
    markedReady,  \* watchers whose batchReady is resolved
    treeReady, treeClosed,
    partial,      \* history: runtime.watch threw
    watching,       \* [Watcher -> unused, scanning, ready or retiring]
    roots,        \* [Watcher -> batch.roots]
    held,         \* [Watcher -> [Dir -> the inode it watches, 0 if none]]
    events,       \* [Watcher -> events on the way]
    unreported    \* history: a directory is watched since the last onEvent()

fsVars == <<inode, changes>>
drainVars == <<drainPhase, batch, asked, listed, anchor>>
chokidarVars == <<held, events>>
treeVars == <<fsVars, known, queued, batchTimer, drainVars, markedReady, treeReady, treeClosed,
              partial, watching, roots, chokidarVars, unreported>>

Exists(d) == inode[d] # 0

Children(d) ==
    {c \in Below[d] \ {d} : \A e \in Below[d] \ {c, d} : c \notin Below[e]}

TreeInit ==
    /\ inode = [d \in Dir |-> IF d \in FirstDirs THEN 1 ELSE 0]
    /\ changes = 0
    /\ known = {Root} \ Ignored
    /\ queued = IF Root \in Ignored THEN <<>> ELSE <<Root>>
    /\ batchTimer = TRUE
    /\ drainPhase = "idle"
    /\ batch = NoWatcher
    /\ asked = {}
    /\ listed = {}
    /\ anchor = NoWatcher
    /\ markedReady = {}
    /\ treeReady = FALSE
    /\ treeClosed = FALSE
    /\ partial = FALSE
    /\ watching = [h \in Watcher |-> "unused"]
    /\ roots = [h \in Watcher |-> {}]
    /\ held = [h \in Watcher |-> [d \in Dir |-> 0]]
    /\ events = [h \in Watcher |-> <<>>]
    /\ unreported = FALSE

-----------------------------------------------------------------------------
(***************************************************************************)
(* The queue of directories.                                               *)
(***************************************************************************)

(* The watchers map. *)
Serving == {h \in Watcher : watching[h] \in {"scanning", "ready"}}

(* schedule(), called when enqueue() admitted something. *)
ScheduleDrain(some) == batchTimer' = (batchTimer \/ (some /\ drainPhase = "idle"))

(* What enqueue() leaves of these directories: neither ignored nor known. *)
New(dirs) == dirs \ (known \cup Ignored)

(* enqueue() of each of these directories, but for schedule(). *)
Admit(dirs) ==
    /\ known' = known \cup New(dirs)
    /\ queued' = queued \o SetToSeq(New(dirs))

(* The watchers that own something of a removed subtree. *)
Hit(d) == {h \in Serving : roots[h] \cap Below[d] # {}}

Orphans_None(d) == {}

(* Directories whose batch is retired though they are still there. *)
Orphans(d) == UNION {roots[h] \ Below[d] : h \in Hit(d) \ {anchor}}

MarkReady_Forgotten(watchers) == UNCHANGED markedReady

(* Waiting drains are told that these batches will not scan. *)
MarkReady(watchers) == markedReady' = markedReady \cup watchers

(* invalidate(), but for schedule(): the subtree is forgotten and its      *)
(* watchers are retired; the anchor only stops to own it.                  *)
Invalidate(d) ==
    /\ known' = (known \ Below[d]) \cup Orphans(d)
    /\ queued' = Filtered(queued, Dir \ Below[d]) \o SetToSeq(Orphans(d))
    /\ roots' = [h \in Watcher |-> IF h \in Hit(d) THEN {} ELSE roots[h]]
    /\ watching' = [h \in Watcher |-> IF h \in Hit(d) \ {anchor} THEN "retiring" ELSE watching[h]]
    /\ MarkReady(Hit(d))

-----------------------------------------------------------------------------
(***************************************************************************)
(* Draining.                                                               *)
(***************************************************************************)

Remaining == SubSeq(queued, BatchSize + 1, Len(queued))

(* A drain that leaves the queue empty announces: the tree is ready, or,   *)
(* when it was ready before, onEvent() reconciles.                         *)
Completes(queue) == queue = <<>>

(* The end of a drain with this queue, and its finally clause: what was    *)
(* queued meanwhile gets a drain of its own.                               *)
DrainEnds(queue, done) ==
    /\ drainPhase' = "idle"
    /\ batchTimer' = (queue # <<>>)
    /\ treeReady' = (treeReady \/ (done /\ Completes(queue)))
    /\ unreported' = (unreported /\ ~(done /\ Completes(queue)))

(* Watchers are interchangeable; a new one takes an identity that is free. *)
NewWatcher == CHOOSE h \in Watcher : watching[h] = "unused"

(* The timer fires: a watcher for the next batch, or nothing to do. *)
DrainStarts(h) ==
    /\ batchTimer
    /\ ~treeClosed
    /\ queued # <<>>
    /\ watching[h] = "unused" /\ h = NewWatcher
    /\ batchTimer' = FALSE
    /\ drainPhase' = "scan"
    /\ batch' = h
    /\ queued' = Remaining
    /\ anchor' = IF anchor = NoWatcher THEN h ELSE anchor
    /\ watching' = [watching EXCEPT ![h] = "scanning"]
    /\ roots' = [roots EXCEPT ![h] = ToSet(queued) \ ToSet(Remaining)]
    /\ held' = [held EXCEPT ![h] = [d \in Dir |-> 0]]
    /\ events' = [events EXCEPT ![h] = <<>>]
    /\ markedReady' = markedReady \ {h}
    /\ UNCHANGED <<fsVars, known, asked, listed, treeReady, treeClosed, partial, unreported>>

(* The timer fires with an empty queue. *)
DrainFindsNothing ==
    /\ batchTimer
    /\ ~treeClosed
    /\ queued = <<>>
    /\ DrainEnds(<<>>, TRUE)
    /\ UNCHANGED <<fsVars, known, queued, batch, asked, listed, anchor, markedReady, treeClosed,
                   partial, watching, roots, chokidarVars>>

(* runtime.watch throws: the observer stays partial. *)
WatchThrows ==
    /\ batchTimer
    /\ ~treeClosed
    /\ queued # <<>>
    /\ queued' = <<>>
    /\ partial' = TRUE
    /\ DrainEnds(<<>>, FALSE)
    /\ UNCHANGED <<fsVars, known, batch, asked, listed, anchor, markedReady, treeClosed,
                   watching, roots, chokidarVars>>

(* batchReady resolves, and the directories still owned are listed. *)
BatchReady ==
    /\ drainPhase = "scan"
    /\ ~treeClosed
    /\ batch \in markedReady
    /\ IF roots[batch] = {}
       THEN DrainEnds(queued, TRUE) /\ UNCHANGED asked
       ELSE /\ drainPhase' = "list"
            /\ asked' = roots[batch]
            /\ UNCHANGED <<batchTimer, treeReady, unreported>>
    /\ UNCHANGED <<fsVars, known, queued, batch, listed, anchor, markedReady, treeClosed, partial,
                   watching, roots, chokidarVars>>

(* readDirectories() reads d, or cannot; its answer comes later. *)
DirectoryRead(d) ==
    /\ d \in asked
    /\ asked' = asked \ {d}
    /\ \E readable \in BOOLEAN :
          listed' = listed \cup {[dir |-> d, found |-> Exists(d) /\ readable,
                                 children |-> {c \in Children(d) : Exists(c)}]}
    /\ UNCHANGED <<fsVars, known, queued, batchTimer, drainPhase, batch, anchor, markedReady,
                   treeReady, treeClosed, partial, watching, roots, chokidarVars, unreported>>

(* roots.has(path), asked again once the directory was read. *)
StillOwned(d) == d \in roots[batch]

(* The answer arrives: its children are queued, a directory that is gone   *)
(* or cannot be read is forgotten, and one that was invalidated meanwhile  *)
(* is left alone.  The drain ends with the last answer.                    *)
ListingArrives(l) ==
    /\ drainPhase = "list"
    /\ ~treeClosed
    /\ l \in listed
    /\ listed' = listed \ {l}
    /\ LET last == asked = {} /\ listed = {l}
           Ends == IF last THEN DrainEnds(queued', TRUE)
                   ELSE UNCHANGED <<drainPhase, batchTimer, treeReady, unreported>>
       IN  /\ \/ /\ ~StillOwned(l.dir)
                 /\ UNCHANGED <<known, queued, roots, watching, markedReady>>
              \/ /\ StillOwned(l.dir) /\ l.found
                 /\ Admit(l.children)
                 /\ UNCHANGED <<roots, watching, markedReady>>
              \/ /\ StillOwned(l.dir) /\ ~l.found
                 /\ Invalidate(l.dir)
           /\ Ends
    /\ UNCHANGED <<fsVars, batch, asked, anchor, treeClosed, partial, chokidarVars>>

(* The watchers that close() closes. *)
ClosesAll == Serving

(* close() *)
TreeClose ==
    /\ ~treeClosed
    /\ treeClosed' = TRUE
    /\ batchTimer' = FALSE
    /\ queued' = <<>>
    /\ known' = {}
    /\ watching' = [h \in Watcher |-> IF h \in ClosesAll THEN "retiring" ELSE watching[h]]
    /\ UNCHANGED <<fsVars, drainVars, markedReady, treeReady, partial, roots, chokidarVars,
                   unreported>>

(* A drain notices that the tree was closed. *)
DrainCancelled ==
    /\ treeClosed
    /\ drainPhase # "idle"
    /\ drainPhase' = "idle"
    /\ asked' = {}
    /\ listed' = {}
    /\ UNCHANGED <<fsVars, known, queued, batchTimer, batch, anchor, markedReady, treeReady,
                   treeClosed, partial, watching, roots, chokidarVars, unreported>>

(* watcher.close() of a retired watcher settles. *)
WatcherCloses(h) ==
    /\ watching[h] = "retiring"
    /\ watching' = [watching EXCEPT ![h] = "unused"]
    /\ events' = [events EXCEPT ![h] = <<>>]
    /\ held' = [held EXCEPT ![h] = [d \in Dir |-> 0]]
    /\ UNCHANGED <<fsVars, known, queued, batchTimer, drainVars, markedReady, treeReady, treeClosed,
                   partial, roots, unreported>>

-----------------------------------------------------------------------------
(***************************************************************************)
(* Chokidar and the file system.                                           *)
(***************************************************************************)

(* A watcher scans one of its paths: from now on it reports on it, and the *)
(* directories in it pass through "ignored".  A path that is missing is    *)
(* scanned, and reported, when it appears: chokidar observes its parent.   *)
PathScanned(h, d) ==
    /\ h \in Serving
    /\ d \in roots[h]
    /\ Exists(d) /\ held[h][d] = 0
    /\ held' = [held EXCEPT ![h][d] = inode[d]]
    /\ Admit({c \in Children(d) \ roots[h] : Exists(c)})
    /\ ScheduleDrain(New({c \in Children(d) \ roots[h] : Exists(c)}) # {})
    /\ unreported' = TRUE
    /\ events' = IF watching[h] = "scanning" THEN events
                 ELSE [events EXCEPT ![h] = Append(@, [type |-> "addDir", dir |-> d])]
    /\ UNCHANGED <<fsVars, drainVars, markedReady, treeReady, treeClosed, partial, watching, roots>>

(* The ready event: every path that exists was scanned. *)
WatcherReady(h) ==
    /\ watching[h] = "scanning"
    /\ \A d \in roots[h] : Exists(d) => held[h][d] # 0
    /\ watching' = [watching EXCEPT ![h] = "ready"]
    /\ markedReady' = markedReady \cup {h}
    /\ UNCHANGED <<fsVars, known, queued, batchTimer, drainVars, treeReady, treeClosed, partial,
                   roots, chokidarVars, unreported>>

(* The "all" listener: an event of a watcher that is still in use. *)
EventArrives(h) ==
    /\ events[h] # <<>>
    /\ LET e == Head(events[h])
       IN  \/ /\ treeClosed \/ h \notin Serving
              /\ UNCHANGED <<known, queued, batchTimer, roots, watching, markedReady, unreported>>
           \/ /\ ~treeClosed /\ h \in Serving
              /\ e.type = "addDir"
              /\ Admit({e.dir})
              /\ ScheduleDrain(New({e.dir}) # {})
              /\ UNCHANGED <<roots, watching, markedReady>>
              /\ unreported' = FALSE
           \/ /\ ~treeClosed /\ h \in Serving
              /\ e.type = "unlinkDir"
              /\ Invalidate(e.dir)
              /\ ScheduleDrain(Orphans(e.dir) # {})
              /\ unreported' = FALSE
    /\ events' = [events EXCEPT ![h] = Tail(@)]
    /\ UNCHANGED <<fsVars, drainVars, treeReady, treeClosed, partial, held>>

(* Serving that see what happens to d: the ones that watch it or what it  *)
(* lies in.                                                                *)
Sees(h, d) ==
    \E p \in Dir :
        /\ p = d \/ d \in Children(p)
        /\ Exists(p) /\ held[h][p] = inode[p]

(* A directory appears; the anchor also waits for the root. *)
DirectoryMade(d) ==
    /\ changes < MaxChanges
    /\ ~Exists(d)
    /\ \A p \in Dir : d \in Children(p) => Exists(p)
    /\ changes' = changes + 1
    /\ inode' = [inode EXCEPT ![d] = changes + 2]
    /\ events' = [h \in Watcher |->
           IF Sees(h, d) \/ (d = Root /\ h = anchor)
           THEN Append(events[h], [type |-> "addDir", dir |-> d]) ELSE events[h]]
    /\ UNCHANGED <<known, queued, batchTimer, drainVars, markedReady, treeReady, treeClosed,
                   partial, watching, roots, held, unreported>>

(* An empty directory is removed. *)
DirectoryRemoved(d) ==
    /\ changes < MaxChanges
    /\ Exists(d)
    /\ \A c \in Children(d) : ~Exists(c)
    /\ changes' = changes + 1
    /\ inode' = [inode EXCEPT ![d] = 0]
    /\ events' = [h \in Watcher |->
           IF Sees(h, d) THEN Append(events[h], [type |-> "unlinkDir", dir |-> d]) ELSE events[h]]
    /\ UNCHANGED <<known, queued, batchTimer, drainVars, markedReady, treeReady, treeClosed,
                   partial, watching, roots, held, unreported>>

(* What happens by itself: timers, chokidar's work and promises. *)
TreeProgress ==
    \/ DrainFindsNothing \/ WatchThrows \/ BatchReady \/ DrainCancelled
    \/ \E h \in Watcher :
          DrainStarts(h) \/ WatcherCloses(h) \/ WatcherReady(h) \/ EventArrives(h)
    \/ \E h \in Watcher, d \in Dir : PathScanned(h, d)
    \/ \E d \in Dir : DirectoryRead(d)
    \/ \E l \in listed : ListingArrives(l)

TreeNext ==
    \/ TreeProgress
    \/ TreeClose
    \/ \E d \in Dir : DirectoryMade(d) \/ DirectoryRemoved(d)

TreeSpec == TreeInit /\ [][TreeNext]_treeVars

(* Fairness: the event loop goes on while anything is due. *)
TreeFairSpec == TreeSpec /\ WF_treeVars(TreeProgress)

-----------------------------------------------------------------------------
(***************************************************************************)
(* Properties.                                                             *)
(***************************************************************************)

(* No wake-up is lost and no directory falls between the queue and the     *)
(* watchers: while the tree is open, what is queued has a timer or a drain *)
(* to come, a known directory is queued or owned by exactly one batch, and *)
(* nothing is owned that is not known (enqueue, invalidate, drain).        *)
DirectoriesTracked ==
    ~treeClosed /\ ~partial =>
        LET owned == UNION {roots[h] : h \in Serving}
        IN  /\ queued # <<>> => batchTimer \/ drainPhase # "idle"
            /\ known = owned \cup ToSet(queued)
            /\ Len(queued) = Cardinality(ToSet(queued) \ owned)
            /\ \A h, i \in Serving : h # i => roots[h] \cap roots[i] = {}

(* A scan that began completes: removals that retire the batch a drain     *)
(* waits for never leave the drain, and the directories behind it, waiting. *)
TreeSettles == drainPhase # "idle" ~> (treeReady \/ treeClosed \/ partial)

(* Once closed, every watcher that was made is released (close).           *)
WatchersReleased == treeClosed ~> \A h \in Watcher : watching[h] = "unused"

(* Whenever a directory comes under watch, the controller is told to look  *)
(* again afterwards: what filled it before its watcher was there is not    *)
(* missed, however the drains, their queue and removals interleave (the    *)
(* last lines of drain).                                                   *)
PopulationReconciled == unreported ~> (~unreported \/ treeClosed \/ partial)

(* The tree goes on: a scan completes, what it found is reported, and a    *)
(* closed tree holds no watcher.                                           *)
TreeGoesOn == TreeSettles /\ WatchersReleased /\ PopulationReconciled
===============================================================================

----------------------------- MODULE WatchProofs -----------------------------
(***************************************************************************)
(* The safety of watch mode: of the portable tree, for every tree, every   *)
(* batch size and any number of changes, and of the controller, for every  *)
(* number of targets and edits and all delays.                             *)
(***************************************************************************)
EXTENDS WatchController, PortableTree, DataLemmas

-----------------------------------------------------------------------------
(***************************************************************************)
(* The portable tree.                                                      *)
(***************************************************************************)

(* What the tree's variables hold.                                          *)
TreeTypeOK ==
    /\ known \subseteq Dir
    /\ queued \in Seq(Dir)
    /\ roots \in [Watcher -> SUBSET Dir]
    /\ watching \in [Watcher -> {"unused", "scanning", "ready", "retiring"}]
    /\ anchor \in Watcher \cup {NoWatcher}
    /\ asked \subseteq Dir
    /\ \A l \in listed : l.dir \in Dir /\ l.children \subseteq Dir
    /\ DOMAIN events = Watcher
    /\ \A h \in Watcher : events[h] \in Seq([type : {"addDir", "unlinkDir"}, dir : Dir])

(* A queue that names every directory once.                                 *)
Listing(q) == q \in Seq(Dir) /\ \A i, j \in 1..Len(q) : q[i] = q[j] => i = j

(* The directories some watcher answers for.                                *)
Owned == UNION {roots[h] : h \in Serving}

(* A directory that is queued or owned is so once, and known; only where a  *)
(* batch was given up is one known that is neither.                         *)
Accounted ==
    /\ Listing(queued)
    /\ Owned \cap ToSet(queued) = {}
    /\ Owned \cup ToSet(queued) \subseteq known
    /\ ~partial => known = Owned \cup ToSet(queued)
    /\ \A h, i \in Serving : h # i => roots[h] \cap roots[i] = {}

(* What is queued has a timer or a drain to come.                           *)
Awaited == queued # <<>> => batchTimer \/ drainPhase # "idle"

(* The first watcher is the anchor: it owns the root at most, and serves    *)
(* as long as the tree is open.  A closed tree has neither queue nor        *)
(* watchers.                                                                *)
Anchored ==
    /\ anchor = NoWatcher =>
          drainPhase = "idle" /\ Serving = {} /\ queued \in {<<>>, <<Root>>}
    /\ anchor # NoWatcher => roots[anchor] \subseteq {Root}
    /\ anchor # NoWatcher /\ ~treeClosed => anchor \in Serving
    /\ treeClosed => Serving = {} /\ queued = <<>>
    /\ drainPhase # "idle" => batch \in Watcher

(* The inductive invariant of the tree.                                     *)
TreeIInv == TreeTypeOK /\ Accounted /\ Awaited /\ Anchored

-----------------------------------------------------------------------------
(* Sequences of directories.                                                *)

(* A finite set as a sequence: its members, each once.                      *)
LEMMA SequenceOf ==
    ASSUME NEW S \in SUBSET Dir
    PROVE  Listing(SetToSeq(S)) /\ ToSet(SetToSeq(S)) = S
<1> DEFINE n == Cardinality(S)
           f == SetToSeq(S)
<1>1. IsFiniteSet(S)
  BY TreeAssumption, FS_Subset
<1>2. n \in Nat /\ ExistsBijection(1..n, S)
  BY <1>1, FS_CardinalityType
<1>3. PICK b : b \in Bijection(1..n, S)
  BY <1>2 DEF ExistsBijection
<1>4. b \in [1..n -> S] /\ IsInjective(b)
  BY <1>3 DEF Bijection, Injection, IsInjective
<1>5. f \in [1..n -> S] /\ IsInjective(f)
  BY <1>4 DEF SetToSeq
<1> HIDE DEF f
<1>6. f \in Injection(1..n, S)
  BY <1>5 DEF Injection, IsInjective
<1>7. IsFiniteSet(1..n) /\ Cardinality(1..n) = n
  BY <1>2, FS_Interval
<1>8. f \in Surjection(1..n, S)
  BY <1>1, <1>6, <1>7, FS_Injection
<1> HIDE DEF n
<1>9. f \in Seq(Dir) /\ Len(f) = n /\ DOMAIN f = 1..n
  BY <1>2, <1>5
<1>10. \A i, j \in 1..Len(f) : f[i] = f[j] => i = j
  BY <1>5, <1>9 DEF IsInjective
<1>11. ToSet(f) = S
  BY <1>5, <1>8, <1>9 DEF ToSet, Surjection
<1> QED
  BY <1>9, <1>10, <1>11 DEF Listing, f

(* What a queue contains.                                                   *)
LEMMA InQueue ==
    ASSUME NEW q \in Seq(Dir)
    PROVE  /\ \A x : x \in ToSet(q) <=> \E i \in 1..Len(q) : q[i] = x
           /\ ToSet(q) \subseteq Dir
           /\ ToSet(q) = {} => q = <<>>
<1>1. \A x : x \in ToSet(q) <=> \E i \in 1..Len(q) : q[i] = x
  BY MembersOf DEF ToSet
<1>2. Len(q) \in Nat /\ \A i \in 1..Len(q) : q[i] \in Dir
  BY LenProperties
<1>3. ToSet(q) = {} => Len(q) = 0
  <2> SUFFICES ASSUME ToSet(q) = {}, Len(q) # 0 PROVE FALSE
    OBVIOUS
  <2>1. 1 \in 1..Len(q)
    BY <1>2
  <2> QED
    BY <1>1, <2>1
<1> QED
  BY <1>1, <1>2, <1>3, EmptySeq

(* Directories that are not in a queue may be added at its end.             *)
LEMMA Extended ==
    ASSUME NEW q, Listing(q), NEW S \in SUBSET Dir, S \cap ToSet(q) = {}
    PROVE  /\ Listing(q \o SetToSeq(S))
           /\ ToSet(q \o SetToSeq(S)) = ToSet(q) \cup S
           /\ S = {} => q \o SetToSeq(S) = q
<1> DEFINE t == SetToSeq(S)
           r == q \o t
<1>1. Listing(t) /\ ToSet(t) = S
  BY SequenceOf
<1> HIDE DEF t
<1>2. q \in Seq(Dir) /\ t \in Seq(Dir)
  BY <1>1 DEF Listing
<1>3. /\ r \in Seq(Dir) /\ Len(r) = Len(q) + Len(t)
      /\ \A i \in 1..(Len(q) + Len(t)) : r[i] = IF i <= Len(q) THEN q[i] ELSE t[i - Len(q)]
  BY ONLY <1>2, ConcatProperties, Zenon DEF r
<1>4. Len(q) \in Nat /\ Len(t) \in Nat
  BY <1>2, LenProperties
<1>5. /\ \A x : x \in ToSet(q) <=> \E i \in 1..Len(q) : q[i] = x
      /\ \A x : x \in ToSet(t) <=> \E i \in 1..Len(t) : t[i] = x
      /\ ToSet(t) = {} => t = <<>>
  BY <1>2, InQueue
<1>6. S = {} => r = q
  <2> SUFFICES ASSUME S = {} PROVE q \o <<>> = q
    BY <1>1, <1>5
  <2> QED
    BY <1>2, ConcatEmptySeq
<1> HIDE DEF r
<1>7. \A x : x \in ToSet(r) <=> \E i \in 1..Len(r) : r[i] = x
  BY <1>3, InQueue
<1>8. \A i \in 1..Len(r) : \/ i \in 1..Len(q) /\ r[i] = q[i]
                           \/ i - Len(q) \in 1..Len(t) /\ r[i] = t[i - Len(q)] /\ i > Len(q)
  BY <1>3, <1>4
<1>9. /\ \A i \in 1..Len(q) : i \in 1..Len(r) /\ r[i] = q[i]
      /\ \A i \in 1..Len(t) : i + Len(q) \in 1..Len(r) /\ r[i + Len(q)] = t[i]
  <2>1. \A i \in 1..Len(t) : /\ i + Len(q) \in 1..(Len(q) + Len(t)) /\ ~(i + Len(q) <= Len(q))
                             /\ (i + Len(q)) - Len(q) = i
    BY <1>4
  <2>2. \A i \in 1..Len(q) : i \in 1..(Len(q) + Len(t)) /\ i <= Len(q)
    BY <1>4
  <2> QED
    BY <1>3, <2>1, <2>2
<1>10. ToSet(r) = ToSet(q) \cup S
  <2>1. \A x : x \in ToSet(r) <=> x \in ToSet(q) \/ x \in ToSet(t)
    <3>1. ASSUME NEW x \in ToSet(r) PROVE x \in ToSet(q) \/ x \in ToSet(t)
      <4>1. PICK i \in 1..Len(r) : r[i] = x
        BY <1>7
      <4> QED
        BY <1>5, <1>8, <4>1
    <3>2. ASSUME NEW x \in ToSet(q) PROVE x \in ToSet(r)
      <4>1. PICK i \in 1..Len(q) : q[i] = x
        BY <1>5
      <4> QED
        BY <1>7, <1>9, <4>1
    <3>3. ASSUME NEW x \in ToSet(t) PROVE x \in ToSet(r)
      <4>1. PICK i \in 1..Len(t) : t[i] = x
        BY <1>5
      <4> QED
        BY <1>7, <1>9, <4>1
    <3> QED
      BY <3>1, <3>2, <3>3
  <2> QED
    BY <1>1, <2>1
<1>11. ASSUME NEW i \in 1..Len(r), NEW j \in 1..Len(r), r[i] = r[j] PROVE i = j
  <2>1. CASE i \in 1..Len(q) /\ j \in 1..Len(q) /\ r[i] = q[i] /\ r[j] = q[j]
    BY <1>11, <2>1 DEF Listing
  <2>2. CASE /\ i - Len(q) \in 1..Len(t) /\ j - Len(q) \in 1..Len(t)
             /\ r[i] = t[i - Len(q)] /\ r[j] = t[j - Len(q)]
    <3>1. i - Len(q) = j - Len(q)
      BY <1>1, <1>11, <2>2 DEF Listing
    <3> QED
      BY <1>3, <1>4, <3>1
  <2>3. \A x \in 1..Len(q), y \in 1..Len(t) : q[x] # t[y]
    BY <1>1, <1>5
  <2> QED
    BY <1>8, <1>11, <2>1, <2>2, <2>3
<1> QED
  BY <1>3, <1>6, <1>10, <1>11 DEF Listing, r, t

(* What is left of a queue when a subtree is forgotten.                     *)
LEMMA Forgotten ==
    ASSUME NEW q, Listing(q), NEW B
    PROVE  Listing(Filtered(q, Dir \ B)) /\ ToSet(Filtered(q, Dir \ B)) = ToSet(q) \ B
<1> DEFINE S == Dir \ B
           p == Filtered(q, S)
<1>1. q \in Seq(Dir) /\ Len(q) \in Nat /\ \A i \in 1..Len(q) : q[i] \in Dir
  BY LenProperties DEF Listing
<1>2. p \in Seq(Dir) /\ Picture(q, S, Len(q), p)
  BY <1>1, FilteredPicture
<1>3. PICK h \in [1..Len(p) -> 1..Len(q)] :
          /\ \A i \in 1..Len(p) : p[i] = q[h[i]] /\ q[h[i]] \in S
          /\ \A i, j \in 1..Len(p) : i < j => h[i] < h[j]
          /\ \A k \in 1..Len(q) : q[k] \in S => \E i \in 1..Len(p) : h[i] = k
  BY <1>2 DEF Picture
<1> HIDE DEF p
<1>4. Len(p) \in Nat
  BY <1>2, LenProperties
<1>5. \A i \in 1..Len(p) : h[i] \in 1..Len(q) /\ i \in Int /\ h[i] \in Int
  BY <1>1, <1>4
<1>6. ASSUME NEW i \in 1..Len(p), NEW j \in 1..Len(p), p[i] = p[j] PROVE i = j
  <2>1. h[i] = h[j]
    BY <1>3, <1>5, <1>6 DEF Listing
  <2>2. ~(i < j) /\ ~(j < i)
    BY <1>3, <1>5, <2>1
  <2> QED
    BY <1>5, <2>2
<1>7. ToSet(p) = ToSet(q) \ B
  <2>1. \A i \in 1..Len(p) : p[i] \notin B /\ \E k \in 1..Len(q) : p[i] = q[k]
    BY <1>3, <1>5
  <2>2. \A k \in 1..Len(q) : q[k] \notin B => \E i \in 1..Len(p) : p[i] = q[k]
    BY <1>1, <1>3
  <2>3. /\ \A x : x \in ToSet(p) <=> \E i \in 1..Len(p) : p[i] = x
        /\ \A x : x \in ToSet(q) <=> \E i \in 1..Len(q) : q[i] = x
    BY <1>1, <1>2, InQueue
  <2> QED
    BY <2>1, <2>2, <2>3
<1> QED
  BY <1>2, <1>6, <1>7 DEF Listing, p

(* What is left of a queue when a batch is taken from its front.            *)
LEMMA RemainingListing ==
    ASSUME Listing(queued)
    PROVE  Listing(Remaining) /\ ToSet(Remaining) \subseteq ToSet(queued)
<1> DEFINE q == queued
           r == Remaining
           n == BatchSize
<1>1. q \in Seq(Dir) /\ Len(q) \in Nat /\ \A i \in 1..Len(q) : q[i] \in Dir
  BY LenProperties DEF Listing
<1>2. n \in Nat /\ n > 0
  BY TreeAssumption
<1>3. \A i \in (n + 1)..Len(q) : q[i] \in Dir
  BY <1>1, <1>2
<1>4. /\ r \in Seq(Dir)
      /\ Len(r) = IF n + 1 <= Len(q) THEN Len(q) - (n + 1) + 1 ELSE 0
      /\ \A i \in 1..(Len(q) - (n + 1) + 1) : r[i] = q[(n + 1) + i - 1]
  <2>1. n + 1 \in Int /\ Len(q) \in Int
    BY <1>1, <1>2
  <2> HIDE DEF n, q
  <2> QED
    BY ONLY <1>3, <2>1, SubSeqProperties DEF Remaining, n, q
<1> HIDE DEF r
<1>5. \A i \in 1..Len(r) : n + i \in 1..Len(q) /\ r[i] = q[n + i] /\ i \in Int
  BY <1>1, <1>2, <1>4
<1>6. \A i, j \in 1..Len(r) : r[i] = r[j] => i = j
  <2> SUFFICES ASSUME NEW i \in 1..Len(r), NEW j \in 1..Len(r), r[i] = r[j] PROVE i = j
    OBVIOUS
  <2>1. n + i = n + j
    BY <1>5 DEF Listing
  <2> QED
    BY <1>2, <1>5, <2>1
<1>7. ToSet(r) \subseteq ToSet(q)
  <2>1. /\ \A x : x \in ToSet(r) <=> \E i \in 1..Len(r) : r[i] = x
        /\ \A x : x \in ToSet(q) <=> \E i \in 1..Len(q) : q[i] = x
    BY <1>1, <1>4, InQueue
  <2> QED
    BY <1>5, <2>1
<1> QED
  BY <1>4, <1>6, <1>7 DEF Listing, r

-----------------------------------------------------------------------------
(* Who owns what.                                                           *)
LEMMA OwnedBy == \A x : x \in Owned <=> \E h \in Serving : x \in roots[h]
BY DEF Owned

(* New directories are queued; nothing else changes hands.                  *)
LEMMA AdmitKeeps ==
    ASSUME TreeTypeOK, Accounted, NEW dirs \in SUBSET Dir, Admit(dirs),
           UNCHANGED <<roots, watching, partial>>
    PROVE  /\ Accounted' /\ known' \subseteq Dir /\ queued' \in Seq(Dir)
           /\ New(dirs) = {} => queued' = queued
<1>1. /\ Listing(queued) /\ known \subseteq Dir
      /\ Owned \cap ToSet(queued) = {} /\ Owned \cup ToSet(queued) \subseteq known
      /\ ~partial => known = Owned \cup ToSet(queued)
      /\ \A h, i \in Serving : h # i => roots[h] \cap roots[i] = {}
  BY DEF TreeTypeOK, Accounted
<1>2. New(dirs) \in SUBSET Dir /\ New(dirs) \cap known = {}
  BY DEF New
<1>3. known' = known \cup New(dirs) /\ queued' = queued \o SetToSeq(New(dirs))
  BY DEF Admit
<1>4. New(dirs) \cap ToSet(queued) = {}
  BY <1>1, <1>2
<1>5. /\ Listing(queued') /\ ToSet(queued') = ToSet(queued) \cup New(dirs)
      /\ New(dirs) = {} => queued' = queued
  BY <1>1, <1>2, <1>3, <1>4, Extended
<1>6. Serving' = Serving /\ Owned' = Owned
  BY DEF Serving, Owned
<1>7. Listing(queued)'
  BY <1>5 DEF Listing
<1>8. Accounted'
  BY <1>1, <1>2, <1>3, <1>5, <1>6, <1>7 DEF Accounted
<1> QED
  BY <1>1, <1>2, <1>3, <1>5, <1>8 DEF Listing

(* A subtree is forgotten: what its watchers owned beside it is queued      *)
(* again, and the anchor, which owns the root alone, has nothing beside it. *)
LEMMA InvalidateKeeps ==
    ASSUME TreeTypeOK, Accounted, Anchored, anchor # NoWatcher, NEW d \in Dir,
           Invalidate(d), UNCHANGED <<partial, anchor, treeClosed>>
    PROVE  /\ Accounted' /\ known' \subseteq Dir /\ queued' \in Seq(Dir)
           /\ Orphans(d) = {} /\ queued = <<>> => queued' = <<>>
           /\ roots' \in [Watcher -> SUBSET Dir]
           /\ watching' \in [Watcher -> {"unused", "scanning", "ready", "retiring"}]
           /\ roots'[anchor] \subseteq {Root}
           /\ ~treeClosed => anchor \in Serving'
<1> DEFINE B == Below[d]
           O == Orphans(d)
<1>1. /\ Listing(queued) /\ known \subseteq Dir
      /\ Owned \cap ToSet(queued) = {} /\ Owned \cup ToSet(queued) \subseteq known
      /\ ~partial => known = Owned \cup ToSet(queued)
      /\ \A h, i \in Serving : h # i => roots[h] \cap roots[i] = {}
  BY DEF TreeTypeOK, Accounted
<1>2. /\ roots \in [Watcher -> SUBSET Dir]
      /\ watching \in [Watcher -> {"unused", "scanning", "ready", "retiring"}]
      /\ anchor \in Watcher
  BY DEF TreeTypeOK
<1>3. /\ roots[anchor] \subseteq {Root}
      /\ ~treeClosed => anchor \in Serving
  BY DEF Anchored
<1>4. anchor \in Hit(d) => B = Dir
  <2> SUFFICES ASSUME anchor \in Hit(d) PROVE B = Dir
    OBVIOUS
  <2>1. Root \in B
    BY <1>3 DEF Hit
  <2> QED
    BY <2>1, TreeAssumption
<1>5. /\ Hit(d) \subseteq Serving /\ Serving \subseteq Watcher
      /\ \A h \in Serving : h \in Hit(d) <=> roots[h] \cap B # {}
  BY DEF Hit, Serving
<1>6. /\ roots' = [h \in Watcher |-> IF h \in Hit(d) THEN {} ELSE roots[h]]
      /\ watching' = [h \in Watcher |->
             IF h \in Hit(d) \ {anchor} THEN "retiring" ELSE watching[h]]
      /\ known' = (known \ B) \cup O
      /\ queued' = Filtered(queued, Dir \ B) \o SetToSeq(O)
  BY DEF Invalidate
<1>7. \A x : x \in O <=> x \notin B /\ \E h \in Hit(d) \ {anchor} : x \in roots[h]
  BY DEF Orphans
<1> HIDE DEF B, O
<1>8. /\ roots' \in [Watcher -> SUBSET Dir]
      /\ watching' \in [Watcher -> {"unused", "scanning", "ready", "retiring"}]
      /\ roots'[anchor] \subseteq {Root}
  BY <1>2, <1>3, <1>6
<1>9. Serving' = Serving \ (Hit(d) \ {anchor})
  BY <1>2, <1>5, <1>6 DEF Serving
<1>10. \A x : x \in Owned' <=> \E h \in Serving \ Hit(d) : x \in roots[h]
  <2>1. \A x : x \in Owned' <=> \E h \in Serving' : x \in roots'[h]
    BY DEF Owned
  <2>2. \A h \in Serving \ Hit(d) : h \in Serving' /\ roots'[h] = roots[h]
    BY <1>5, <1>6, <1>9
  <2>3. \A h \in Serving' : h \in Serving \ Hit(d) \/ roots'[h] = {}
    BY <1>2, <1>5, <1>6, <1>9
  <2> QED
    BY <2>1, <2>2, <2>3
<1>11. O \subseteq Owned /\ O \in SUBSET Dir
  <2>1. O \subseteq Owned
    BY <1>5, <1>7, OwnedBy
  <2> QED
    BY <1>1, <2>1
<1>12. Listing(Filtered(queued, Dir \ B)) /\ ToSet(Filtered(queued, Dir \ B)) = ToSet(queued) \ B
  BY <1>1, Forgotten
<1>13. O \cap ToSet(Filtered(queued, Dir \ B)) = {}
  BY <1>1, <1>11, <1>12
<1>14. /\ Listing(queued') /\ ToSet(queued') = (ToSet(queued) \ B) \cup O
       /\ O = {} => queued' = Filtered(queued, Dir \ B)
  BY <1>6, <1>11, <1>12, <1>13, Extended
<1>15. queued = <<>> /\ O = {} => queued' = <<>>
  <2> SUFFICES ASSUME queued = <<>>, O = {} PROVE queued' = <<>>
    OBVIOUS
  <2>2. ToSet(queued) = {}
    BY DEF ToSet
  <2>3. ToSet(queued') = {}
    BY <1>14, <2>2
  <2>1. ToSet(queued') = {} /\ queued' \in Seq(Dir)
    BY <1>14, <2>3 DEF Listing
  <2> QED
    BY <2>1, InQueue
<1>16. Owned' \cap ToSet(queued') = {}
  <2> SUFFICES ASSUME NEW x \in Owned', x \in ToSet(queued') PROVE FALSE
    OBVIOUS
  <2>1. PICK h \in Serving \ Hit(d) : x \in roots[h]
    BY <1>10
  <2>2. x \in Owned
    BY <2>1, OwnedBy
  <2>3. x \in O
    BY <1>1, <1>14, <2>2
  <2>4. PICK g \in Hit(d) : x \in roots[g]
    BY <1>7, <2>3
  <2>5. g \in Serving /\ g # h
    BY <1>5, <2>1, <2>4
  <2> QED
    BY <1>1, <2>1, <2>4, <2>5
<1>17. Owned' \cup ToSet(queued') \subseteq known'
  <2>1. ASSUME NEW x \in Owned' PROVE x \in known'
    <3>1. PICK h \in Serving \ Hit(d) : x \in roots[h]
      BY <1>10
    <3>2. x \notin B /\ x \in known
      BY <1>1, <1>5, <3>1, OwnedBy
    <3> QED
      BY <1>6, <3>2
  <2> QED
    BY <1>1, <1>6, <1>14, <2>1
<1>18. ~partial => known' \subseteq Owned' \cup ToSet(queued')
  <2> SUFFICES ASSUME ~partial, NEW x \in known', x \notin ToSet(queued') PROVE x \in Owned'
    OBVIOUS
  <2>1. x \in known /\ x \notin B /\ x \notin O /\ x \notin ToSet(queued)
    BY <1>6, <1>14
  <2>2. x \in Dir /\ x \in Owned
    BY <1>1, <2>1
  <2>3. PICK h \in Serving : x \in roots[h]
    BY <2>2, OwnedBy
  <2>4. h \notin Hit(d)
    BY <1>4, <1>7, <2>1, <2>2, <2>3
  <2> QED
    BY <1>10, <2>3, <2>4
<1>19. \A h, i \in Serving' : h # i => roots'[h] \cap roots'[i] = {}
  <2>1. \A h \in Serving' : h \in Serving /\ h \in Watcher /\ roots'[h] \in {{}, roots[h]}
    BY <1>5, <1>6, <1>9
  <2> QED
    BY <1>1, <2>1
<1>20. Listing(queued)'
  BY <1>14 DEF Listing
<1>21. Accounted'
  BY <1>16, <1>17, <1>18, <1>19, <1>20 DEF Accounted
<1>22. known' \subseteq Dir /\ queued' \in Seq(Dir)
  BY <1>1, <1>6, <1>11, <1>14 DEF Listing
<1>23. ~treeClosed => anchor \in Serving'
  BY <1>3, <1>9
<1> QED
  BY <1>8, <1>15, <1>21, <1>22, <1>23 DEF O

-----------------------------------------------------------------------------
(* The invariant.                                                           *)

(* A step that moves neither the queue nor its owners.                      *)
LEMMA QueueUntouched ==
    ASSUME TreeIInv, UNCHANGED <<known, queued, roots, partial, anchor>>,
           Serving' = Serving, treeClosed' = treeClosed,
           queued # <<>> /\ (batchTimer \/ drainPhase # "idle") =>
               (batchTimer \/ drainPhase # "idle")',
           anchor = NoWatcher => drainPhase' = "idle",
           drainPhase' # "idle" => batch' \in Watcher
    PROVE  Accounted' /\ Awaited' /\ Anchored'
<1>1. Accounted /\ Awaited /\ Anchored
  BY DEF TreeIInv
<1>2. Owned' = Owned
  BY DEF Owned
<1>3. Accounted'
  BY <1>1, <1>2 DEF Accounted, Listing
<1>4. Awaited' /\ Anchored'
  BY <1>1 DEF Awaited, Anchored
<1> QED
  BY <1>3, <1>4

(* The tree as it is set up.                                                *)
LEMMA TreeInitIInv ==
    ASSUME TreeInit
    PROVE  TreeIInv
<1>1. TreeTypeOK
  <2>1. \A h \in Watcher : events[h] \in Seq([type : {"addDir", "unlinkDir"}, dir : Dir])
    BY DEF TreeInit
  <2>2. queued \in Seq(Dir) /\ known \subseteq Dir
    BY TreeAssumption DEF TreeInit
  <2>3. roots \in [Watcher -> SUBSET Dir]
        /\ watching \in [Watcher -> {"unused", "scanning", "ready", "retiring"}]
    BY DEF TreeInit
  <2> QED
    BY <2>1, <2>2, <2>3 DEF TreeInit, TreeTypeOK
<1>2. Serving = {} /\ Owned = {}
  BY DEF TreeInit, Serving, Owned
<1>3. Listing(queued) /\ ToSet(queued) = known
  <2>1. CASE Root \in Ignored
    <3>1. queued = <<>> /\ known = {}
      BY <2>1 DEF TreeInit
    <3> QED
      BY <3>1 DEF Listing, ToSet
  <2>2. CASE Root \notin Ignored
    <3>1. queued = <<Root>> /\ known = {Root}
      BY <2>2 DEF TreeInit
    <3>2. <<Root>> \in Seq(Dir) /\ Len(<<Root>>) = 1 /\ DOMAIN <<Root>> = {1} /\ <<Root>>[1] = Root
      BY TreeAssumption
    <3>3. Listing(<<Root>>)
      BY <3>2 DEF Listing
    <3>4. ToSet(<<Root>>) = {Root}
      BY <3>2 DEF ToSet
    <3> QED
      BY <3>1, <3>3, <3>4
  <2> QED
    BY <2>1, <2>2
<1>4. Accounted
  BY <1>2, <1>3 DEF Accounted
<1>5. Awaited /\ Anchored
  BY <1>2 DEF TreeInit, Awaited, Anchored
<1> QED
  BY <1>1, <1>4, <1>5 DEF TreeIInv

(* The timer fires: the front of the queue gets a watcher.                  *)
LEMMA DrainStartsKeeps ==
    ASSUME TreeIInv, NEW h \in Watcher, DrainStarts(h)
    PROVE  TreeIInv'
<1>1. TreeTypeOK /\ Accounted /\ Anchored
  BY DEF TreeIInv
<1>2. /\ Listing(queued) /\ known \subseteq Dir
      /\ Owned \cap ToSet(queued) = {} /\ Owned \cup ToSet(queued) \subseteq known
      /\ ~partial => known = Owned \cup ToSet(queued)
      /\ \A g, i \in Serving : g # i => roots[g] \cap roots[i] = {}
  BY <1>1 DEF TreeTypeOK, Accounted
<1> DEFINE taken == ToSet(queued) \ ToSet(Remaining)
<1>3. /\ drainPhase' = "scan" /\ batch' = h /\ queued' = Remaining
      /\ anchor' = IF anchor = NoWatcher THEN h ELSE anchor
      /\ watching[h] = "unused" /\ watching' = [watching EXCEPT ![h] = "scanning"]
      /\ roots' = [roots EXCEPT ![h] = taken]
      /\ known' = known /\ partial' = partial /\ ~treeClosed /\ treeClosed' = treeClosed
  BY DEF DrainStarts
<1>4. Listing(Remaining) /\ ToSet(Remaining) \subseteq ToSet(queued)
  BY <1>2, RemainingListing
<1>5. taken \subseteq Dir /\ taken \cup ToSet(Remaining) = ToSet(queued)
  BY <1>2, <1>4
<1> HIDE DEF taken
<1>6. TreeTypeOK'
  <2>1. roots' \in [Watcher -> SUBSET Dir]
        /\ watching' \in [Watcher -> {"unused", "scanning", "ready", "retiring"}]
    BY <1>1, <1>3, <1>5 DEF TreeTypeOK
  <2>2. DOMAIN events' = Watcher
        /\ \A g \in Watcher : events'[g] \in Seq([type : {"addDir", "unlinkDir"}, dir : Dir])
    <3>1. events' = [events EXCEPT ![h] = <<>>]
      BY DEF DrainStarts
    <3>2. <<>> \in Seq([type : {"addDir", "unlinkDir"}, dir : Dir])
      OBVIOUS
    <3>3. DOMAIN events = Watcher
          /\ \A g \in Watcher : events[g] \in Seq([type : {"addDir", "unlinkDir"}, dir : Dir])
      BY <1>1 DEF TreeTypeOK
    <3>4. \A g \in Watcher : events'[g] = IF g = h THEN <<>> ELSE events[g]
      BY <3>1, <3>3
    <3> QED
      BY <3>1, <3>2, <3>3, <3>4, Zenon
  <2>3. asked' = asked /\ listed' = listed
    BY DEF DrainStarts
  <2> QED
    BY <1>1, <1>3, <1>4, <2>1, <2>2, <2>3 DEF TreeTypeOK, Listing
<1>7. Serving' = Serving \cup {h} /\ h \notin Serving /\ Serving \subseteq Watcher
  BY <1>1, <1>3 DEF Serving, TreeTypeOK
<1>8. roots'[h] = taken /\ \A g \in Serving : roots'[g] = roots[g]
  BY <1>1, <1>3, <1>7 DEF TreeTypeOK
<1>9. Owned' = Owned \cup taken
  BY <1>7, <1>8 DEF Owned
<1>10. \A g \in Serving : roots[g] \cap taken = {}
  BY <1>2, <1>5, OwnedBy
<1>11. \A g, i \in Serving' : g # i => roots'[g] \cap roots'[i] = {}
  BY <1>2, <1>7, <1>8, <1>10
<1>12. taken \cap ToSet(Remaining) = {}
  BY DEF taken
<1>13. Listing(queued)'
  BY <1>3, <1>4 DEF Listing
<1>14. Accounted'
  BY <1>2, <1>3, <1>5, <1>9, <1>11, <1>12, <1>13 DEF Accounted
<1>15. Awaited'
  BY <1>3 DEF Awaited
<1>16. Anchored'
  <2>1. CASE anchor = NoWatcher
    <3>1. queued \in {<<>>, <<Root>>}
      BY <1>1, <2>1 DEF Anchored
    <3>2. ToSet(queued) \subseteq {Root}
      BY <3>1 DEF ToSet
    <3>3. anchor' = h /\ roots'[anchor'] \subseteq {Root} /\ anchor' \in Serving'
      BY <1>3, <1>5, <1>7, <1>8, <2>1, <3>2
    <3>4. h # NoWatcher
      BY TreeAssumption
    <3> QED
      BY <1>3, <3>3, <3>4 DEF Anchored
  <2>2. CASE anchor # NoWatcher
    <3>1. anchor' = anchor /\ anchor \in Serving /\ roots[anchor] \subseteq {Root}
      BY <1>1, <1>3, <2>2 DEF Anchored
    <3> QED
      BY <1>3, <1>7, <1>8, <2>2, <3>1 DEF Anchored
  <2> QED
    BY <2>1, <2>2
<1> QED
  BY <1>6, <1>14, <1>15, <1>16 DEF TreeIInv

(* The timer finds nothing, or runtime.watch throws.                        *)
LEMMA DrainFailsKeeps ==
    ASSUME TreeIInv, DrainFindsNothing \/ WatchThrows
    PROVE  TreeIInv'
<1>1. TreeTypeOK /\ Accounted /\ Anchored
  BY DEF TreeIInv
<1>2. /\ UNCHANGED <<known, anchor, watching, roots, events, asked, listed, treeClosed>>
      /\ drainPhase' = "idle" /\ queued' = <<>>
      /\ partial' \in {partial, TRUE}
      /\ queued' = queued \/ partial' = TRUE
  BY DEF DrainFindsNothing, WatchThrows, DrainEnds, chokidarVars
<1>3. <<>> \in Seq(Dir) /\ Listing(<<>>) /\ ToSet(<<>>) = {}
  BY DEF Listing, ToSet
<1>4. TreeTypeOK'
  BY <1>1, <1>2, <1>3 DEF TreeTypeOK
<1>5. Serving' = Serving /\ Owned' = Owned
  BY <1>2 DEF Serving, Owned
<1>6. Listing(queued)'
  BY <1>2, <1>3 DEF Listing
<1>7. Accounted'
  <2>1. ToSet(queued') = {} /\ (~partial' => partial' = partial /\ queued' = queued)
    BY <1>2, <1>3
  <2>2. /\ Owned \cup ToSet(queued) \subseteq known
        /\ ~partial => known = Owned \cup ToSet(queued)
        /\ \A h, i \in Serving : h # i => roots[h] \cap roots[i] = {}
    BY <1>1 DEF Accounted
  <2>3. ~partial' => known' = Owned' \cup ToSet(queued')
    BY <1>2, <1>5, <2>1, <2>2
  <2> QED
    BY <1>2, <1>5, <1>6, <2>1, <2>2, <2>3 DEF Accounted
<1>8. Awaited' /\ Anchored'
  BY <1>1, <1>2, <1>5 DEF Awaited, Anchored
<1> QED
  BY <1>4, <1>7, <1>8 DEF TreeIInv

(* The batch was scanned and is listed, or there is nothing of it left; its *)
(* directories are read.                                                    *)
LEMMA BatchKeeps ==
    ASSUME TreeIInv, BatchReady \/ DrainCancelled \/ \E d \in Dir : DirectoryRead(d)
    PROVE  TreeIInv'
<1>1. TreeTypeOK /\ Accounted /\ Awaited /\ Anchored
  BY DEF TreeIInv
<1>2. /\ UNCHANGED <<known, queued, roots, partial, anchor, watching, events, treeClosed, batch>>
      /\ Serving' = Serving
  BY DEF BatchReady, DrainCancelled, DirectoryRead, chokidarVars, Serving
<1>3. CASE BatchReady
  <2>1. /\ drainPhase = "scan" /\ listed' = listed
        /\ asked' \in {asked, roots[batch]}
        /\ drainPhase' # "idle" \/ batchTimer' = (queued # <<>>)
    BY <1>3 DEF BatchReady, DrainEnds
  <2>2. batch \in Watcher /\ anchor # NoWatcher
    BY <1>1, <2>1 DEF Anchored
  <2>3. asked' \subseteq Dir
    BY <1>1, <2>1, <2>2 DEF TreeTypeOK
  <2>4. TreeTypeOK'
    BY <1>1, <1>2, <2>1, <2>3 DEF TreeTypeOK
  <2>5. Accounted' /\ Awaited' /\ Anchored'
    BY <1>2, <2>1, <2>2, QueueUntouched
  <2> QED
    BY <2>4, <2>5 DEF TreeIInv
<1>4. CASE DrainCancelled
  <2>1. /\ treeClosed /\ drainPhase' = "idle" /\ asked' = {} /\ listed' = {}
        /\ batchTimer' = batchTimer
    BY <1>4 DEF DrainCancelled
  <2>2. queued = <<>>
    BY <1>1, <2>1 DEF Anchored
  <2>3. TreeTypeOK'
    BY <1>1, <1>2, <2>1 DEF TreeTypeOK
  <2>4. Accounted' /\ Awaited' /\ Anchored'
    BY <1>2, <2>1, <2>2, QueueUntouched
  <2> QED
    BY <2>3, <2>4 DEF TreeIInv
<1>5. ASSUME NEW d \in Dir, DirectoryRead(d) PROVE TreeIInv'
  <2>1. PICK l : l.dir = d /\ l.children \subseteq Dir /\ listed' = listed \cup {l}
    <3>1. PICK readable \in BOOLEAN :
             listed' = listed \cup {[dir |-> d, found |-> Exists(d) /\ readable,
                                     children |-> {c \in Children(d) : Exists(c)}]}
      BY <1>5 DEF DirectoryRead
    <3> DEFINE l == [dir |-> d, found |-> Exists(d) /\ readable,
                     children |-> {c \in Children(d) : Exists(c)}]
    <3>2. {c \in Children(d) : Exists(c)} \subseteq Dir
      BY TreeAssumption DEF Children
    <3>3. l.dir = d /\ l.children \subseteq Dir
      BY <3>2
    <3> HIDE DEF l
    <3>4. listed' = listed \cup {l}
      BY <3>1 DEF l
    <3> QED
      BY <3>3, <3>4
  <2>2. asked' \subseteq asked /\ UNCHANGED <<drainPhase, batchTimer>>
    BY <1>5 DEF DirectoryRead
  <2>3. TreeTypeOK'
    BY <1>1, <1>2, <2>1, <2>2 DEF TreeTypeOK
  <2>4. Accounted' /\ Awaited' /\ Anchored'
    BY <1>1, <1>2, <2>2, QueueUntouched DEF Anchored
  <2> QED
    BY <2>3, <2>4 DEF TreeIInv
<1> QED
  BY <1>3, <1>4, <1>5

(* An answer arrives: children join the queue, or a subtree is forgotten.   *)
LEMMA ListingKeeps ==
    ASSUME TreeIInv, NEW l \in listed, ListingArrives(l)
    PROVE  TreeIInv'
<1>1. TreeTypeOK /\ Accounted /\ Awaited /\ Anchored
  BY DEF TreeIInv
<1>2. /\ drainPhase = "list" /\ ~treeClosed /\ treeClosed' = treeClosed
      /\ listed' = listed \ {l}
      /\ UNCHANGED <<batch, asked, anchor, partial, events>>
  BY DEF ListingArrives, chokidarVars
<1>3. l.dir \in Dir /\ l.children \subseteq Dir /\ batch \in Watcher /\ anchor # NoWatcher
  BY <1>1, <1>2 DEF TreeTypeOK, Anchored
<1>4. Awaited' /\ drainPhase' \in {"idle", "list"}
  <2>1. \/ drainPhase' = "idle" /\ batchTimer' = (queued' # <<>>)
        \/ drainPhase' = drainPhase
    BY DEF ListingArrives, DrainEnds
  <2> QED
    BY <1>2, <2>1 DEF Awaited
<1>5. \/ UNCHANGED <<known, queued, roots, watching>>
      \/ Admit(l.children) /\ UNCHANGED <<roots, watching>>
      \/ Invalidate(l.dir)
  BY DEF ListingArrives
<1>6. CASE UNCHANGED <<known, queued, roots, watching>>
  <2>1. Serving' = Serving /\ Owned' = Owned
    BY <1>6 DEF Serving, Owned
  <2>2. Accounted' /\ Anchored'
    BY <1>1, <1>2, <1>3, <1>6, <2>1 DEF Accounted, Listing, Anchored
  <2>3. TreeTypeOK'
    BY <1>1, <1>2, <1>6 DEF TreeTypeOK
  <2> QED
    BY <1>4, <2>2, <2>3 DEF TreeIInv
<1>7. CASE Admit(l.children) /\ UNCHANGED <<roots, watching>>
  <2>1. Accounted' /\ known' \subseteq Dir /\ queued' \in Seq(Dir)
    BY <1>1, <1>2, <1>3, <1>7, AdmitKeeps
  <2>2. Serving' = Serving
    BY <1>7 DEF Serving
  <2>3. Anchored'
    BY <1>1, <1>2, <1>3, <1>7, <2>2 DEF Anchored
  <2>4. TreeTypeOK'
    BY <1>1, <1>2, <1>7, <2>1 DEF TreeTypeOK
  <2> QED
    BY <1>4, <2>1, <2>3, <2>4 DEF TreeIInv
<1>8. CASE Invalidate(l.dir)
  <2>1. /\ Accounted' /\ known' \subseteq Dir /\ queued' \in Seq(Dir)
        /\ roots' \in [Watcher -> SUBSET Dir]
        /\ watching' \in [Watcher -> {"unused", "scanning", "ready", "retiring"}]
        /\ roots'[anchor] \subseteq {Root}
        /\ ~treeClosed => anchor \in Serving'
    BY <1>1, <1>2, <1>3, <1>8, InvalidateKeeps
  <2>2. Anchored'
    BY <1>2, <1>3, <2>1 DEF Anchored
  <2>3. TreeTypeOK'
    BY <1>1, <1>2, <2>1 DEF TreeTypeOK
  <2> QED
    BY <1>4, <2>1, <2>2, <2>3 DEF TreeIInv
<1> QED
  BY <1>5, <1>6, <1>7, <1>8

(* The tree is closed.                                                      *)
LEMMA TreeCloseKeeps ==
    ASSUME TreeIInv, TreeClose
    PROVE  TreeIInv'
<1>1. TreeTypeOK /\ Anchored
  BY DEF TreeIInv
<1>2. /\ treeClosed' = TRUE /\ queued' = <<>> /\ known' = {}
      /\ watching' = [h \in Watcher |-> IF h \in Serving THEN "retiring" ELSE watching[h]]
      /\ UNCHANGED <<anchor, asked, listed, drainPhase, batch, partial, roots, events>>
  BY DEF TreeClose, ClosesAll, drainVars, chokidarVars
<1>3. <<>> \in Seq(Dir) /\ Listing(<<>>) /\ ToSet(<<>>) = {}
  BY DEF Listing, ToSet
<1>4. TreeTypeOK'
  BY <1>1, <1>2, <1>3 DEF TreeTypeOK
<1>5. Serving' = {} /\ Owned' = {}
  BY <1>2 DEF Serving, Owned
<1>6. Listing(queued)' /\ ToSet(queued') = {}
  BY <1>2, <1>3 DEF Listing
<1>7. Accounted'
  BY <1>2, <1>5, <1>6 DEF Accounted
<1>8. Awaited' /\ Anchored'
  BY <1>1, <1>2, <1>5 DEF Awaited, Anchored
<1> QED
  BY <1>4, <1>7, <1>8 DEF TreeIInv

(* What chokidar does but for the directories it shows to "ignored".        *)
LEMMA WatcherKeeps ==
    ASSUME TreeIInv, NEW h \in Watcher, WatcherCloses(h) \/ WatcherReady(h)
    PROVE  TreeIInv'
<1>1. TreeTypeOK /\ Anchored
  BY DEF TreeIInv
<1>2. /\ UNCHANGED <<known, queued, roots, partial, anchor, treeClosed, asked, listed, batchTimer,
                     drainPhase, batch>>
      /\ \/ watching[h] = "retiring" /\ watching' = [watching EXCEPT ![h] = "unused"]
            /\ events' = [events EXCEPT ![h] = <<>>]
         \/ watching[h] = "scanning" /\ watching' = [watching EXCEPT ![h] = "ready"]
            /\ events' = events
  BY DEF WatcherCloses, WatcherReady, drainVars, chokidarVars
<1>3. Serving' = Serving
  BY <1>1, <1>2 DEF Serving, TreeTypeOK
<1>4. TreeTypeOK'
  <2>1. watching' \in [Watcher -> {"unused", "scanning", "ready", "retiring"}]
    BY <1>1, <1>2 DEF TreeTypeOK
  <2>2. DOMAIN events = Watcher
        /\ \A g \in Watcher : events[g] \in Seq([type : {"addDir", "unlinkDir"}, dir : Dir])
    BY <1>1 DEF TreeTypeOK
  <2>3. DOMAIN events' = Watcher
        /\ \A g \in Watcher : events'[g] = IF g = h THEN events'[h] ELSE events[g]
    BY <1>2, <2>2
  <2>4. <<>> \in Seq([type : {"addDir", "unlinkDir"}, dir : Dir])
    OBVIOUS
  <2>5. events'[h] \in {<<>>, events[h]}
    BY <1>2, <2>2
  <2>6. \A g \in Watcher : events'[g] \in Seq([type : {"addDir", "unlinkDir"}, dir : Dir])
    BY <2>2, <2>3, <2>4, <2>5, Zenon
  <2> QED
    BY <1>1, <1>2, <2>1, <2>3, <2>6 DEF TreeTypeOK
<1>5. Accounted' /\ Awaited' /\ Anchored'
  BY <1>1, <1>2, <1>3, QueueUntouched DEF Anchored
<1> QED
  BY <1>4, <1>5 DEF TreeIInv
(* One more event on the way, or one less, leaves events.                   *)
LEMMA EventsKept ==
    ASSUME TreeTypeOK, NEW g \in Watcher, NEW e \in [type : {"addDir", "unlinkDir"}, dir : Dir]
    PROVE  /\ Append(events[g], e) \in Seq([type : {"addDir", "unlinkDir"}, dir : Dir])
           /\ events[g] # <<>> =>
                 /\ Head(events[g]) \in [type : {"addDir", "unlinkDir"}, dir : Dir]
                 /\ Tail(events[g]) \in Seq([type : {"addDir", "unlinkDir"}, dir : Dir])
<1> DEFINE E == [type : {"addDir", "unlinkDir"}, dir : Dir]
           q == events[g]
<1>1. q \in Seq(E)
  BY DEF TreeTypeOK
<1> HIDE DEF E, q
<1>2. Append(q, e) \in Seq(E)
  BY <1>1, AppendProperties DEF E
<1>3. q # <<>> => Head(q) \in E /\ Tail(q) \in Seq(E)
  BY <1>1, HeadTailProperties
<1> QED
  BY <1>2, <1>3 DEF E, q

(* A watcher that serves scans a path and shows "ignored" what lies in it.  *)
LEMMA PathScannedKeeps ==
    ASSUME TreeIInv, NEW h \in Watcher, NEW d \in Dir, PathScanned(h, d)
    PROVE  TreeIInv'
<1> DEFINE dirs == {c \in Children(d) \ roots[h] : Exists(c)}
           e == [type |-> "addDir", dir |-> d]
<1>1. TreeTypeOK /\ Accounted /\ Awaited /\ Anchored
  BY DEF TreeIInv
<1>2. /\ h \in Serving /\ Admit(dirs) /\ ScheduleDrain(New(dirs) # {})
      /\ events' \in {events, [events EXCEPT ![h] = Append(@, e)]}
      /\ UNCHANGED <<drainPhase, batch, asked, listed, anchor, treeClosed, partial, watching, roots>>
  BY DEF PathScanned, drainVars
<1>3. dirs \in SUBSET Dir
  BY TreeAssumption DEF Children
<1> HIDE DEF dirs
<1>4. /\ Accounted' /\ known' \subseteq Dir /\ queued' \in Seq(Dir)
      /\ New(dirs) = {} => queued' = queued
  BY <1>1, <1>2, <1>3, AdmitKeeps
<1>5. DOMAIN events' = Watcher
      /\ \A g \in Watcher : events'[g] \in Seq([type : {"addDir", "unlinkDir"}, dir : Dir])
  <2>1. DOMAIN events = Watcher
        /\ \A g \in Watcher : events[g] \in Seq([type : {"addDir", "unlinkDir"}, dir : Dir])
    BY <1>1 DEF TreeTypeOK
  <2>2. Append(events[h], e) \in Seq([type : {"addDir", "unlinkDir"}, dir : Dir])
    <3>1. e \in [type : {"addDir", "unlinkDir"}, dir : Dir]
      OBVIOUS
    <3> QED
      BY <1>1, <3>1, EventsKept
  <2> HIDE DEF e
  <2>3. DOMAIN events' = Watcher
        /\ \A g \in Watcher : events'[g] \in {events[g], IF g = h THEN Append(events[h], e)
                                                           ELSE events[g]}
    BY <1>2, <2>1
  <2> QED
    BY <2>1, <2>2, <2>3, Zenon
<1>6. TreeTypeOK'
  BY <1>1, <1>2, <1>4, <1>5 DEF TreeTypeOK
<1>7. Awaited'
  BY <1>1, <1>2, <1>4 DEF Awaited, ScheduleDrain
<1>8. anchor # NoWatcher /\ ~treeClosed /\ Serving' = Serving
  BY <1>1, <1>2 DEF Anchored, Serving
<1>9. Anchored'
  BY <1>1, <1>2, <1>8 DEF Anchored
<1> QED
  BY <1>4, <1>6, <1>7, <1>9 DEF TreeIInv

(* An event arrives: too late, of a new directory, or of one that is gone.  *)
LEMMA EventArrivesKeeps ==
    ASSUME TreeIInv, NEW h \in Watcher, EventArrives(h)
    PROVE  TreeIInv'
<1> DEFINE e == Head(events[h])
<1>1. TreeTypeOK /\ Accounted /\ Awaited /\ Anchored
  BY DEF TreeIInv
<1>2. /\ events[h] # <<>> /\ events' = [events EXCEPT ![h] = Tail(@)]
      /\ UNCHANGED <<drainPhase, batch, asked, listed, anchor, treeClosed, partial>>
      /\ \/ UNCHANGED <<known, queued, batchTimer, roots, watching>>
         \/ /\ ~treeClosed /\ h \in Serving /\ Admit({e.dir}) /\ ScheduleDrain(New({e.dir}) # {})
            /\ UNCHANGED <<roots, watching>>
         \/ /\ ~treeClosed /\ h \in Serving /\ Invalidate(e.dir)
            /\ ScheduleDrain(Orphans(e.dir) # {})
  BY DEF EventArrives, drainVars
<1>3. e.dir \in Dir /\ Tail(events[h]) \in Seq([type : {"addDir", "unlinkDir"}, dir : Dir])
  <2>1. \A x \in [type : {"addDir", "unlinkDir"}, dir : Dir] : x.dir \in Dir
    OBVIOUS
  <2>2. PICK x : x \in [type : {"addDir", "unlinkDir"}, dir : Dir]
    <3>1. [type |-> "addDir", dir |-> Root] \in [type : {"addDir", "unlinkDir"}, dir : Dir]
      BY TreeAssumption
    <3> QED
      BY <3>1
  <2> QED
    BY <1>1, <1>2, <2>1, <2>2, EventsKept
<1> HIDE DEF e
<1>4. DOMAIN events' = Watcher
      /\ \A g \in Watcher : events'[g] \in Seq([type : {"addDir", "unlinkDir"}, dir : Dir])
  <2>1. DOMAIN events = Watcher
        /\ \A g \in Watcher : events[g] \in Seq([type : {"addDir", "unlinkDir"}, dir : Dir])
    BY <1>1 DEF TreeTypeOK
  <2>2. DOMAIN events' = Watcher
        /\ \A g \in Watcher : events'[g] = IF g = h THEN Tail(events[h]) ELSE events[g]
    BY <1>2, <2>1
  <2> QED
    BY <1>3, <2>1, <2>2, Zenon
<1>5. CASE UNCHANGED <<known, queued, batchTimer, roots, watching>>
  <2>1. Serving' = Serving
    BY <1>5 DEF Serving
  <2>2. Accounted' /\ Awaited' /\ Anchored'
    BY <1>1, <1>2, <1>5, <2>1, QueueUntouched DEF Anchored
  <2>3. TreeTypeOK'
    BY <1>1, <1>2, <1>4, <1>5 DEF TreeTypeOK
  <2> QED
    BY <2>2, <2>3 DEF TreeIInv
<1>6. CASE /\ ~treeClosed /\ h \in Serving /\ Admit({e.dir}) /\ ScheduleDrain(New({e.dir}) # {})
           /\ UNCHANGED <<roots, watching>>
  <2>1. /\ Accounted' /\ known' \subseteq Dir /\ queued' \in Seq(Dir)
        /\ New({e.dir}) = {} => queued' = queued
    BY <1>1, <1>2, <1>3, <1>6, AdmitKeeps
  <2>2. TreeTypeOK'
    BY <1>1, <1>2, <1>4, <1>6, <2>1 DEF TreeTypeOK
  <2>3. Awaited'
    BY <1>1, <1>2, <1>6, <2>1 DEF Awaited, ScheduleDrain
  <2>4. anchor # NoWatcher /\ Serving' = Serving
    BY <1>1, <1>6 DEF Anchored, Serving
  <2>5. Anchored'
    BY <1>1, <1>2, <1>6, <2>4 DEF Anchored
  <2> QED
    BY <2>1, <2>2, <2>3, <2>5 DEF TreeIInv
<1>7. CASE /\ ~treeClosed /\ h \in Serving /\ Invalidate(e.dir)
           /\ ScheduleDrain(Orphans(e.dir) # {})
  <2>1. anchor # NoWatcher
    BY <1>1, <1>7 DEF Anchored
  <2>2. /\ Accounted' /\ known' \subseteq Dir /\ queued' \in Seq(Dir)
        /\ Orphans(e.dir) = {} /\ queued = <<>> => queued' = <<>>
        /\ roots' \in [Watcher -> SUBSET Dir]
        /\ watching' \in [Watcher -> {"unused", "scanning", "ready", "retiring"}]
        /\ roots'[anchor] \subseteq {Root}
        /\ ~treeClosed => anchor \in Serving'
    BY <1>1, <1>2, <1>3, <1>7, <2>1, InvalidateKeeps
  <2>3. TreeTypeOK'
    BY <1>1, <1>2, <1>4, <2>2 DEF TreeTypeOK
  <2>4. Awaited'
    BY <1>1, <1>2, <1>7, <2>2 DEF Awaited, ScheduleDrain
  <2>5. Anchored'
    BY <1>1, <1>2, <1>7, <2>1, <2>2 DEF Anchored
  <2> QED
    BY <2>2, <2>3, <2>4, <2>5 DEF TreeIInv
<1> QED
  BY <1>2, <1>5, <1>6, <1>7

(* A directory is made or removed: chokidar has more to report.             *)
LEMMA FileSystemKeeps ==
    ASSUME TreeIInv, NEW d \in Dir, DirectoryMade(d) \/ DirectoryRemoved(d)
    PROVE  TreeIInv'
<1>1. TreeTypeOK /\ Anchored
  BY DEF TreeIInv
<1>2. UNCHANGED <<known, queued, batchTimer, drainPhase, batch, asked, listed, anchor, treeClosed,
                  partial, watching, roots>>
  BY DEF DirectoryMade, DirectoryRemoved, drainVars
<1>3. DOMAIN events' = Watcher
      /\ \A g \in Watcher : events'[g] \in Seq([type : {"addDir", "unlinkDir"}, dir : Dir])
  <2>1. \A g \in Watcher : events[g] \in Seq([type : {"addDir", "unlinkDir"}, dir : Dir])
    BY <1>1 DEF TreeTypeOK
  <2>2. \A e \in [type : {"addDir", "unlinkDir"}, dir : Dir], g \in Watcher :
           Append(events[g], e) \in Seq([type : {"addDir", "unlinkDir"}, dir : Dir])
    BY <1>1, EventsKept
  <2>3. [type |-> "addDir", dir |-> d] \in [type : {"addDir", "unlinkDir"}, dir : Dir]
        /\ [type |-> "unlinkDir", dir |-> d] \in [type : {"addDir", "unlinkDir"}, dir : Dir]
    OBVIOUS
  <2>4. DOMAIN events' = Watcher
        /\ \A g \in Watcher :
              \/ events'[g] = events[g]
              \/ events'[g] = Append(events[g], [type |-> "addDir", dir |-> d])
              \/ events'[g] = Append(events[g], [type |-> "unlinkDir", dir |-> d])
    BY DEF DirectoryMade, DirectoryRemoved
  <2> QED
    BY <2>1, <2>2, <2>3, <2>4, Zenon
<1>4. TreeTypeOK'
  BY <1>1, <1>2, <1>3 DEF TreeTypeOK
<1>5. Serving' = Serving
  BY <1>2 DEF Serving
<1>6. Accounted' /\ Awaited' /\ Anchored'
  BY <1>1, <1>2, <1>5, QueueUntouched DEF Anchored
<1> QED
  BY <1>4, <1>6 DEF TreeIInv

(* Every step of the tree.                                                  *)
LEMMA TreeInvariance ==
    ASSUME TreeIInv, [TreeNext]_treeVars
    PROVE  TreeIInv'
<1>1. CASE TreeProgress
  BY <1>1, DrainStartsKeeps, DrainFailsKeeps, BatchKeeps, ListingKeeps, WatcherKeeps,
     PathScannedKeeps, EventArrivesKeeps DEF TreeProgress
<1>2. CASE TreeClose
  BY <1>2, TreeCloseKeeps
<1>3. CASE \E d \in Dir : DirectoryMade(d) \/ DirectoryRemoved(d)
  BY <1>3, FileSystemKeeps
<1>4. CASE UNCHANGED treeVars
  <2>1. UNCHANGED <<known, queued, batchTimer, drainPhase, batch, asked, listed, anchor,
                    treeClosed, partial, watching, roots, events>>
    BY <1>4 DEF treeVars, drainVars, chokidarVars
  <2>2. Serving' = Serving
    BY <2>1 DEF Serving
  <2>3. Accounted' /\ Awaited' /\ Anchored'
    BY <2>1, <2>2, QueueUntouched DEF TreeIInv, Anchored
  <2>4. TreeTypeOK'
    BY <2>1 DEF TreeIInv, TreeTypeOK
  <2> QED
    BY <2>3, <2>4 DEF TreeIInv
<1> QED
  BY <1>1, <1>2, <1>3, <1>4 DEF TreeNext

(* The invariant of the portable tree: the queue names every directory      *)
(* once, what is queued or owned is so once and is known, and the anchor    *)
(* serves, without a directory below the root, until the tree is closed.    *)
THEOREM TreeInvariant == TreeSpec => []TreeIInv
<1>1. TreeInit => TreeIInv
  BY TreeInitIInv
<1>2. TreeIInv /\ [TreeNext]_treeVars => TreeIInv'
  BY TreeInvariance
<1> QED
  BY <1>1, <1>2, PTL DEF TreeSpec

(* No directory falls between the queue and the watchers and no wake-up is  *)
(* lost, whatever the tree, the batch size and the number of changes        *)
(* (enqueue, invalidate, drain).                                            *)
THEOREM TreeTracked == TreeSpec => []DirectoriesTracked
<1>1. TreeIInv => DirectoriesTracked
  <2> SUFFICES ASSUME TreeIInv, ~treeClosed, ~partial
               PROVE  /\ queued # <<>> => batchTimer \/ drainPhase # "idle"
                      /\ known = Owned \cup ToSet(queued)
                      /\ Len(queued) = Cardinality(ToSet(queued) \ Owned)
                      /\ \A h, i \in Serving : h # i => roots[h] \cap roots[i] = {}
    BY DEF DirectoriesTracked, Owned
  <2>1. Accounted /\ Awaited
    BY DEF TreeIInv
  <2>2. ToSet(queued) \ Owned = ToSet(queued)
    BY <2>1 DEF Accounted
  <2>3. Cardinality(ToSet(queued)) = Len(queued)
    BY <2>1, DistinctLength DEF Accounted, Listing, ToSet
  <2> QED
    BY <2>1, <2>2, <2>3 DEF Accounted, Awaited
<1> QED
  BY <1>1, TreeInvariant, PTL

-----------------------------------------------------------------------------
(***************************************************************************)
(* The controller.  The invariants that are checked are not inductive on   *)
(* their own; the parts below say what they rest on.                       *)
(***************************************************************************)

(* TypeOK in two halves, one for each prover. *)
ControlType ==
    /\ phase \in {"idle", "debouncing", "checking", "refreshing", "closed"}
    /\ dirty \in BOOLEAN
    /\ degraded \in BOOLEAN
    /\ sourceStatus \in {"none", "starting", "ready", "closed"}
    /\ handle \in {"absent", "creating", "held", "released"}

(* The other half.                                                          *)
NumberType ==
    /\ applied \in 0..MaxEdits \cup {NoSignature}
    /\ remainingReady \in 0..Targets
    /\ timer \in 0..Never
    /\ startupDeadline \in 0..Never
    /\ quietDeadline \in 0..Never
    /\ maximumDeadline \in 0..Never
    /\ safetyDeadline \in 0..Never
    /\ signatures \in Nat
    /\ refreshes \in Nat
    /\ since \in 0..MaxEdits
    /\ candidate \in 0..MaxEdits \cup {NoSignature}
    /\ disk \in 0..MaxEdits
    /\ shown \in 0..MaxEdits
    /\ hintAge \in Nat \cup {NoHint}

(* What the review shows and what a reload in progress may read. *)
Versions ==
    /\ applied <= shown
    /\ shown <= disk
    /\ since <= disk
    /\ refreshes > 0 => shown <= since /\ candidate <= since

(* The debounce deadlines are set exactly while hints are debounced, and   *)
(* the safety check is due some day whenever no check runs.                *)
Deadlines ==
    /\ phase # "debouncing" => quietDeadline = Never /\ maximumDeadline = Never
    /\ phase = "debouncing" => maximumDeadline <= maximumDelay
    /\ phase \in {"idle", "debouncing"} => safetyDeadline < Never

(* The deadline every unserved hint waits for; only a stalled source that  *)
(* was given up leaves one to the safety check.                            *)
Hints ==
    /\ phase \in {"checking", "refreshing"} /\ hintAge # NoHint => dirty
    /\ phase = "debouncing" => hintAge # NoHint /\ hintAge + maximumDeadline <= maximumDelay
    /\ phase = "idle" /\ hintAge # NoHint =>
          /\ handle # "creating"
          /\ sourceStatus = "closed"
          /\ hintAge + safetyDeadline <= LongestWait

(* A source that is being created was asked for. *)
Creating == handle = "creating" => sourceStatus # "none"

(* The inductive invariant. *)
IInv ==
    /\ ControlType
    /\ NumberType
    /\ TimerArmed
    /\ Serialized
    /\ SourceReleased
    /\ Versions
    /\ Deadlines
    /\ Hints
    /\ Creating

(* The facts the steps below share: the constants are numbers and Never is *)
(* beyond every delay.                                                     *)
LEMMA NeverFacts ==
    /\ Never \in Nat
    /\ quietDelay < Never /\ maximumDelay < Never /\ healthyCheck < Never
    /\ degradedCheck < Never /\ startupTimeout < Never
    /\ quietDelay \in Nat /\ maximumDelay \in Nat /\ healthyCheck \in Nat
    /\ degradedCheck \in Nat /\ startupTimeout \in Nat
    /\ LongestWait = maximumDelay + degradedCheck
  BY DelaysAssumption DEF Never, LongestWait

USE NeverFacts, TargetsAssumption, EditsAssumption
USE DEF NoSignature, NoHint, Earliest, Lesser, Created, vars, watchVars, sourceVars, delayVars,
        promiseVars, inputVars

(* The invariant holds when the controller has just been set up. *)
LEMMA InitIInv == Init => IInv
  <1> SUFFICES ASSUME Init PROVE IInv
    OBVIOUS
  <1>1. /\ disk \in 0..MaxEdits /\ shown \in 0..MaxEdits /\ since = disk /\ shown <= disk
        /\ applied \in 0..MaxEdits \cup {NoSignature} /\ applied <= shown
    BY DEF Init
  <1>2. degraded \in BOOLEAN /\ dirty \in BOOLEAN
    BY DEF Init
  <1>3. ControlType /\ NumberType
    BY <1>1, <1>2 DEF Init, ControlType, NumberType
  <1>4. Versions /\ Hints /\ Deadlines /\ Serialized
    BY <1>1 DEF Init, Versions, Hints, Deadlines, Serialized
  <1>5. SourceReleased /\ Creating
    BY DEF Init, SourceReleased, Creating
  <1>6. TimerArmed
    BY DEF Init, TimerArmed
  <1> QED
    BY <1>3, <1>4, <1>5, <1>6 DEF IInv

(* The creation of the observer returns. *)
LEMMA CreateReturnsKeeps ==
    ASSUME IInv, CreateReturns
    PROVE  IInv'
  <1> USE DEF IInv, CreateReturns, Schedule, InFlight
  <1>1. ControlType'
    BY DEF ControlType
  <1>2. NumberType'
    BY DEF NumberType
  <1>3. TimerArmed'
    BY DEF ControlType, NumberType, TimerArmed, Serialized, Deadlines
  <1>4. Serialized'
    BY DEF NumberType, TimerArmed, Serialized
  <1>5. SourceReleased'
    BY DEF ControlType, SourceReleased, Creating
  <1>6. Versions'
    BY DEF NumberType, Serialized, Versions
  <1>7. Deadlines'
    BY DEF ControlType, NumberType, Serialized, Deadlines
  <1>8. Hints'
    BY DEF ControlType, NumberType, TimerArmed, Serialized, SourceReleased, Deadlines,
           Hints
  <1>9. Creating'
    BY DEF Creating
  <1> QED
    BY <1>1, <1>2, <1>3, <1>4, <1>5, <1>6, <1>7, <1>8, <1>9

(* The creation of the observer throws. *)
LEMMA CreateThrowsKeeps ==
    ASSUME IInv, CreateThrows
    PROVE  IInv'
  <1> USE DEF IInv, CreateThrows, Schedule, InFlight
  <1>1. ControlType'
    BY DEF ControlType
  <1>2. NumberType'
    BY DEF NumberType
  <1>3. TimerArmed'
    BY DEF ControlType, NumberType, TimerArmed, Serialized, Deadlines
  <1>4. Serialized'
    BY DEF NumberType, TimerArmed, Serialized
  <1>5. SourceReleased'
    BY DEF ControlType, SourceReleased, Creating
  <1>6. Versions'
    BY DEF NumberType, Serialized, Versions
  <1>7. Deadlines'
    BY DEF ControlType, NumberType, Serialized, Deadlines
  <1>8. Hints'
    BY DEF ControlType, NumberType, TimerArmed, Serialized, SourceReleased, Deadlines,
           Hints
  <1>9. Creating'
    BY DEF Creating
  <1> QED
    BY <1>1, <1>2, <1>3, <1>4, <1>5, <1>6, <1>7, <1>8, <1>9

(* A hint arrives. *)
LEMMA OnEventKeeps ==
    ASSUME IInv, OnEvent
    PROVE  IInv'
  <1> USE DEF IInv, OnEvent, MaximumFrom, Observing, Schedule, InFlight
  <1>1. ControlType'
    BY DEF ControlType
  <1>2. NumberType'
    BY DEF NumberType
  <1>3. TimerArmed'
    BY DEF ControlType, NumberType, TimerArmed, Serialized, Deadlines
  <1>4. Serialized'
    BY DEF NumberType, TimerArmed, Serialized
  <1>5. SourceReleased'
    BY DEF ControlType, SourceReleased, Creating
  <1>6. Versions'
    BY DEF NumberType, Serialized, Versions
  <1>7. Deadlines'
    BY DEF ControlType, NumberType, Serialized, Deadlines
  <1>8. Hints'
    BY DEF ControlType, NumberType, TimerArmed, Serialized, SourceReleased, Deadlines,
           Hints
  <1>9. Creating'
    BY DEF Creating
  <1> QED
    BY <1>1, <1>2, <1>3, <1>4, <1>5, <1>6, <1>7, <1>8, <1>9

(* The last target is ready. *)
LEMMA OnSourceReadyKeeps ==
    ASSUME IInv, OnSourceReady
    PROVE  IInv'
  <1> USE DEF IInv, OnSourceReady, Observing, BeginCheck, InFlight
  <1>1. ControlType'
    BY DEF ControlType
  <1>2. NumberType'
    BY DEF NumberType
  <1>3. TimerArmed'
    BY DEF ControlType, NumberType, TimerArmed, Serialized, Deadlines
  <1>4. Serialized'
    BY DEF NumberType, TimerArmed, Serialized
  <1>5. SourceReleased'
    BY DEF ControlType, SourceReleased, Creating
  <1>6. Versions'
    BY DEF NumberType, Serialized, Versions
  <1>7. Deadlines'
    BY DEF ControlType, NumberType, Serialized, Deadlines
  <1>8. Hints'
    BY DEF ControlType, NumberType, TimerArmed, Serialized, SourceReleased, Deadlines,
           Hints
  <1>9. Creating'
    BY DEF Creating
  <1> QED
    BY <1>1, <1>2, <1>3, <1>4, <1>5, <1>6, <1>7, <1>8, <1>9

(* The observer reports progress. *)
LEMMA OnSourceProgressKeeps ==
    ASSUME IInv, OnSourceProgress
    PROVE  IInv'
  <1> USE DEF IInv, OnSourceProgress, Observing, Schedule, InFlight
  <1>1. ControlType'
    BY DEF ControlType
  <1>2. NumberType'
    BY DEF NumberType
  <1>3. TimerArmed'
    BY DEF ControlType, NumberType, TimerArmed, Serialized, Deadlines
  <1>4. Serialized'
    BY DEF NumberType, TimerArmed, Serialized
  <1>5. SourceReleased'
    BY DEF ControlType, SourceReleased, Creating
  <1>6. Versions'
    BY DEF NumberType, Serialized, Versions
  <1>7. Deadlines'
    BY DEF ControlType, NumberType, Serialized, Deadlines
  <1>8. Hints'
    BY DEF ControlType, NumberType, TimerArmed, Serialized, SourceReleased, Deadlines,
           Hints
  <1>9. Creating'
    BY DEF Creating
  <1> QED
    BY <1>1, <1>2, <1>3, <1>4, <1>5, <1>6, <1>7, <1>8, <1>9

(* The observer runs out of resources. *)
LEMMA OnSourceErrorKeeps ==
    ASSUME IInv, OnSourceError
    PROVE  IInv'
  <1> USE DEF IInv, OnSourceError, CloseEventSource, Observing, Schedule, InFlight
  <1>1. ControlType'
    BY DEF ControlType
  <1>2. NumberType'
    BY DEF NumberType
  <1>3. TimerArmed'
    BY DEF ControlType, NumberType, TimerArmed, Serialized, Deadlines
  <1>4. Serialized'
    BY DEF NumberType, TimerArmed, Serialized
  <1>5. SourceReleased'
    BY DEF ControlType, SourceReleased, Creating
  <1>6. Versions'
    BY DEF NumberType, Serialized, Versions
  <1>7. Deadlines'
    BY DEF ControlType, NumberType, Serialized, Deadlines
  <1>8. Hints'
    BY DEF ControlType, NumberType, TimerArmed, Serialized, SourceReleased, Deadlines,
           Hints
  <1>9. Creating'
    BY DEF Creating
  <1> QED
    BY <1>1, <1>2, <1>3, <1>4, <1>5, <1>6, <1>7, <1>8, <1>9

(* The timeout fires. *)
LEMMA OnTimerKeeps ==
    ASSUME IInv, OnTimer
    PROVE  IInv'
  <1> USE DEF IInv, OnTimer, DegradeStalledSource, CloseEventSource, BeginCheck,
              Schedule, InFlight
  <1>1. ControlType'
    BY DEF ControlType
  <1>2. NumberType'
    BY DEF NumberType
  <1>3. TimerArmed'
    BY DEF ControlType, NumberType, TimerArmed, Serialized, Deadlines
  <1>4. Serialized'
    BY DEF NumberType, TimerArmed, Serialized
  <1>5. SourceReleased'
    BY DEF ControlType, SourceReleased, Creating
  <1>6. Versions'
    BY DEF NumberType, Serialized, Versions
  <1>7. Deadlines'
    BY DEF ControlType, NumberType, Serialized, Deadlines
  <1>8. Hints'
    BY DEF ControlType, NumberType, TimerArmed, Serialized, SourceReleased, Deadlines,
           Hints
  <1>9. Creating'
    BY DEF Creating
  <1> QED
    BY <1>1, <1>2, <1>3, <1>4, <1>5, <1>6, <1>7, <1>8, <1>9

(* A signature arrives. *)
LEMMA SignatureResolvesKeeps ==
    ASSUME NEW v \in 0..MaxEdits, IInv, SignatureResolves(v)
    PROVE  IInv'
  <1> USE DEF IInv, SignatureResolves, FinishCheck, BeginCheck, SafetyInterval,
              Schedule, InFlight
  <1>1. ControlType'
    BY DEF ControlType
  <1>2. NumberType'
    BY DEF NumberType
  <1>3. TimerArmed'
    BY DEF ControlType, NumberType, TimerArmed, Serialized, Deadlines
  <1>4. Serialized'
    BY DEF NumberType, TimerArmed, Serialized
  <1>5. SourceReleased'
    BY DEF ControlType, SourceReleased, Creating
  <1>6. Versions'
    BY DEF NumberType, Serialized, Versions
  <1>7. Deadlines'
    BY DEF ControlType, NumberType, Serialized, Deadlines
  <1>8. Hints'
    BY DEF ControlType, NumberType, TimerArmed, Serialized, SourceReleased, Deadlines,
           Hints
  <1>9. Creating'
    BY DEF Creating
  <1> QED
    BY <1>1, <1>2, <1>3, <1>4, <1>5, <1>6, <1>7, <1>8, <1>9

(* A signature fails. *)
LEMMA SignatureFailsKeeps ==
    ASSUME IInv, SignatureFails
    PROVE  IInv'
  <1> USE DEF IInv, SignatureFails, FinishCheck, BeginCheck, SafetyInterval, Schedule,
              InFlight
  <1>1. ControlType'
    BY DEF ControlType
  <1>2. NumberType'
    BY DEF NumberType
  <1>3. TimerArmed'
    BY DEF ControlType, NumberType, TimerArmed, Serialized, Deadlines
  <1>4. Serialized'
    BY DEF NumberType, TimerArmed, Serialized
  <1>5. SourceReleased'
    BY DEF ControlType, SourceReleased, Creating
  <1>6. Versions'
    BY DEF NumberType, Serialized, Versions
  <1>7. Deadlines'
    BY DEF ControlType, NumberType, Serialized, Deadlines
  <1>8. Hints'
    BY DEF ControlType, NumberType, TimerArmed, Serialized, SourceReleased, Deadlines,
           Hints
  <1>9. Creating'
    BY DEF Creating
  <1> QED
    BY <1>1, <1>2, <1>3, <1>4, <1>5, <1>6, <1>7, <1>8, <1>9

(* A reload is done. *)
LEMMA RefreshResolvesKeeps ==
    ASSUME NEW v \in 0..MaxEdits, IInv, RefreshResolves(v)
    PROVE  IInv'
  <1> USE DEF IInv, RefreshResolves, FinishCheck, BeginCheck, SafetyInterval, Schedule,
              InFlight
  <1>1. ControlType'
    BY DEF ControlType
  <1>2. NumberType'
    BY DEF NumberType
  <1>3. TimerArmed'
    BY DEF ControlType, NumberType, TimerArmed, Serialized, Deadlines
  <1>4. Serialized'
    BY DEF NumberType, TimerArmed, Serialized
  <1>5. SourceReleased'
    BY DEF ControlType, SourceReleased, Creating
  <1>6. Versions'
    BY DEF NumberType, Serialized, Versions
  <1>7. Deadlines'
    BY DEF ControlType, NumberType, Serialized, Deadlines
  <1>8. Hints'
    BY DEF ControlType, NumberType, TimerArmed, Serialized, SourceReleased, Deadlines,
           Hints
  <1>9. Creating'
    BY DEF Creating
  <1> QED
    BY <1>1, <1>2, <1>3, <1>4, <1>5, <1>6, <1>7, <1>8, <1>9

(* A reload fails. *)
LEMMA RefreshFailsKeeps ==
    ASSUME IInv, RefreshFails
    PROVE  IInv'
  <1> USE DEF IInv, RefreshFails, FinishCheck, BeginCheck, SafetyInterval, Schedule,
              InFlight
  <1>1. ControlType'
    BY DEF ControlType
  <1>2. NumberType'
    BY DEF NumberType
  <1>3. TimerArmed'
    BY DEF ControlType, NumberType, TimerArmed, Serialized, Deadlines
  <1>4. Serialized'
    BY DEF NumberType, TimerArmed, Serialized
  <1>5. SourceReleased'
    BY DEF ControlType, SourceReleased, Creating
  <1>6. Versions'
    BY DEF NumberType, Serialized, Versions
  <1>7. Deadlines'
    BY DEF ControlType, NumberType, Serialized, Deadlines
  <1>8. Hints'
    BY DEF ControlType, NumberType, TimerArmed, Serialized, SourceReleased, Deadlines,
           Hints
  <1>9. Creating'
    BY DEF Creating
  <1> QED
    BY <1>1, <1>2, <1>3, <1>4, <1>5, <1>6, <1>7, <1>8, <1>9

(* The controller is closed. *)
LEMMA CloseKeeps ==
    ASSUME IInv, Close
    PROVE  IInv'
  <1> USE DEF IInv, Close, CloseEventSource
  <1>1. ControlType'
    BY DEF ControlType
  <1>2. NumberType'
    BY DEF NumberType
  <1>3. TimerArmed'
    BY DEF ControlType, NumberType, TimerArmed, Serialized, Deadlines
  <1>4. Serialized'
    BY DEF NumberType, TimerArmed, Serialized
  <1>5. SourceReleased'
    BY DEF ControlType, SourceReleased, Creating
  <1>6. Versions'
    BY DEF NumberType, Serialized, Versions
  <1>7. Deadlines'
    BY DEF ControlType, NumberType, Serialized, Deadlines
  <1>8. Hints'
    BY DEF ControlType, NumberType, TimerArmed, Serialized, SourceReleased, Deadlines,
           Hints
  <1>9. Creating'
    BY DEF Creating
  <1> QED
    BY <1>1, <1>2, <1>3, <1>4, <1>5, <1>6, <1>7, <1>8, <1>9

(* The input changes. *)
LEMMA EditKeeps ==
    ASSUME IInv, Edit
    PROVE  IInv'
  <1> USE DEF IInv, Edit
  <1>1. ControlType'
    BY DEF ControlType
  <1>2. NumberType'
    BY DEF NumberType
  <1>3. TimerArmed'
    BY DEF ControlType, NumberType, TimerArmed, Serialized, Deadlines
  <1>4. Serialized'
    BY DEF NumberType, TimerArmed, Serialized
  <1>5. SourceReleased'
    BY DEF ControlType, SourceReleased, Creating
  <1>6. Versions'
    BY DEF NumberType, Serialized, Versions
  <1>7. Deadlines'
    BY DEF ControlType, NumberType, Serialized, Deadlines
  <1>8. Hints'
    BY DEF ControlType, NumberType, TimerArmed, Serialized, SourceReleased, Deadlines,
           Hints
  <1>9. Creating'
    BY DEF Creating
  <1> QED
    BY <1>1, <1>2, <1>3, <1>4, <1>5, <1>6, <1>7, <1>8, <1>9

(* Time passes. *)
LEMMA TickKeeps ==
    ASSUME IInv, Tick
    PROVE  IInv'
  <1> USE DEF IInv, Tick, Elapse
  <1>1. ControlType'
    BY DEF ControlType
  <1>2. NumberType'
    BY DEF NumberType
  <1>3. TimerArmed'
    BY DEF ControlType, NumberType, TimerArmed, Serialized, Deadlines
  <1>4. Serialized'
    BY DEF NumberType, TimerArmed, Serialized
  <1>5. SourceReleased'
    BY DEF ControlType, SourceReleased, Creating
  <1>6. Versions'
    BY DEF NumberType, Serialized, Versions
  <1>7. Deadlines'
    BY DEF ControlType, NumberType, Serialized, Deadlines
  <1>8. Hints'
    BY DEF ControlType, NumberType, TimerArmed, Serialized, SourceReleased, Deadlines,
           Hints
  <1>9. Creating'
    BY DEF Creating
  <1> QED
    BY <1>1, <1>2, <1>3, <1>4, <1>5, <1>6, <1>7, <1>8, <1>9

(* Every step keeps the invariant, one lemma for each action. *)
LEMMA NextKeeps == IInv /\ [Next]_vars => IInv'
  <1> SUFFICES ASSUME IInv, [Next]_vars PROVE IInv'
    OBVIOUS
  <1>1. CASE CreateReturns \/ CreateThrows
    BY <1>1, CreateReturnsKeeps, CreateThrowsKeeps
  <1>2. CASE OnEvent \/ OnSourceReady \/ OnSourceProgress \/ OnSourceError
    BY <1>2, OnEventKeeps, OnSourceReadyKeeps, OnSourceProgressKeeps, OnSourceErrorKeeps
  <1>3. CASE OnTimer
    BY <1>3, OnTimerKeeps
  <1>4. ASSUME NEW v \in 0..MaxEdits, SignatureResolves(v) \/ RefreshResolves(v)
        PROVE  IInv'
    BY <1>4, SignatureResolvesKeeps, RefreshResolvesKeeps
  <1>5. CASE SignatureFails \/ RefreshFails
    BY <1>5, SignatureFailsKeeps, RefreshFailsKeeps
  <1>6. CASE Close
    BY <1>6, CloseKeeps
  <1>7. CASE Edit \/ Tick
    BY <1>7, EditKeeps, TickKeeps
  <1>8. CASE UNCHANGED vars
    BY <1>8 DEF IInv, ControlType, NumberType, TimerArmed, Serialized, SourceReleased, Versions,
                Deadlines, Hints, Creating
  <1> QED
    BY <1>1, <1>2, <1>3, <1>4, <1>5, <1>6, <1>7, <1>8 DEF Next

(* The invariant is one. *)
LEMMA Invariance == Spec => []IInv
  BY InitIInv, NextKeeps, PTL DEF Spec

(* The state of the controller has its type, for any plan and any delays. *)
THEOREM WatchTypeCorrect == Spec => []TypeOK
  <1>1. IInv => TypeOK
    BY DEF IInv, TypeOK, ControlType, NumberType
  <1> QED
    BY <1>1, Invariance, PTL

(* No wake-up is lost, and nothing is left to wake a closed controller. *)
THEOREM WatchWakesUp == Spec => []TimerArmed
  <1>1. IInv => TimerArmed
    BY DEF IInv
  <1> QED
    BY <1>1, Invariance, PTL

(* One check at a time, however hints, readiness and timeouts arrive. *)
THEOREM WatchSerializes == Spec => []Serialized
  <1>1. IInv => Serialized
    BY DEF IInv
  <1> QED
    BY <1>1, Invariance, PTL

(* No observer leaks. *)
THEOREM WatchReleases == Spec => []SourceReleased
  <1>1. IInv => SourceReleased
    BY DEF IInv
  <1> QED
    BY <1>1, Invariance, PTL

(* The baseline never runs ahead of the review. *)
THEOREM WatchKeepsBaseline == Spec => []ShownCoversApplied
  <1>1. IInv => ShownCoversApplied
    BY DEF IInv, Versions, ShownCoversApplied
  <1> QED
    BY <1>1, Invariance, PTL

(* No hint is dropped and none waits longer than the delays allow. *)
THEOREM WatchServesHints == Spec => []HintsServed
  <1>1. IInv => HintsServed
    BY DEF IInv, ControlType, NumberType, TimerArmed, Deadlines, Hints, HintsServed
  <1> QED
    BY <1>1, Invariance, PTL

(* The three together, for every plan, set of delays and number of edits: *)
(* no wake-up is lost, checks are serialized and every hint is served.     *)
THEOREM WatchChecksSound == Spec => []ChecksSound
  <1>1. TimerArmed /\ Serialized /\ HintsServed => ChecksSound
    BY DEF ChecksSound
  <1> QED
    BY <1>1, WatchWakesUp, WatchSerializes, WatchServesHints, PTL
===============================================================================

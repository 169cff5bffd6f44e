------------------------------ MODULE ServerProofs ------------------------------
(***************************************************************************)
(* Proofs about what the daemon serves.  The review service: what it keeps *)
(* and what it tells its watchers is of the generation that is mirrored    *)
(* (ReviewIsCurrent), its byte budgets are exact (ReviewBytesExact), and a *)
(* stream never goes back (StreamsAdvance).  The server adapters: their    *)
(* byte budgets and admissions are exact, also while they stop             *)
(* (AdapterBudgetsExact).                                                  *)
(***************************************************************************)
EXTENDS ReviewService, ServerAdapter, DataLemmas

-----------------------------------------------------------------------------
(* The inductive invariant.                                                 *)

(* What is cached, by which key, and what the mirror holds.                 *)
ReviewKey ==
    [session : Session, generation : [producer : Producer, sequence : Nat], resource : Resource]
CachedEntry == [key : ReviewKey, bytes : Nat]
Mirrored == [Session -> Address \cup {NoAddress}]

(* Only a session that is live has an address.                              *)
MirrorPart ==
    /\ live \subseteq Session
    /\ mirror \in Mirrored
    /\ \A s \in Session : mirror[s] # NoAddress => s \in live

(* These entries, of that many bytes, are within the budget and no resource *)
(* is there twice.                                                          *)
EntriesExact(es, bytes) ==
    /\ es \in Seq(CachedEntry)
    /\ \A i, j \in 1..Len(es) : es[i].key = es[j].key => i = j
    /\ bytes = Bytes(es)
    /\ bytes <= cacheBytes \/ Len(es) = 1

(* The cache is exact and holds nothing that was retired.                   *)
CachePart ==
    /\ EntriesExact(entries, cachedBytes)
    /\ \A i \in 1..Len(entries) : ~Retired(entries[i].key, mirror)

(* The loads that hold a reservation.                                       *)
Holders(res) == {l \in Load : res[l] # -1}

(* These reservations amount to total, which is within the budget.          *)
ReservationsExact(res, total) ==
    /\ res \in [Load -> Nat \cup {-1}]
    /\ IsFiniteSet(Holders(res))
    /\ total = Reserved(res, Holders(res))
    /\ total <= inFlightBytes

(* A load that holds a reservation is current and alone on its key.         *)
LoadPart ==
    /\ loading \in [Load -> ReviewKey \cup {NoKey}]
    /\ ReservationsExact(reservation, reservedBytes)
    /\ \A l \in Load : reservation[l] # -1 => loading[l] # NoKey /\ ~Retired(loading[l], mirror)
    /\ \A l, m \in Load : loading[l] # NoKey /\ loading[l] = loading[m] => l = m

(* Every stream shows the address its session has.                          *)
StreamPart ==
    /\ streams \subseteq Stream
    /\ streamSession \in [Stream -> Session \cup {"none"}]
    /\ streamAddress \in [Stream -> Address \cup {NoAddress}]
    /\ \A t \in streams : streamSession[t] \in Session
    /\ StreamsCurrent

(* The four together.                                                       *)
ReviewIInv == MirrorPart /\ CachePart /\ LoadPart /\ StreamPart

-----------------------------------------------------------------------------
(* The cache.                                                               *)

(* The bytes of an entry.                                                   *)
ByteCount == [e \in CachedEntry |-> e.bytes]

(* The bytes of a sequence of entries are its weight.                       *)
LEMMA BytesWeigh ==
    ASSUME NEW es \in Seq(CachedEntry)
    PROVE  Bytes(es) = Weight(ByteCount, es) /\ Bytes(es) \in Nat
<1>1. Len(es) \in Nat /\ \A i \in 1..Len(es) : es[i] \in CachedEntry
  BY LenProperties
<1>2. ByteCount \in [CachedEntry -> Nat] /\ \A e \in CachedEntry : ByteCount[e] = e.bytes
  BY DEF ByteCount, CachedEntry
<1>3. \A i \in 1..Len(es) : [j \in 1..Len(es) |-> es[j].bytes][i] = Weights(ByteCount, es)[i]
  BY <1>1, <1>2 DEF Weights
<1>4. Bytes(es) = Weight(ByteCount, es)
  BY <1>3, ReservedSame DEF Bytes, Weight
<1> QED
  BY <1>2, <1>4, WeightType

(* What a filter of the entries leaves: entries that were there and that    *)
(* belong to the set, none of them twice, and no more bytes than before.    *)
LEMMA FilterKeeps ==
    ASSUME NEW es \in Seq(CachedEntry), NEW S,
           \A i, j \in 1..Len(es) : es[i].key = es[j].key => i = j
    PROVE  /\ Filtered(es, S) \in Seq(CachedEntry)
           /\ \A i \in 1..Len(Filtered(es, S)) :
                 \E k \in 1..Len(es) : Filtered(es, S)[i] = es[k] /\ es[k] \in S
           /\ \A i, j \in 1..Len(Filtered(es, S)) :
                 Filtered(es, S)[i].key = Filtered(es, S)[j].key => i = j
           /\ Len(Filtered(es, S)) <= Len(es)
           /\ Bytes(Filtered(es, S)) <= Bytes(es)
<1> DEFINE p == Filtered(es, S)
<1>1. p \in Seq(CachedEntry) /\ Picture(es, S, Len(es), p)
  BY FilteredPicture
<1>2. PICK h \in [1..Len(p) -> 1..Len(es)] :
          /\ \A i \in 1..Len(p) : p[i] = es[h[i]] /\ es[h[i]] \in S
          /\ \A i, j \in 1..Len(p) : i < j => h[i] < h[j]
  BY <1>1 DEF Picture
<1>3. Len(p) \in Nat /\ Len(es) \in Nat /\ Len(p) <= Len(es)
  BY <1>1, LenProperties DEF Picture
<1>4. ByteCount \in [CachedEntry -> Nat]
  BY DEF ByteCount, CachedEntry
<1>5. Weight(ByteCount, p) <= Weight(ByteCount, es)
  BY <1>4, WeightFilteredLess
<1>6. Bytes(p) <= Bytes(es)
  BY <1>1, <1>5, BytesWeigh
<1> HIDE DEF p
<1>7. ASSUME NEW i \in 1..Len(p), NEW j \in 1..Len(p), p[i].key = p[j].key PROVE i = j
  <2>1. h[i] \in 1..Len(es) /\ h[j] \in 1..Len(es)
    OBVIOUS
  <2>2. h[i] = h[j]
    BY <1>2, <1>7, <2>1
  <2>3. i \in Int /\ j \in Int /\ h[i] \in Int
    BY ONLY <1>3, <2>1, i \in 1..Len(p), j \in 1..Len(p)
  <2>4. ~(i < j) /\ ~(j < i)
    BY <1>2, <2>2, <2>3
  <2> QED
    BY <2>3, <2>4
<1>8. \A i \in 1..Len(p) : \E k \in 1..Len(es) : p[i] = es[k] /\ es[k] \in S
  BY <1>2
<1> QED
  BY <1>1, <1>3, <1>6, <1>7, <1>8 DEF p

(* The entries but for one key, and one more of this key: still none twice. *)
LEMMA OthersAndOne ==
    ASSUME EntriesExact(entries, cachedBytes), NEW e \in CachedEntry
    PROVE  /\ Append(Others(e.key), e) \in Seq(CachedEntry)
           /\ \A i, j \in 1..Len(Append(Others(e.key), e)) :
                 Append(Others(e.key), e)[i].key = Append(Others(e.key), e)[j].key => i = j
           /\ \A i \in 1..Len(Append(Others(e.key), e)) :
                 \/ Append(Others(e.key), e)[i] = e
                 \/ \E k \in 1..Len(entries) : Append(Others(e.key), e)[i] = entries[k]
           /\ Len(Append(Others(e.key), e)) = Len(Others(e.key)) + 1
<1> DEFINE S == {x \in Completed : x.key # e.key}
           p == Filtered(entries, S)
           a == Append(p, e)
<1>1. entries \in Seq(CachedEntry) /\ \A i, j \in 1..Len(entries) : entries[i].key = entries[j].key => i = j
  BY DEF EntriesExact
<1>2. /\ p \in Seq(CachedEntry)
      /\ \A i \in 1..Len(p) : \E k \in 1..Len(entries) : p[i] = entries[k] /\ entries[k] \in S
      /\ \A i, j \in 1..Len(p) : p[i].key = p[j].key => i = j
  BY <1>1, FilterKeeps
<1> HIDE DEF p
<1>3. \A i \in 1..Len(p) : p[i].key # e.key
  BY <1>2
<1>4. /\ a \in Seq(CachedEntry) /\ Len(a) = Len(p) + 1 /\ a[Len(p) + 1] = e
      /\ \A i \in 1..Len(p) : a[i] = p[i]
      /\ Len(p) \in Nat
  BY <1>2, LenProperties
<1> HIDE DEF a
<1>5. \A i, j \in 1..Len(a) : a[i].key = a[j].key => i = j
  BY <1>2, <1>3, <1>4
<1>6. \A i \in 1..Len(a) : a[i] = e \/ \E k \in 1..Len(entries) : a[i] = entries[k]
  BY <1>2, <1>4
<1>7. Others(e.key) = p
  BY DEF Others, p
<1> QED
  BY <1>4, <1>5, <1>6, <1>7 DEF a

(* A cached entry that is promoted leaves the bytes as they are.            *)
LEMMA PromotionKeeps ==
    ASSUME EntriesExact(entries, cachedBytes), NEW k \in 1..Len(entries)
    PROVE  EntriesExact(Append(Others(entries[k].key), entries[k]), cachedBytes)
<1> DEFINE e == entries[k]
           S == {x \in Completed : x.key # e.key}
           p == Filtered(entries, S)
           a == Append(p, e)
<1>1. /\ entries \in Seq(CachedEntry) /\ Len(entries) \in Nat /\ e \in CachedEntry
      /\ \A i, j \in 1..Len(entries) : entries[i].key = entries[j].key => i = j
      /\ cachedBytes = Bytes(entries)
      /\ cachedBytes <= cacheBytes \/ Len(entries) = 1
  BY LenProperties DEF EntriesExact
<1>2. \A i \in 1..Len(entries) : entries[i] \in S <=> i # k
  BY <1>1 DEF Completed
<1>3. Others(e.key) = p
  BY DEF Others
<1>4. ByteCount \in [CachedEntry -> Nat]
  BY DEF ByteCount, CachedEntry
<1>5. p \in Seq(CachedEntry) /\ Picture(entries, S, Len(entries), p)
  BY <1>1, FilteredPicture
<1>6. Len(entries) = 1 => p = <<>>
  <2> SUFFICES ASSUME Len(entries) = 1 PROVE p = <<>>
    OBVIOUS
  <2>1. \A i \in 1..Len(entries) : entries[i] \notin S
    BY <1>2
  <2> HIDE DEF S
  <2> QED
    BY <1>1, <2>1, FilteredNone
<1> HIDE DEF e, S
<1>7. Weight(ByteCount, entries) = Weight(ByteCount, p) + ByteCount[e]
  BY <1>1, <1>2, <1>4, WeightWithout DEF e
<1> HIDE DEF p
<1>8. Weight(ByteCount, a) = Weight(ByteCount, p) + ByteCount[e]
  BY <1>1, <1>4, <1>5, WeightAppend
<1>9. a \in Seq(CachedEntry) /\ \A i, j \in 1..Len(a) : a[i].key = a[j].key => i = j
  BY <1>1, <1>3, OthersAndOne
<1>10. Bytes(a) = Bytes(entries)
  BY <1>1, <1>7, <1>8, <1>9, BytesWeigh
<1>11. Len(entries) = 1 => Len(a) = 1
  BY <1>6
<1> HIDE DEF a
<1>12. EntriesExact(a, cachedBytes)
  BY <1>1, <1>9, <1>10, <1>11 DEF EntriesExact
<1> QED
  BY <1>3, <1>12 DEF a, e

(* A resource that is stored: the oldest others go until the budget fits.   *)
LEMMA StoreKeeps ==
    ASSUME EntriesExact(entries, cachedBytes), NEW key \in ReviewKey, NEW bytes \in Nat,
           Store(key, bytes), cacheBytes \in Nat
    PROVE  /\ EntriesExact(entries', cachedBytes')
           /\ \A i \in 1..Len(entries') :
                 \/ entries'[i].key = key
                 \/ \E k \in 1..Len(entries) : entries'[i] = entries[k]
<1> DEFINE e == [key |-> key, bytes |-> bytes]
           all == Append(Others(key), e)
           n == Len(all)
           From(m) == SubSeq(all, m, Len(all))
           Fits(m) == Bytes(From(m)) <= cacheBytes \/ m = Len(all)
           Oldest(m) == Fits(m) /\ \A j \in 1..(m - 1) : Bytes(From(j)) > cacheBytes
           first == CHOOSE m \in 1..Len(all) : Oldest(m)
<1>1. e \in CachedEntry /\ e.key = key
  BY DEF CachedEntry
<1>2. /\ all \in Seq(CachedEntry)
      /\ \A i, j \in 1..Len(all) : all[i].key = all[j].key => i = j
      /\ \A i \in 1..Len(all) : all[i] = e \/ \E k \in 1..Len(entries) : all[i] = entries[k]
      /\ Len(all) = Len(Others(key)) + 1
  BY <1>1, OthersAndOne
<1>3. /\ entries' = From(first)
      /\ cachedBytes' = cachedBytes - Bytes(entries) + Bytes(From(first))
  BY DEF Store
<1>4. Others(key) \in Seq(CachedEntry)
  BY FilterKeeps DEF EntriesExact, Others
<1>5. n \in Nat /\ n >= 1
  BY <1>2, <1>4, LenProperties
<1> HIDE DEF e, all
<1>6. ASSUME NEW m \in 1..n
      PROVE  /\ From(m) \in Seq(CachedEntry) /\ Len(From(m)) = n - m + 1
             /\ \A i \in 1..(n - m + 1) : From(m)[i] = all[m + i - 1]
             /\ Bytes(From(m)) \in Nat
  <2>1. \A i \in m..n : all[i] \in CachedEntry
    BY <1>2, <1>5, LenProperties
  <2>2. /\ From(m) \in Seq(CachedEntry)
        /\ Len(From(m)) = IF m <= n THEN n - m + 1 ELSE 0
        /\ \A i \in 1 .. n - m + 1 : From(m)[i] = all[m + i - 1]
    BY <1>5, <2>1, SubSeqProperties
  <2> HIDE DEF n
  <2>3. Len(From(m)) = n - m + 1
    BY <1>5, <2>2
  <2> QED
    BY <2>2, <2>3, BytesWeigh
<1>7. \E m \in 1..n : Oldest(m)
  <2> DEFINE M == {m \in 1..n : Fits(m)}
  <2>1. M \in SUBSET Nat /\ n \in M
    BY <1>5
  <2>2. PICK m \in M : \A j \in M : m <= j
    BY <2>1, LeastNat
  <2>3. ASSUME NEW j \in 1..(m - 1) PROVE Bytes(From(j)) > cacheBytes
    <3>1. j \in 1..n /\ j \notin M
      BY <1>5, <2>2
    <3>2. Bytes(From(j)) \in Nat /\ ~(Bytes(From(j)) <= cacheBytes)
      BY <1>6, <3>1
    <3> QED
      BY <3>2
  <2> QED
    BY <2>2, <2>3
<1>8. first \in 1..n /\ Fits(first)
  BY <1>7
<1> HIDE DEF first
<1>9. cachedBytes' = Bytes(entries')
  <2>1. Bytes(entries) \in Nat /\ cachedBytes = Bytes(entries)
    BY BytesWeigh DEF EntriesExact
  <2>2. Bytes(From(first)) \in Nat
    BY <1>6, <1>8
  <2> QED
    BY <1>3, <2>1, <2>2
<1>10. cachedBytes' <= cacheBytes \/ Len(entries') = 1
  <2>1. CASE first = n
    <3>1. Len(entries') = n - first + 1
      BY <1>3, <1>6, <1>8
    <3> QED
      BY <1>5, <2>1, <3>1
  <2>2. CASE Bytes(From(first)) <= cacheBytes
    BY <1>3, <1>9, <2>2
  <2> QED
    BY <1>8, <2>1, <2>2
<1>11. /\ entries' \in Seq(CachedEntry)
       /\ \A i \in 1..Len(entries') :
             entries'[i] = all[first + i - 1] /\ first + i - 1 \in 1..n
  <2>1. /\ entries' \in Seq(CachedEntry) /\ Len(entries') = n - first + 1
        /\ \A i \in 1..(n - first + 1) : entries'[i] = all[first + i - 1]
    BY <1>3, <1>6, <1>8
  <2>2. \A i \in 1..(n - first + 1) : first + i - 1 \in 1..n
    BY <1>5, <1>8
  <2> QED
    BY <2>1, <2>2
<1>12. ASSUME NEW i \in 1..Len(entries'), NEW j \in 1..Len(entries'),
              entries'[i].key = entries'[j].key
       PROVE  i = j
  <2>1. Len(entries') \in Nat
    BY <1>11, LenProperties
  <2>2. first + i - 1 = first + j - 1
    BY <1>2, <1>11, <1>12
  <2>3. first \in Int /\ i \in Int /\ j \in Int
    BY <1>5, <1>8, <2>1
  <2> QED
    BY <2>2, <2>3
<1>13. ASSUME NEW i \in 1..Len(entries')
       PROVE  entries'[i].key = key \/ \E k \in 1..Len(entries) : entries'[i] = entries[k]
  <2>1. PICK j \in 1..n : entries'[i] = all[j]
    BY <1>11
  <2>2. all[j] = e \/ \E k \in 1..Len(entries) : all[j] = entries[k]
    BY <1>2
  <2> QED
    BY <1>1, <2>1, <2>2
<1> QED
  BY <1>9, <1>10, <1>11, <1>12, <1>13 DEF EntriesExact

-----------------------------------------------------------------------------
(* The reservations.                                                        *)

(* An amount does not depend on what lies outside the set.                  *)
LEMMA DroppedSame ==
    ASSUME NEW f, NEW S
    PROVE  Reserved([l \in S |-> f[l]], S) = Reserved(f, S)
BY ReservedSame

(* Reservations S that are given back leave the others.                     *)
LEMMA ReleaseKeeps ==
    ASSUME NEW res, NEW total, ReservationsExact(res, total),
           NEW S \in SUBSET Holders(res),
           inFlightBytes \in Nat
    PROVE  /\ ReservationsExact([l \in Load |-> IF l \in S THEN -1 ELSE res[l]],
                                total - Reserved(res, S))
           /\ Reserved(res, S) \in Nat
<1> DEFINE r == [l \in Load |-> IF l \in S THEN -1 ELSE res[l]]
           H == Holders(res)
<1>1. /\ IsFiniteSet(H) /\ \A l \in H : l \in Load /\ res[l] \in Nat
      /\ total = Reserved(res, H) /\ total <= inFlightBytes
  BY DEF ReservationsExact, Holders
<1>2. IsFiniteSet(S) /\ IsFiniteSet(H \ S)
  BY <1>1, FS_Subset
<1>3. r \in [Load -> Nat \cup {-1}]
  BY DEF ReservationsExact
<1>4. Holders(r) = H \ S
  BY DEF Holders
<1> HIDE DEF H
<1>5. Reserved(res, S \cup (H \ S)) = Reserved(res, S) + Reserved(res, H \ S)
  BY <1>1, <1>2, ReservedUnion DEF H
<1>6. S \cup (H \ S) = H
  BY DEF H
<1>7. Reserved(res, S) \in Nat /\ Reserved(res, H \ S) \in Nat
  BY <1>1, <1>2, ReservedType DEF H
<1>8. \A l \in H \ S : r[l] = res[l]
  BY <1>1
<1> HIDE DEF r
<1>9. Reserved(r, H \ S) = Reserved(res, H \ S)
  BY <1>8, ReservedSame
<1>10. total = Reserved(res, S) + Reserved(res, H \ S)
  BY <1>1, <1>5, <1>6, Zenon
<1>11. Reserved(r, Holders(r)) = Reserved(res, H \ S)
  BY <1>4, <1>9, Zenon
<1>12. /\ total - Reserved(res, S) = Reserved(r, Holders(r))
       /\ total - Reserved(res, S) <= inFlightBytes
  BY <1>1, <1>7, <1>10, <1>11
<1> QED
  BY <1>2, <1>3, <1>4, <1>7, <1>12 DEF ReservationsExact, r

(* A reservation that is made or resized, and fits.                         *)
LEMMA ResizeKeeps ==
    ASSUME NEW res, NEW total, ReservationsExact(res, total),
           NEW l \in Load, NEW n \in Nat,
           NEW before \in Nat, before = (IF res[l] = -1 THEN 0 ELSE res[l]),
           inFlightBytes \in Nat, total - before + n <= inFlightBytes
    PROVE  ReservationsExact([res EXCEPT ![l] = n], total - before + n)
<1> DEFINE r == [res EXCEPT ![l] = n]
           H == Holders(res)
           K == H \ {l}
<1>1. /\ IsFiniteSet(H) /\ \A m \in H : m \in Load /\ res[m] \in Nat
      /\ total = Reserved(res, H) /\ res \in [Load -> Nat \cup {-1}]
  BY DEF ReservationsExact, Holders
<1>2. IsFiniteSet(K) /\ IsFiniteSet({l})
  BY <1>1, FS_Subset, FS_Singleton
<1>3. r \in [Load -> Nat \cup {-1}] /\ Holders(r) = K \cup {l} /\ r[l] = n
      /\ \A m \in K : r[m] = res[m] /\ r[m] \in Nat
  BY <1>1 DEF Holders
<1>4. K \cap {l} = {}
  OBVIOUS
<1> HIDE DEF r
<1>5. Reserved(res, H) = Reserved(res, K) + before
  <2>1. CASE l \in H
    <3>1. H = K \cup {l} /\ \A m \in K \cup {l} : res[m] \in Nat
      BY <1>1, <2>1
    <3>2. before = res[l] /\ res[l] \in Nat
      BY <1>1, <2>1 DEF Holders
    <3> HIDE DEF K, H
    <3>3. Reserved(res, K \cup {l}) = Reserved(res, K) + Reserved(res, {l})
      BY <1>2, <1>4, <3>1, ReservedUnion
    <3>4. Reserved(res, {l}) = res[l]
      BY <3>2, ReservedOne
    <3> QED
      BY <3>1, <3>2, <3>3, <3>4
  <2>2. CASE l \notin H
    <3>1. K = H /\ before = 0
      BY <2>2 DEF Holders
    <3>2. Reserved(res, H) \in Nat
      BY <1>1, ReservedType
    <3> QED
      BY <3>1, <3>2
  <2> QED
    BY <2>1, <2>2
<1>6. \A m \in K \cup {l} : r[m] \in Nat
  BY <1>3
<1>7. Reserved(res, K) \in Nat
  BY <1>1, <1>2, ReservedType
<1> HIDE DEF K, H
<1>8. Reserved(r, K \cup {l}) = Reserved(r, K) + Reserved(r, {l})
  BY <1>2, <1>4, <1>6, ReservedUnion
<1>9. Reserved(r, {l}) = n
  BY <1>3, ReservedOne
<1>10. Reserved(r, K) = Reserved(res, K)
  BY <1>3, ReservedSame
<1>11. total - before + n = Reserved(r, Holders(r))
  BY <1>1, <1>3, <1>5, <1>7, <1>8, <1>9, <1>10
<1>12. IsFiniteSet(Holders(r))
  <2>1. IsFiniteSet(K \cup {l})
    BY <1>2, FS_Union
  <2> QED
    BY <1>3, <2>1
<1> QED
  BY <1>3, <1>11, <1>12 DEF ReservationsExact, r

-----------------------------------------------------------------------------
(* What follows from a new set of mirrored sessions.                        *)

(* Publications are ordered, and the mirror keeps an address or none.       *)
LEMMA ObservedType ==
    ASSUME NEW current \in Address \cup {NoAddress}, NEW incoming \in Address \cup {NoAddress},
           NEW matching
    PROVE  Observed(current, incoming, matching) \in Address \cup {NoAddress}
BY Zenon DEF Observed

(* evictWhere leaves what belongs to the mirror, with exact counters.       *)
LEMMA EvictKeeps ==
    ASSUME CachePart, LoadPart, NEW addresses \in Mirrored,
           Evict(addresses), UNCHANGED loading, mirror' = addresses
    PROVE  CachePart' /\ LoadPart'
<1> USE ReviewAssumption
<1> DEFINE S == {e \in Completed : ~Retired(e.key, addresses)}
           kept == Filtered(entries, S)
           gone == {l \in Load : loading[l] # NoKey /\ reservation[l] # -1
                                   /\ Retired(loading[l], addresses)}
<1>1. /\ entries' = kept
      /\ cachedBytes' = cachedBytes - (Bytes(entries) - Bytes(kept))
      /\ reservation' = [l \in Load |-> IF l \in gone THEN -1 ELSE reservation[l]]
      /\ reservedBytes' = reservedBytes - DroppedBytes(gone)
  BY DEF Evict
<1>2. /\ entries \in Seq(CachedEntry) /\ cachedBytes = Bytes(entries)
      /\ \A i, j \in 1..Len(entries) : entries[i].key = entries[j].key => i = j
      /\ cachedBytes <= cacheBytes \/ Len(entries) = 1
  BY DEF CachePart, EntriesExact
<1>3. /\ kept \in Seq(CachedEntry)
      /\ \A i \in 1..Len(kept) : \E k \in 1..Len(entries) : kept[i] = entries[k] /\ entries[k] \in S
      /\ \A i, j \in 1..Len(kept) : kept[i].key = kept[j].key => i = j
      /\ Len(kept) <= Len(entries)
      /\ Bytes(kept) <= Bytes(entries)
  BY <1>2, FilterKeeps
<1>4. Bytes(entries) \in Nat /\ Bytes(kept) \in Nat /\ Len(kept) \in Nat
  BY <1>2, <1>3, BytesWeigh, LenProperties
<1>5. \A i \in 1..Len(kept) : ~Retired(kept[i].key, addresses)
  BY <1>3
<1> HIDE DEF kept
<1>6. cachedBytes' = Bytes(kept)
  BY <1>1, <1>2, <1>4
<1>7. Bytes(kept) <= cacheBytes \/ Len(kept) = 1
  <2> SUFFICES ASSUME Len(entries) = 1, Len(kept) # 1 PROVE Bytes(kept) <= cacheBytes
    BY <1>2, <1>3, <1>4
  <2>1. kept = <<>>
    <3>1. Len(kept) <= Len(entries)
      BY <1>3
    <3>2. Len(kept) = 0
      BY <1>4, <3>1
    <3> QED
      BY <1>3, <3>2, EmptySeq
  <2>2. Bytes(kept) = 0
    BY <1>3, <2>1, WeightNone, BytesWeigh
  <2> QED
    BY <2>2
<1>8. CachePart'
  <2>1. EntriesExact(kept, Bytes(kept))
    BY <1>3, <1>7 DEF EntriesExact
  <2>2. EntriesExact(entries', cachedBytes')
    BY <1>1, <1>6, <2>1
  <2>3. \A i \in 1..Len(entries') : ~Retired(entries'[i].key, mirror')
    BY <1>1, <1>5
  <2> QED
    BY <2>2, <2>3 DEF CachePart
<1>9. /\ ReservationsExact(reservation, reservedBytes)
      /\ loading \in [Load -> ReviewKey \cup {NoKey}]
      /\ \A l \in Load : reservation[l] # -1 => loading[l] # NoKey
      /\ \A l, m \in Load : loading[l] # NoKey /\ loading[l] = loading[m] => l = m
  BY DEF LoadPart
<1>10. gone \in SUBSET Holders(reservation)
  BY DEF Holders
<1>11. \A l \in Load : reservation'[l] # -1 => loading'[l] # NoKey /\ ~Retired(loading'[l], addresses)
  BY <1>1, <1>9
<1> HIDE DEF gone
<1>12. DroppedBytes(gone) = Reserved(reservation, gone)
  BY DroppedSame DEF DroppedBytes
<1>13. ReservationsExact(reservation', reservedBytes')
  BY <1>1, <1>9, <1>10, <1>12, ReleaseKeeps
<1>14. LoadPart'
  BY <1>9, <1>11, <1>13 DEF LoadPart
<1> QED
  BY <1>8, <1>14

(* Streams that stay are told the position their session moved to.          *)
LEMMA NotifyKeeps ==
    ASSUME MirrorPart, StreamPart, NEW addresses \in Mirrored, NEW capabilities, NEW slow,
           NotifyStreams(addresses, capabilities, slow), mirror' = addresses
    PROVE  StreamPart'
<1> USE DEF StreamPart
<1> DEFINE told == {t \in streams : addresses[streamSession[t]] # mirror[streamSession[t]]}
           ended == {t \in told : \/ addresses[streamSession[t]] = NoAddress
                                  \/ capabilities[streamSession[t]] # streamCapability[t]
                                  \/ t \in slow}
<1>1. /\ streams' = streams \ ended
      /\ streamSession' = [t \in Stream |-> IF t \in ended THEN "none" ELSE streamSession[t]]
      /\ streamAddress' = [t \in Stream |-> IF t \in ended THEN NoAddress
                                            ELSE IF t \in told THEN addresses[streamSession[t]]
                                            ELSE streamAddress[t]]
  BY DEF NotifyStreams
<1>2. \A t \in told : addresses[streamSession[t]] \in Address \cup {NoAddress}
  BY DEF Mirrored
<1>3. /\ streams' \subseteq Stream
      /\ streamSession' \in [Stream -> Session \cup {"none"}]
      /\ streamAddress' \in [Stream -> Address \cup {NoAddress}]
      /\ \A t \in streams' : streamSession'[t] \in Session
  BY <1>1, <1>2
<1>4. ASSUME NEW t \in streams'
      PROVE  streamAddress'[t] # NoAddress /\ streamAddress'[t] = mirror'[streamSession'[t]]
  <2>1. t \in streams /\ t \in Stream /\ t \notin ended /\ streamSession'[t] = streamSession[t]
    BY <1>1
  <2>2. streamAddress[t] # NoAddress /\ streamAddress[t] = mirror[streamSession[t]]
    BY <2>1 DEF StreamsCurrent
  <2> QED
    BY <1>1, <2>1, <2>2
<1> QED
  BY <1>3, <1>4 DEF StreamsCurrent

(* Everything that follows from a new set of live sessions, the mirrored    *)
(* addresses and the registered capabilities keeps the invariant.           *)
LEMMA PublishKeeps ==
    ASSUME ReviewIInv, NEW alive \in SUBSET Session, NEW addresses \in Mirrored,
           NEW capabilities, NEW interrupted, NEW slow,
           Publish(alive, addresses, capabilities, interrupted, slow)
    PROVE  ReviewIInv'
<1> DEFINE kept == Reconciled(alive, addresses)
           held == [s \in Session |-> IF s \in alive THEN capabilities[s] ELSE NoCapability]
<1>1. /\ live' = alive /\ mirror' = kept /\ Evict(kept) /\ UNCHANGED loading
      /\ NotifyStreams(kept, held, slow)
  BY DEF Publish, RejectReads
<1>2. kept \in Mirrored /\ \A s \in Session : kept[s] # NoAddress => s \in alive
  BY DEF Reconciled, Mirrored
<1> HIDE DEF kept, held
<1>3. MirrorPart'
  BY <1>1, <1>2 DEF MirrorPart
<1>4. CachePart' /\ LoadPart'
  BY <1>1, <1>2, EvictKeeps DEF ReviewIInv
<1>5. StreamPart'
  BY <1>1, <1>2, NotifyKeeps DEF ReviewIInv
<1> QED
  BY <1>3, <1>4, <1>5 DEF ReviewIInv

-----------------------------------------------------------------------------
(* Invariance.                                                              *)

(* The first state.                                                         *)
LEMMA ReviewInitIInv == ReviewInit => ReviewIInv
<1> SUFFICES ASSUME ReviewInit PROVE ReviewIInv
  OBVIOUS
<1> USE ReviewAssumption
<1>1. MirrorPart
  BY DEF ReviewInit, MirrorPart, Mirrored
<1>2. CachePart
  <2>1. entries = <<>> /\ cachedBytes = 0 /\ entries \in Seq(CachedEntry) /\ 1..Len(entries) = {}
    BY DEF ReviewInit
  <2>2. Bytes(entries) = 0
    BY <2>1, BytesWeigh, WeightNone
  <2> QED
    BY <2>1, <2>2 DEF CachePart, EntriesExact
<1>3. LoadPart
  <2>1. Holders(reservation) = {}
    BY DEF ReviewInit, Holders
  <2>2. IsFiniteSet({}) /\ Reserved(reservation, {}) = 0
    BY FS_EmptySet, ReservedNone
  <2>3. reservation \in [Load -> Nat \cup {-1}] /\ reservedBytes = 0 /\ 0 <= inFlightBytes
    BY DEF ReviewInit
  <2>4. ReservationsExact(reservation, reservedBytes)
    BY <2>1, <2>2, <2>3 DEF ReservationsExact
  <2> QED
    BY <2>4 DEF ReviewInit, LoadPart
<1>4. StreamPart
  BY DEF ReviewInit, StreamPart, StreamsCurrent
<1> QED
  BY <1>1, <1>2, <1>3, <1>4 DEF ReviewIInv

(* The key of a mirrored session's resource is of its generation.           *)
LEMMA KeyCurrent ==
    ASSUME MirrorPart, NEW s \in Session, NEW r \in Resource, mirror[s] # NoAddress
    PROVE  Key(s, r) \in ReviewKey /\ Key(s, r) # NoKey /\ ~Retired(Key(s, r), mirror)
<1>1. mirror[s] \in Address
  BY DEF MirrorPart, Mirrored
<1>2. mirror[s].producer \in Producer /\ mirror[s].sequence \in Nat
  BY <1>1, ReviewAssumption
<1>3. Key(s, r) \in ReviewKey
  BY <1>2 DEF Key, Generation, ReviewKey
<1>4. "resource" \in DOMAIN Key(s, r) /\ "resource" \notin DOMAIN NoKey
  BY DEF Key, NoKey
<1>5. ~Retired(Key(s, r), mirror)
  BY DEF Retired, Key
<1> QED
  BY <1>3, <1>4, <1>5

(* A load that settles gives back what it still holds.                      *)
LEMMA EndKeeps ==
    ASSUME LoadPart, NEW l \in Load, EndLoad(l), UNCHANGED mirror
    PROVE  LoadPart'
<1> USE ReviewAssumption
<1>1. /\ ReservationsExact(reservation, reservedBytes)
      /\ reservation \in [Load -> Nat \cup {-1}]
      /\ loading \in [Load -> ReviewKey \cup {NoKey}]
  BY DEF LoadPart, ReservationsExact
<1>2. ReservationsExact(reservation', reservedBytes')
  <2>1. CASE reservation[l] = -1
    <3>1. reservation' = reservation /\ reservedBytes' = reservedBytes
      BY <1>1, <2>1 DEF EndLoad
    <3> QED
      BY <1>1, <3>1
  <2>2. CASE reservation[l] # -1
    <3>1. {l} \in SUBSET Holders(reservation)
      BY <2>2 DEF Holders
    <3>2. reservation' = [m \in Load |-> IF m \in {l} THEN -1 ELSE reservation[m]]
      BY <1>1 DEF EndLoad
    <3>3. Reserved(reservation, {l}) = reservation[l]
      BY <1>1, <2>2, ReservedOne
    <3>4. reservedBytes' = reservedBytes - Reserved(reservation, {l})
      BY <2>2, <3>3 DEF EndLoad
    <3> QED
      BY <1>1, <3>1, <3>2, <3>4, ReleaseKeeps
  <2> QED
    BY <2>1, <2>2
<1>3. \A m \in Load : reservation'[m] # -1 => loading'[m] # NoKey /\ ~Retired(loading'[m], mirror')
  BY <1>1 DEF LoadPart, EndLoad
<1>4. /\ loading' \in [Load -> ReviewKey \cup {NoKey}]
      /\ \A m, k \in Load : loading'[m] # NoKey /\ loading'[m] = loading'[k] => m = k
  BY <1>1 DEF LoadPart, EndLoad
<1> QED
  BY <1>2, <1>3, <1>4 DEF LoadPart

(* What does not touch a part of the state leaves that part's invariant.    *)
LEMMA ReviewUnchanged ==
    ASSUME ReviewIInv
    PROVE  /\ UNCHANGED mirrorVars => MirrorPart'
           /\ UNCHANGED <<cacheVars, mirror>> => CachePart'
           /\ UNCHANGED <<loading, reservation, reservedBytes, mirror>> => LoadPart'
           /\ UNCHANGED <<streamVars, mirror>> => StreamPart'
<1> USE DEF ReviewIInv, mirrorVars, cacheVars, streamVars
<1>1. UNCHANGED mirrorVars => MirrorPart'
  BY DEF MirrorPart
<1>2. UNCHANGED <<cacheVars, mirror>> => CachePart'
  BY DEF CachePart
<1>3. UNCHANGED <<loading, reservation, reservedBytes, mirror>> => LoadPart'
  BY DEF LoadPart
<1>4. UNCHANGED <<streamVars, mirror>> => StreamPart'
  BY DEF StreamPart, StreamsCurrent
<1> QED
  BY <1>1, <1>2, <1>3, <1>4

(* A cached resource is read.                                               *)
LEMMA CacheHitStep ==
    ASSUME ReviewIInv, NEW s \in Session, NEW r \in Resource, CacheHit(s, r)
    PROVE  ReviewIInv'
<1>1. PICK k \in 1..Len(entries) :
          entries[k].key = Key(s, r) /\ entries' = Append(Others(Key(s, r)), entries[k])
  BY DEF CacheHit
<1>2. EntriesExact(entries, cachedBytes) /\ entries[k] \in CachedEntry
  BY LenProperties DEF ReviewIInv, CachePart, EntriesExact
<1>3. EntriesExact(entries', cachedBytes')
  BY <1>1, <1>2, PromotionKeeps DEF CacheHit
<1>4. \A i \in 1..Len(entries') : \E j \in 1..Len(entries) : entries'[i] = entries[j]
  <2> DEFINE a == Append(Others(entries[k].key), entries[k])
  <2>1. \A i \in 1..Len(a) : a[i] = entries[k] \/ \E j \in 1..Len(entries) : a[i] = entries[j]
    BY <1>2, OthersAndOne
  <2>2. entries' = a
    BY <1>1
  <2> HIDE DEF a
  <2> QED
    BY <2>1, <2>2
<1>5. CachePart'
  BY <1>3, <1>4 DEF CacheHit, mirrorVars, CachePart, ReviewIInv
<1> QED
  BY <1>5, ReviewUnchanged DEF CacheHit, mirrorVars, loadVars, ReviewIInv

(* A load starts with a reservation that fits.                              *)
LEMMA StartLoadStep ==
    ASSUME ReviewIInv, NEW l \in Load, NEW s \in Session, NEW r \in Resource,
           NEW measured \in {Unmeasured} \cup (Sizes \cap 0..Ceiling),
           StartLoad(l, s, r, measured)
    PROVE  ReviewIInv'
<1> USE ReviewAssumption
<1> DEFINE bytes == IF measured # Unmeasured THEN measured
                    ELSE IF ChunkBytes < Ceiling THEN ChunkBytes ELSE Ceiling
           k == Key(s, r)
<1>1. bytes \in Nat
  BY DEF Unmeasured
<1>2. /\ loading[l] = NoKey /\ mirror[s] # NoAddress /\ \A m \in Load : loading[m] # k
      /\ reservedBytes + bytes <= inFlightBytes
      /\ loading' = [loading EXCEPT ![l] = k]
      /\ reservation' = [reservation EXCEPT ![l] = bytes]
      /\ reservedBytes' = reservedBytes + bytes
      /\ UNCHANGED <<mirrorVars, cacheVars, streamVars>>
  BY DEF StartLoad, MayReserve, Running
<1>3. k \in ReviewKey /\ k # NoKey /\ ~Retired(k, mirror)
  BY <1>2, KeyCurrent DEF ReviewIInv
<1>4. /\ loading \in [Load -> ReviewKey \cup {NoKey}]
      /\ ReservationsExact(reservation, reservedBytes)
      /\ reservation \in [Load -> Nat \cup {-1}]
      /\ \A m \in Load : reservation[m] # -1 => loading[m] # NoKey /\ ~Retired(loading[m], mirror)
      /\ \A m, n \in Load : loading[m] # NoKey /\ loading[m] = loading[n] => m = n
  BY DEF ReviewIInv, LoadPart, ReservationsExact
<1>5. reservation[l] = -1
  BY <1>2, <1>4
<1> HIDE DEF bytes, k
<1>6. ReservationsExact(reservation', reservedBytes')
  <2>1. Holders(reservation) \in SUBSET Load /\ reservedBytes \in Nat
    <3>1. \A m \in Holders(reservation) : reservation[m] \in Nat
      BY <1>4 DEF Holders
    <3> QED
      BY <1>4, <3>1, ReservedType DEF Holders, ReservationsExact
  <2>2. reservedBytes - 0 + bytes = reservedBytes + bytes
    BY <1>1, <2>1
  <2> QED
    BY <1>1, <1>2, <1>4, <1>5, <2>2, ResizeKeeps
<1>7. /\ loading' \in [Load -> ReviewKey \cup {NoKey}]
      /\ \A m \in Load : reservation'[m] # -1 => loading'[m] # NoKey /\ ~Retired(loading'[m], mirror)
      /\ \A m, n \in Load : loading'[m] # NoKey /\ loading'[m] = loading'[n] => m = n
  BY <1>2, <1>3, <1>4
<1>8. mirror' = mirror
  BY <1>2 DEF mirrorVars
<1>9. LoadPart'
  BY <1>6, <1>7, <1>8 DEF LoadPart
<1> QED
  BY <1>2, <1>8, <1>9, ReviewUnchanged DEF ReviewIInv

(* A chunk arrives, in time or too late.                                    *)
LEMMA ChunkStep ==
    ASSUME ReviewIInv, NEW l \in Load, NEW size \in Sizes, NEW n \in 0..ChunkBytes,
           NEW eof \in BOOLEAN, ChunkArrives(l, size, n, eof)
    PROVE  ReviewIInv'
<1> USE ReviewAssumption
<1>1. UNCHANGED <<mirrorVars, streamVars>> /\ mirror' = mirror /\ loading[l] # NoKey
  BY DEF ChunkArrives, mirrorVars
<1>2. MirrorPart' /\ StreamPart'
  BY <1>1, ReviewUnchanged
<1>3. CASE ~(Accepts(l, size, n, eof) /\ MayResize(l, size) /\ Active(l))
  <2>1. EndLoad(l) /\ UNCHANGED cacheVars
    BY <1>3 DEF ChunkArrives
  <2>2. LoadPart' /\ CachePart'
    BY <1>1, <2>1, EndKeeps, ReviewUnchanged DEF ReviewIInv
  <2> QED
    BY <1>2, <2>2 DEF ReviewIInv
<1>4. CASE (Accepts(l, size, n, eof) /\ MayResize(l, size) /\ Active(l)) /\ eof
  <2>1. EndLoad(l) /\ Store(loading[l], size)
    BY <1>4 DEF ChunkArrives
  <2>2. loading[l] \in ReviewKey /\ ~Retired(loading[l], mirror) /\ size \in Nat
    BY <1>1, <1>4 DEF ReviewIInv, LoadPart, Active, Retired
  <2>3. /\ EntriesExact(entries', cachedBytes')
        /\ \A i \in 1..Len(entries') :
              \/ entries'[i].key = loading[l]
              \/ \E k \in 1..Len(entries) : entries'[i] = entries[k]
    BY <2>1, <2>2, StoreKeeps DEF ReviewIInv, CachePart
  <2>4. CachePart'
    BY <1>1, <2>2, <2>3 DEF ReviewIInv, CachePart
  <2>5. LoadPart'
    BY <1>1, <2>1, EndKeeps DEF ReviewIInv
  <2> QED
    BY <1>2, <2>4, <2>5 DEF ReviewIInv
<1>5. CASE (Accepts(l, size, n, eof) /\ MayResize(l, size) /\ Active(l)) /\ ~eof
  <2>1. /\ reservation' = [reservation EXCEPT ![l] = IF reservation[l] = -1 THEN -1 ELSE size]
        /\ reservedBytes' = IF reservation[l] = -1 THEN reservedBytes
                            ELSE reservedBytes - reservation[l] + size
        /\ UNCHANGED <<loading, cacheVars>>
        /\ reservation[l] = -1 \/ reservedBytes - reservation[l] + size <= inFlightBytes
    BY <1>5 DEF ChunkArrives, MayResize
  <2>2. /\ ReservationsExact(reservation, reservedBytes)
        /\ reservation \in [Load -> Nat \cup {-1}]
    BY DEF ReviewIInv, LoadPart, ReservationsExact
  <2>3. ReservationsExact(reservation', reservedBytes')
    <3>1. CASE reservation[l] = -1
      <4>1. reservation' = reservation /\ reservedBytes' = reservedBytes
        BY <2>1, <2>2, <3>1
      <4> QED
        BY <2>2, <4>1
    <3>2. CASE reservation[l] # -1
      <4>1. reservation[l] \in Nat /\ size \in Nat
        BY <2>2, <3>2
      <4>2. /\ reservation' = [reservation EXCEPT ![l] = size]
            /\ reservedBytes' = reservedBytes - reservation[l] + size
            /\ reservedBytes - reservation[l] + size <= inFlightBytes
        BY <2>1, <3>2
      <4> QED
        BY <2>2, <3>2, <4>1, <4>2, ResizeKeeps
    <3> QED
      BY <3>1, <3>2
  <2>4. \A m \in Load : reservation'[m] # -1 => reservation[m] # -1
    BY <2>1, <2>2
  <2>5. LoadPart'
    BY <1>1, <2>1, <2>3, <2>4 DEF ReviewIInv, LoadPart
  <2>6. CachePart'
    BY <1>1, <2>1, ReviewUnchanged
  <2> QED
    BY <1>2, <2>5, <2>6 DEF ReviewIInv
<1> QED
  BY <1>3, <1>4, <1>5

(* A stream opens at the mirrored position, or ends.                        *)
LEMMA StreamStep ==
    ASSUME ReviewIInv, NEW t \in Stream,
           StreamEnds(t) \/ \E s \in Session : OpenStream(t, s)
    PROVE  ReviewIInv'
<1>1. UNCHANGED <<mirrorVars, cacheVars, loadVars>>
  BY DEF StreamEnds, OpenStream
<1>2. StreamPart'
  <2> USE DEF ReviewIInv, StreamPart, StreamsCurrent, MirrorPart, Mirrored
  <2>1. CASE StreamEnds(t)
    BY <2>1 DEF StreamEnds, mirrorVars
  <2>2. ASSUME NEW s \in Session, OpenStream(t, s) PROVE StreamPart'
    BY <2>2 DEF OpenStream, mirrorVars
  <2> QED
    BY <2>1, <2>2
<1> QED
  BY <1>1, <1>2, ReviewUnchanged DEF mirrorVars, loadVars, ReviewIInv

(* The producers' calls are publications of these live sessions.            *)
ProducerCall(alive, addresses, capabilities, interrupted, slow) ==
    /\ alive \in SUBSET Session
    /\ addresses \in Mirrored
    /\ Publish(alive, addresses, capabilities, interrupted, slow)
    /\ \A s \in Session :
          \/ addresses[s] = mirror[s]
          \/ \E incoming \in Address \cup {NoAddress}, matching \in BOOLEAN :
                addresses[s] = Observed(mirror[s], incoming, matching)

(* Every other step leaves the mirror, and what streams were told, alone.   *)
LEMMA PublishingSteps ==
    ASSUME ReviewIInv, ReviewNext
    PROVE  \/ \E alive, addresses, capabilities, interrupted, slow :
                 ProducerCall(alive, addresses, capabilities, interrupted, slow)
           \/ \E s \in Session, r \in Resource : CacheHit(s, r)
           \/ \E l \in Load, s \in Session, r \in Resource,
                 size \in {Unmeasured} \cup (Sizes \cap 0..Ceiling) : StartLoad(l, s, r, size)
           \/ \E l \in Load : ReadFails(l)
           \/ \E l \in Load, size \in Sizes, n \in 0..ChunkBytes, eof \in BOOLEAN :
                 ChunkArrives(l, size, n, eof)
           \/ \E t \in Stream : StreamEnds(t) \/ \E s \in Session : OpenStream(t, s)
<1> DEFINE Called == \E alive, addresses, capabilities, interrupted, slow :
                         ProducerCall(alive, addresses, capabilities, interrupted, slow)
<1>1. live \subseteq Session /\ mirror \in Mirrored
  BY DEF ReviewIInv, MirrorPart
<1>2. ASSUME NEW s \in Session, NEW incoming \in Address \cup {NoAddress},
             NEW matching \in BOOLEAN
      PROVE  /\ [mirror EXCEPT ![s] = Observed(@, incoming, matching)] \in Mirrored
             /\ \A x \in Session :
                   \/ [mirror EXCEPT ![s] = Observed(@, incoming, matching)][x] = mirror[x]
                   \/ \E i \in Address \cup {NoAddress}, m \in BOOLEAN :
                         [mirror EXCEPT ![s] = Observed(@, incoming, matching)][x]
                             = Observed(mirror[x], i, m)
  <2>1. mirror[s] \in Address \cup {NoAddress}
    BY <1>1 DEF Mirrored
  <2>2. Observed(mirror[s], incoming, matching) \in Address \cup {NoAddress}
    BY <2>1, ObservedType
  <2> QED
    BY <1>1, <2>2 DEF Mirrored
<1>3. ASSUME NEW s \in Session, NEW takeover, NEW c, NEW p \in Address \X BOOLEAN \cup {<<NoAddress, FALSE>>},
             NEW slow, NEW renamedFrom, Register(s, renamedFrom, takeover, c, p[1], p[2], slow)
      PROVE  Called
  <2>1. p[1] \in Address \cup {NoAddress} /\ p[2] \in BOOLEAN
    <3>1. CASE p \in Address \X BOOLEAN
      BY <3>1
    <3>2. CASE p = <<NoAddress, FALSE>>
      BY <3>2
    <3> QED
      BY <3>1, <3>2
  <2>2. (live \ renamedFrom) \cup {s} \in SUBSET Session
    BY <1>1
  <2>3. ProducerCall((live \ renamedFrom) \cup {s}, [mirror EXCEPT ![s] = Observed(@, p[1], p[2])],
                     [capabilityDigests EXCEPT ![s] = c], IF takeover THEN {s} ELSE {}, slow)
    BY <1>2, <1>3, <2>1, <2>2 DEF Register, ProducerCall
  <2> QED
    BY <2>3
<1>4. ASSUME NEW s \in Session, NEW a \in Address, NEW slow, UpdateReviewSnapshot(s, a, slow)
      PROVE  Called
  <2> DEFINE m == (mirror[s] # NoAddress /\ a # NoAddress /\ Generation(mirror[s]) = Generation(a))
  <2>1. m \in BOOLEAN
    OBVIOUS
  <2>2. Publish(live, [mirror EXCEPT ![s] = Observed(@, a, m)], capabilityDigests, {}, slow)
    BY <1>4 DEF UpdateReviewSnapshot
  <2> HIDE DEF m
  <2>3. ProducerCall(live, [mirror EXCEPT ![s] = Observed(@, a, m)], capabilityDigests, {}, slow)
    BY <1>1, <1>2, <2>1, <2>2 DEF ProducerCall
  <2> QED
    BY <2>3
<1>5. ASSUME NEW gone, NEW slow, SessionsRemoved(gone, slow) PROVE Called
  <2>1. ProducerCall(live \ gone, mirror, capabilityDigests, {}, slow)
    BY <1>1, <1>5 DEF SessionsRemoved, ProducerCall
  <2> QED
    BY <2>1
<1>6. ASSUME ReviewShutdown PROVE Called
  <2>1. ProducerCall({}, mirror, capabilityDigests, {}, {})
    BY <1>1, <1>6 DEF ReviewShutdown, ProducerCall
  <2> QED
    BY <2>1
<1> HIDE DEF Called
<1> QED
  BY <1>3, <1>4, <1>5, <1>6, Zenon DEF ReviewNext, Called

(* Every step keeps the invariant.                                          *)
LEMMA ReviewStep ==
    ASSUME ReviewIInv, ReviewNext
    PROVE  ReviewIInv'
<1>1. ASSUME NEW alive, NEW addresses, NEW capabilities, NEW interrupted, NEW slow,
             ProducerCall(alive, addresses, capabilities, interrupted, slow)
      PROVE  ReviewIInv'
  BY <1>1, PublishKeeps DEF ProducerCall
<1>2. ASSUME NEW l \in Load, ReadFails(l) PROVE ReviewIInv'
  <2>1. EndLoad(l) /\ UNCHANGED <<mirrorVars, cacheVars, streamVars>> /\ UNCHANGED mirror
    BY <1>2 DEF ReadFails, mirrorVars
  <2> QED
    BY <2>1, EndKeeps, ReviewUnchanged DEF ReviewIInv
<1> QED
  BY <1>1, <1>2, PublishingSteps, CacheHitStep, StartLoadStep, ChunkStep, StreamStep

(* The inductive invariant holds throughout.                                *)
THEOREM ReviewInvariant == ReviewSpec => []ReviewIInv
<1>1. ReviewIInv /\ [ReviewNext]_reviewVars => ReviewIInv'
  <2> SUFFICES ASSUME ReviewIInv, UNCHANGED reviewVars PROVE ReviewIInv'
    BY ReviewStep
  <2> QED
    BY ReviewUnchanged DEF reviewVars, mirrorVars, loadVars, ReviewIInv
<1> QED
  BY <1>1, ReviewInitIInv, PTL DEF ReviewSpec

(* ReviewIsCurrent: whatever is cached or in flight belongs to the          *)
(* generation that is mirrored, and every stream was told its position.     *)
THEOREM ReviewCurrent == ReviewSpec => []ReviewIsCurrent
<1>1. ReviewIInv => ReviewIsCurrent
  BY DEF ReviewIInv, MirrorPart, CachePart, LoadPart, StreamPart, ReviewIsCurrent, CacheIsCurrent
<1> QED
  BY <1>1, ReviewInvariant, PTL

(* ReviewBytesExact: both byte counters are exact and bounded.              *)
THEOREM ReviewBytesSafe == ReviewSpec => []ReviewBytesExact
<1>1. ReviewIInv => ReviewBytesExact
  <2> SUFFICES ASSUME ReviewIInv PROVE ReviewBytesExact
    OBVIOUS
  <2>1. DroppedBytes(Holders(reservation)) = Reserved(reservation, Holders(reservation))
    BY DroppedSame DEF DroppedBytes
  <2> QED
    BY <2>1 DEF ReviewIInv, CachePart, LoadPart, EntriesExact, ReservationsExact, Holders,
                ReviewBytesExact
<1> QED
  BY <1>1, ReviewInvariant, PTL

(* What a publication that replaces the mirrored one looks like.            *)
LEMMA ObservedAdvances ==
    ASSUME NEW a \in Address, NEW incoming \in Address \cup {NoAddress}, NEW matching,
           NEW b, b = Observed(a, incoming, matching), b # a
    PROVE  /\ b.producer = a.producer
           /\ \/ a.sequence < b.sequence
              \/ a.sequence = b.sequence /\ a.revision < b.revision
<1>1. a \in [producer : Producer, sequence : Nat, revision : Nat]
  BY ReviewAssumption
<1>2. a # NoAddress
  <2>1. "producer" \in DOMAIN a /\ "producer" \notin DOMAIN NoAddress
    BY <1>1 DEF NoAddress
  <2> QED
    BY <2>1
<1>3. b = incoming /\ incoming # NoAddress /\ Classify(a, incoming) \in {"accepted", "gap"}
  BY <1>2 DEF Observed
<1>4. incoming \in [producer : Producer, sequence : Nat, revision : Nat]
  BY <1>3, ReviewAssumption
<1> QED
  BY <1>1, <1>3, <1>4 DEF Classify

(* StreamsAdvance: a stream that stays open only moves forward, and only    *)
(* under the capability it was opened with.                                 *)
THEOREM StreamsOnlyAdvance == ReviewSpec => StreamsAdvance
<1> DEFINE Forward == \A t \in streams \cap streams' :
              streamAddress'[t] # streamAddress[t] =>
                LET a == streamAddress[t]
                    b == streamAddress'[t]
                IN  /\ a.producer = b.producer
                    /\ \/ a.sequence < b.sequence
                       \/ a.sequence = b.sequence /\ a.revision < b.revision
                    /\ capabilityDigests'[streamSession[t]] = streamCapability[t]
<1>1. ASSUME ReviewIInv, ReviewNext PROVE Forward
  <2>1. ASSUME NEW alive, NEW addresses, NEW capabilities, NEW interrupted, NEW slow,
               ProducerCall(alive, addresses, capabilities, interrupted, slow)
        PROVE  Forward
    <3> DEFINE kept == Reconciled(alive, addresses)
               held == [s \in Session |-> IF s \in alive THEN capabilities[s] ELSE NoCapability]
    <3>1. NotifyStreams(kept, held, slow) /\ capabilityDigests' = held /\ addresses \in Mirrored
      BY <2>1 DEF ProducerCall, Publish
    <3> SUFFICES ASSUME NEW t \in streams \cap streams', streamAddress'[t] # streamAddress[t]
                 PROVE  /\ streamAddress[t].producer = streamAddress'[t].producer
                        /\ \/ streamAddress[t].sequence < streamAddress'[t].sequence
                           \/ /\ streamAddress[t].sequence = streamAddress'[t].sequence
                              /\ streamAddress[t].revision < streamAddress'[t].revision
                        /\ capabilityDigests'[streamSession[t]] = streamCapability[t]
      OBVIOUS
    <3> DEFINE s == streamSession[t]
    <3>2. /\ t \in Stream /\ s \in Session /\ mirror[s] \in Address
          /\ streamAddress[t] = mirror[s]
      BY <1>1 DEF ReviewIInv, StreamPart, StreamsCurrent, MirrorPart, Mirrored
    <3>3. kept[s] # NoAddress => kept[s] = addresses[s]
      BY <3>2 DEF Reconciled
    <3> HIDE DEF kept, held
    <3>4. /\ streamAddress'[t] = kept[s] /\ kept[s] # NoAddress /\ kept[s] # mirror[s]
          /\ held[s] = streamCapability[t]
      BY <3>1, <3>2 DEF NotifyStreams
    <3>5. PICK incoming \in Address \cup {NoAddress}, matching \in BOOLEAN :
              addresses[s] = Observed(mirror[s], incoming, matching)
      BY <2>1, <3>2, <3>3, <3>4 DEF ProducerCall
    <3>6. addresses[s] # mirror[s] /\ streamAddress'[t] = addresses[s]
      BY <3>3, <3>4
    <3> QED
      BY <3>1, <3>2, <3>4, <3>5, <3>6, ObservedAdvances
  <2>2. ASSUME NEW l \in Load, ReadFails(l) PROVE Forward
    BY <2>2 DEF ReadFails, streamVars
  <2>3. ASSUME NEW s \in Session, NEW r \in Resource, CacheHit(s, r) PROVE Forward
    BY <2>3 DEF CacheHit, streamVars
  <2>4. ASSUME NEW l \in Load, NEW s \in Session, NEW r \in Resource, NEW size,
               StartLoad(l, s, r, size)
        PROVE  Forward
    BY <2>4 DEF StartLoad, streamVars
  <2>5. ASSUME NEW l \in Load, NEW size, NEW n, NEW eof, ChunkArrives(l, size, n, eof)
        PROVE  Forward
    BY <2>5 DEF ChunkArrives, streamVars
  <2>6. ASSUME NEW t \in Stream, StreamEnds(t) PROVE Forward
    BY <1>1, <2>6 DEF StreamEnds, ReviewIInv, StreamPart
  <2>7. ASSUME NEW t \in Stream, NEW s \in Session, OpenStream(t, s) PROVE Forward
    BY <1>1, <2>7 DEF OpenStream, ReviewIInv, StreamPart
  <2> HIDE DEF Forward
  <2> QED
    BY <1>1, <2>1, <2>2, <2>3, <2>4, <2>5, <2>6, <2>7, PublishingSteps, Zenon
<1>2. ReviewIInv /\ [ReviewNext]_reviewVars => [Forward]_reviewVars
  BY <1>1
<1> QED
  BY <1>2, ReviewInvariant, PTL DEF ReviewSpec, StreamsAdvance

-----------------------------------------------------------------------------
(***************************************************************************)
(* The server adapters.                                                    *)
(***************************************************************************)

(* What the adapter's variables hold.                                       *)
AdapterTypeOK ==
    /\ server \in [runtime : {"bun", "node"}, authenticates : BOOLEAN]
    /\ socket \in [Peer -> {"none", "open", "closing"}]
    /\ admissions \subseteq Peer /\ trusted \subseteq Peer
    /\ unflushed \in [Peer -> Nat] /\ framing \in [Peer -> Nat]
    /\ writes \in [Peer -> Seq(Nat)]
    /\ handling \in [Handler -> {"idle", "handling", "streaming", "reading", "returned", "retained",
                                 "pulled", "writing"}]
    /\ bodyBytes \in [Handler -> Nat]
    /\ charged \in [Handler -> Nat]
    /\ stopStage \in {"running", "stopping", "stopped"}
    /\ transportStopSettled \in BOOLEAN

(* What the peers' reservations amount to, and that it covers what was      *)
(* given to the native sockets until Bun's stop drops every reservation.    *)
OutboundPart ==
    /\ outboundUsed = Reserved([p \in Peer |-> ChargedTo(p)], Peer)
    /\ outboundUsed <= maxOutboundBytesTotal
    /\ \A p \in Peer : unflushed[p] <= maxOutboundBytesPerPeer /\ (~Connected(p) => unflushed[p] = 0)
    /\ ~(stopStage = "stopped" /\ Bun) => \A p \in Peer : unflushed[p] <= ChargedTo(p)
    /\ stopStage = "stopped" /\ Bun => \A p \in Peer : writes[p] = <<>>

(* What the responses reserve, and that a stopped server handles none.      *)
ResponsePart ==
    /\ responsesUsed = Reserved(charged, Handler)
    /\ responsesUsed <= maxInFlightHttpResponseBytes
    /\ stopStage = "stopped" => ActiveHandlers(handling) = {}

(* A place is held by exactly the connected peers that are not trusted yet, *)
(* only connected peers are, and none is left once the transport or Node's  *)
(* server has stopped.                                                      *)
AdmissionPart ==
    /\ Cardinality(admissions) <= maxUnauthenticatedSockets
    /\ \A p \in trusted : Connected(p)
    /\ admissions = {p \in Peer : server.authenticates /\ Connected(p) /\ p \notin trusted}
    /\ transportStopSettled \/ (stopStage = "stopped" /\ Node) => \A p \in Peer : ~Connected(p)
    /\ stopStage = "running" => ~transportStopSettled
    /\ stopStage = "stopped" /\ Bun => admissions = {}

(* The inductive invariant of the adapters.                                 *)
AdapterIInv == AdapterTypeOK /\ OutboundPart /\ ResponsePart /\ AdmissionPart

(* What a sequence of reservations amounts to.                              *)
Total(q) == Reserved(q, 1..Len(q))

(* It grows with each reservation and shrinks by the oldest.                *)
LEMMA TotalOf ==
    ASSUME NEW q \in Seq(Nat)
    PROVE  /\ Total(q) \in Nat
           /\ \A n \in Nat : Append(q, n) \in Seq(Nat) /\ Total(Append(q, n)) = Total(q) + n
           /\ q # <<>> => Tail(q) \in Seq(Nat) /\ Total(Tail(q)) <= Total(q)
<1> DEFINE c == [n \in Nat |-> n]
<1>1. \A r \in Seq(Nat) : Weight(c, r) = Total(r)
  <2> SUFFICES ASSUME NEW r \in Seq(Nat) PROVE Weight(c, r) = Total(r)
    OBVIOUS
  <2>1. \A i \in 1..Len(r) : Weights(c, r)[i] = r[i]
    BY LenProperties DEF Weights
  <2> QED
    BY <2>1, ReservedSame DEF Weight, Total
<1>2. c \in [Nat -> Nat]
  OBVIOUS
<1> HIDE DEF c
<1>3. \A r \in Seq(Nat) : Total(r) \in Nat
  BY <1>1, <1>2, WeightType
<1>4. ASSUME NEW n \in Nat PROVE Append(q, n) \in Seq(Nat) /\ Total(Append(q, n)) = Total(q) + n
  <2>1. Append(q, n) \in Seq(Nat) /\ c[n] = n
    BY DEF c
  <2>2. Weight(c, Append(q, n)) = Weight(c, q) + c[n]
    BY <1>2, WeightAppend
  <2> QED
    BY <1>1, <2>1, <2>2
<1>5. ASSUME q # <<>> PROVE Tail(q) \in Seq(Nat) /\ Total(Tail(q)) <= Total(q)
  <2>1. Tail(q) = SubSeq(q, 2, Len(q)) /\ Tail(q) \in Seq(Nat) /\ Len(q) \in Nat /\ Len(q) >= 1
    BY <1>5
  <2>2. SubSeq(q, 1, 1) \in Seq(Nat) /\ 1 \in 0..Len(q)
    BY <2>1, SubSeqProperties
  <2>3. Weight(c, q) = Weight(c, SubSeq(q, 1, 1)) + Weight(c, SubSeq(q, 1 + 1, Len(q)))
    BY <1>2, <2>2, WeightCut
  <2>4. Weight(c, q) = Total(q) /\ Weight(c, SubSeq(q, 1, 1)) = Total(SubSeq(q, 1, 1))
        /\ Weight(c, SubSeq(q, 2, Len(q))) = Total(Tail(q))
    BY <1>1, <2>1, <2>2
  <2>5. Total(q) \in Nat /\ Total(SubSeq(q, 1, 1)) \in Nat /\ Total(Tail(q)) \in Nat
    BY <1>3, <2>1, <2>2
  <2>6. Total(q) = Total(SubSeq(q, 1, 1)) + Total(Tail(q))
    BY <2>3, <2>4
  <2> QED
    BY <2>1, <2>5, <2>6
<1> QED
  BY <1>3, <1>4, <1>5

(* Bun's one reservation amounts to what it was made for.                   *)
LEMMA HoldingTotal ==
    ASSUME NEW n \in Nat
    PROVE  Holding(n) \in Seq(Nat) /\ Total(Holding(n)) = n /\ Total(<<>>) = 0
           /\ <<>> \in Seq(Nat)
<1>1. 1..Len(<<>>) = {} /\ <<>> \in Seq(Nat)
  OBVIOUS
<1>2. Total(<<>>) = 0
  BY <1>1, ReservedNone DEF Total
<1>3. <<n>> \in Seq(Nat) /\ 1..Len(<<n>>) = {1} /\ <<n>>[1] = n
  OBVIOUS
<1>4. Total(<<n>>) = n
  BY <1>3, ReservedOne DEF Total
<1> QED
  BY <1>1, <1>2, <1>3, <1>4 DEF Holding

(* What each peer is charged.                                               *)
LEMMA ChargedTotals ==
    ASSUME AdapterTypeOK
    PROVE  \A p \in Peer : ChargedTo(p) = Total(writes[p]) /\ ChargedTo(p) \in Nat
                           /\ writes[p] \in Seq(Nat)
BY TotalOf DEF AdapterTypeOK, ChargedTo, Total

(* A socket that at most begins to close is still there.                    *)
LEMMA StillConnected ==
    ASSUME AdapterTypeOK, NEW p \in Peer, socket' = socket \/ (Connected(p) /\ Closes(p))
    PROVE  /\ socket' \in [Peer -> {"none", "open", "closing"}]
           /\ \A q \in Peer : Connected(q)' <=> Connected(q)
BY DEF AdapterTypeOK, Connected, Closes

(* A peer's reservations change to q, with n bytes in its socket that they  *)
(* cover, and nothing else is charged.                                      *)
LEMMA ChargeKeeps ==
    ASSUME AdapterTypeOK, OutboundPart, NEW p \in Peer, NEW q \in Seq(Nat), NEW n \in Nat,
           NEW frames \in Nat, Charge(p, q, n, frames), UNCHANGED <<server, stopStage>>,
           socket' = socket \/ (Connected(p) /\ Closes(p)),
           \/ outboundUsed - ChargedTo(p) + Total(q) <= maxOutboundBytesTotal
           \/ Total(q) <= ChargedTo(p),
           n <= Total(q), n <= maxOutboundBytesPerPeer, ~Connected(p) => n = 0,
           ~(stopStage = "stopped" /\ Bun)
    PROVE  /\ OutboundPart' /\ writes' \in [Peer -> Seq(Nat)]
           /\ unflushed' \in [Peer -> Nat] /\ framing' \in [Peer -> Nat]
<1> DEFINE f == [r \in Peer |-> ChargedTo(r)]
           g == [r \in Peer |-> ChargedTo(r)']
<1>1. \A r \in Peer : ChargedTo(r) = Total(writes[r]) /\ ChargedTo(r) \in Nat
                      /\ writes[r] \in Seq(Nat)
  BY ChargedTotals
<1>2. /\ writes' = [writes EXCEPT ![p] = q]
      /\ unflushed' = [unflushed EXCEPT ![p] = n]
      /\ framing' = [framing EXCEPT ![p] = frames]
      /\ outboundUsed' = outboundUsed - ChargedTo(p) + Total(q)
  BY DEF Charge, Total
<1>3. /\ writes' \in [Peer -> Seq(Nat)] /\ unflushed' \in [Peer -> Nat] /\ framing' \in [Peer -> Nat]
      /\ writes'[p] = q /\ unflushed'[p] = n
      /\ \A r \in Peer \ {p} : writes'[r] = writes[r] /\ unflushed'[r] = unflushed[r]
  BY <1>2 DEF AdapterTypeOK
<1>4. Total(q) \in Nat
  BY TotalOf
<1>5. ChargedTo(p)' = Total(q) /\ \A r \in Peer \ {p} : ChargedTo(r)' = ChargedTo(r)
  BY <1>3 DEF ChargedTo, Total
<1>6. \A r \in Peer : f[r] \in Nat /\ g[r] \in Nat
  BY <1>1, <1>4, <1>5
<1>7. f[p] = ChargedTo(p) /\ g[p] = Total(q) /\ \A r \in Peer \ {p} : g[r] = f[r]
  BY <1>5
<1>8. outboundUsed = Reserved(f, Peer) /\ outboundUsed <= maxOutboundBytesTotal
      /\ (Reserved([r \in Peer |-> ChargedTo(r)], Peer))' = Reserved(g, Peer)
  BY DEF OutboundPart
<1>9. IsFiniteSet(Peer) /\ maxOutboundBytesTotal \in Nat
  BY AdapterAssumption
<1> HIDE DEF f, g
<1>10. Reserved(g, Peer) = Reserved(f, Peer) - f[p] + g[p] /\ Reserved(f, Peer) \in Nat
  BY <1>6, <1>7, <1>9, ReservedChange, ReservedType
<1>11. outboundUsed' = Reserved(g, Peer)
  BY <1>2, <1>7, <1>8, <1>10
<1>12. outboundUsed' <= maxOutboundBytesTotal
  BY <1>1, <1>2, <1>4, <1>8, <1>9, <1>10
<1>13. \A r \in Peer : unflushed'[r] <= ChargedTo(r)'
  BY <1>3, <1>5 DEF OutboundPart
<1>14. \A r \in Peer : /\ unflushed'[r] <= maxOutboundBytesPerPeer
                       /\ ~Connected(r)' => unflushed'[r] = 0
  BY <1>3, StillConnected DEF OutboundPart
<1> QED
  BY <1>3, <1>8, <1>11, <1>12, <1>13, <1>14 DEF OutboundPart, Bun
(* Where a request may be.                                                  *)
RequestStage ==
    {"idle", "handling", "streaming", "reading", "returned", "retained", "pulled", "writing"}

(* The places of the sockets the daemon does not know, and that what is     *)
(* held in the sockets is within its limit and covered.                     *)
Unknown(sockets, known) ==
    {p \in Peer : server.authenticates /\ sockets[p] # "none" /\ p \notin known}
Covered(sockets, kept, held) ==
    \A p \in Peer : /\ held[p] <= maxOutboundBytesPerPeer
                    /\ sockets[p] = "none" => held[p] = 0
                    /\ ~(stopStage = "stopped" /\ Bun) => held[p] <= Total(kept[p])

(* What a callback may leave: no more than was charged, and places and a    *)
(* stage of the stop that agree with its sockets.                           *)
Leaves(stage, stages, sockets, admitted, kept, settled) ==
    /\ stage \in {"running", "stopping", "stopped"} /\ stages \in [Handler -> RequestStage]
    /\ sockets \in [Peer -> {"none", "open", "closing"}] /\ admitted \in SUBSET Peer
    /\ kept \in [Peer -> Seq(Nat)] /\ settled \in BOOLEAN
    /\ stopStage = "stopped" <=> stage = "stopped"
    /\ stage = "stopped" => ActiveHandlers(stages) = {}
    /\ stage = "stopped" /\ Bun => admitted = {} /\ \A p \in Peer : kept[p] = <<>>
    /\ stage = "running" => ~settled
    /\ settled \/ (stage = "stopped" /\ Node) => \A p \in Peer : sockets[p] = "none"
    /\ \A p \in Peer : Total(kept[p]) <= ChargedTo(p)
    /\ Covered(sockets, kept, unflushed')
    /\ Cardinality(admitted) <= maxUnauthenticatedSockets
    /\ \A p \in trusted' : sockets[p] # "none"
    /\ admitted = Unknown(sockets, trusted')

(* The end of such a callback: it may complete the stop, and gives back     *)
(* exactly what is dropped.                                                 *)
LEMMA LeaveKeeps ==
    ASSUME AdapterTypeOK, OutboundPart, server' = server,
           NEW stage, NEW stages, NEW sockets, NEW admitted, NEW kept, NEW settled,
           Leaves(stage, stages, sockets, admitted, kept, settled),
           Leave(stage, stages, sockets, admitted, kept, settled)
    PROVE  /\ OutboundPart' /\ AdmissionPart'
           /\ stopStage' \in {stage, "stopped"} /\ handling' = stages /\ socket' = sockets
           /\ transportStopSettled' = settled
           /\ writes' \in [Peer -> Seq(Nat)]
           /\ admissions' \subseteq admitted
           /\ stopStage' = "stopped" => ActiveHandlers(handling)' = {}
<1> DEFINE done == /\ stage = "stopping"
                   /\ IF Bun THEN BunFinishes(stages, admitted, settled)
                      ELSE NodeFinishes(stages, sockets)
           left == IF Bun /\ done THEN [p \in Peer |-> <<>>] ELSE kept
           released == [p \in Peer |-> ChargedTo(p) - Reserved(left[p], 1..Len(left[p]))]
           f == [p \in Peer |-> ChargedTo(p)]
           g == [p \in Peer |-> Total(left[p])]
<1>0. /\ stage \in {"running", "stopping", "stopped"} /\ stages \in [Handler -> RequestStage]
      /\ sockets \in [Peer -> {"none", "open", "closing"}] /\ admitted \in SUBSET Peer
      /\ kept \in [Peer -> Seq(Nat)] /\ settled \in BOOLEAN
      /\ stopStage = "stopped" <=> stage = "stopped"
      /\ stage = "stopped" => ActiveHandlers(stages) = {}
      /\ stage = "stopped" /\ Bun => admitted = {} /\ \A p \in Peer : kept[p] = <<>>
      /\ stage = "running" => ~settled
      /\ settled \/ (stage = "stopped" /\ Node) => \A p \in Peer : sockets[p] = "none"
      /\ \A p \in Peer : Total(kept[p]) <= ChargedTo(p)
      /\ Covered(sockets, kept, unflushed')
      /\ Cardinality(admitted) <= maxUnauthenticatedSockets
      /\ \A p \in trusted' : sockets[p] # "none"
      /\ admitted = Unknown(sockets, trusted')
  BY DEF Leaves
<1>1. /\ stopStage' = IF done THEN "stopped" ELSE stage
      /\ handling' = stages /\ socket' = sockets
      /\ admissions' = IF Bun /\ done THEN {} ELSE admitted
      /\ writes' = left
      /\ outboundUsed' = outboundUsed - Reserved(released, Peer)
      /\ transportStopSettled' = settled
  BY DEF Leave
<1>2. /\ done => ActiveHandlers(stages) = {}
      /\ done /\ Bun => settled \/ admitted = {}
      /\ done /\ ~Bun => \A p \in Peer : sockets[p] = "none"
  BY DEF BunFinishes, NodeFinishes
<1> HIDE DEF done
<1>3. left \in [Peer -> Seq(Nat)] /\ \A p \in Peer : Total(left[p]) <= ChargedTo(p)
  <2>1. \A p \in Peer : ChargedTo(p) \in Nat
    BY ChargedTotals
  <2>2. <<>> \in Seq(Nat) /\ Total(<<>>) = 0
    BY HoldingTotal
  <2> QED
    BY <1>0, <2>1, <2>2
<1>4. ~(Bun /\ done) => left = kept
  OBVIOUS
<1>5. Bun /\ done => \A p \in Peer : left[p] = <<>>
  OBVIOUS
<1> HIDE DEF left
<1>6. \A p \in Peer : /\ ChargedTo(p) \in Nat /\ Total(left[p]) \in Nat
                      /\ released[p] = ChargedTo(p) - Total(left[p])
  BY <1>3, ChargedTotals, TotalOf DEF Total
<1>7. \A p \in Peer : g[p] \in Nat /\ released[p] \in Nat /\ f[p] = g[p] + released[p]
  BY <1>3, <1>6
<1>8. \A p \in Peer : ChargedTo(p)' = Total(left[p])
  BY <1>1 DEF ChargedTo, Total
<1>9. (Reserved([p \in Peer |-> ChargedTo(p)], Peer))' = Reserved(g, Peer)
  BY <1>8
<1>10. outboundUsed = Reserved(f, Peer) /\ outboundUsed <= maxOutboundBytesTotal
  BY DEF OutboundPart
<1>11. IsFiniteSet(Peer) /\ maxOutboundBytesTotal \in Nat
  BY AdapterAssumption
<1> HIDE DEF f, g, released
<1>12. Reserved(f, Peer) = Reserved(g, Peer) + Reserved(released, Peer)
  BY <1>7, <1>11, ReservedSum
<1>13. Reserved(g, Peer) \in Nat /\ Reserved(released, Peer) \in Nat
  BY <1>7, <1>11, ReservedType
<1>14. outboundUsed' = Reserved(g, Peer) /\ outboundUsed' <= maxOutboundBytesTotal
  BY <1>1, <1>10, <1>11, <1>12, <1>13
<1>15. (Bun' <=> Bun) /\ (Node' <=> Node) /\ (Node <=> ~Bun)
  BY DEF Bun, Node, AdapterTypeOK
<1>16. ~(stopStage' = "stopped" /\ Bun) => left = kept /\ ~(stopStage = "stopped" /\ Bun)
  BY <1>0, <1>1, <1>4
<1>17. ~(stopStage' = "stopped" /\ Bun) => \A p \in Peer : unflushed'[p] <= ChargedTo(p)'
  BY <1>0, <1>8, <1>16 DEF Covered
<1>18. stopStage' = "stopped" /\ Bun => \A p \in Peer : writes'[p] = <<>>
  BY <1>0, <1>1, <1>4, <1>5
<1>19. \A p \in Peer : Connected(p)' <=> sockets[p] # "none"
  BY <1>1 DEF Connected
<1>20. OutboundPart'
  BY <1>0, <1>9, <1>14, <1>15, <1>17, <1>18, <1>19 DEF OutboundPart, Covered
<1>21. stopStage' = "stopped" => ActiveHandlers(handling)' = {}
  BY <1>0, <1>1, <1>2 DEF ActiveHandlers
<1>22. AdmissionPart'
  <2>1. Bun /\ done => admitted = {}
    BY <1>0, <1>2 DEF Unknown
  <2>2. admissions' = admitted
    BY <1>1, <2>1
  <2>3. transportStopSettled' \/ (stopStage' = "stopped" /\ Node) => \A p \in Peer : sockets[p] = "none"
    BY <1>0, <1>1, <1>2, <1>15
  <2>4. /\ stopStage' = "stopped" /\ Bun => admitted = {}
        /\ stopStage' = "running" => ~transportStopSettled'
    BY <1>0, <1>1, <2>1
  <2>5. admitted = {p \in Peer : server.authenticates /\ Connected(p)' /\ p \notin trusted'}
    BY <1>0, <1>19 DEF Unknown
  <2>6. \A p \in trusted' : Connected(p)'
    BY <1>0, <1>1 DEF Connected
  <2> QED
    BY <1>0, <1>15, <1>19, <2>2, <2>3, <2>4, <2>5, <2>6 DEF AdmissionPart
<1>23. stopStage' \in {stage, "stopped"} /\ admissions' \subseteq admitted
  BY <1>1
<1> QED
  BY <1>1, <1>3, <1>20, <1>21, <1>22, <1>23

(* A response is charged anew and stays within the budget.                  *)
LEMMA RechargeKeeps ==
    ASSUME AdapterTypeOK, ResponsePart, NEW h \in Handler, NEW n \in Nat, Recharge(h, n),
           n = 0 \/ responsesUsed - charged[h] + n <= maxInFlightHttpResponseBytes
    PROVE  /\ charged' \in [Handler -> Nat]
           /\ responsesUsed' = Reserved(charged', Handler)
           /\ responsesUsed' <= maxInFlightHttpResponseBytes
<1>1. /\ charged' = [charged EXCEPT ![h] = n]
      /\ responsesUsed' = responsesUsed - charged[h] + n
      /\ charged \in [Handler -> Nat]
      /\ responsesUsed = Reserved(charged, Handler)
      /\ responsesUsed <= maxInFlightHttpResponseBytes
  BY DEF Recharge, AdapterTypeOK, ResponsePart
<1>2. charged' \in [Handler -> Nat] /\ charged'[h] = n
      /\ \A i \in Handler \ {h} : charged'[i] = charged[i]
  BY <1>1
<1>3. IsFiniteSet(Handler) /\ maxInFlightHttpResponseBytes \in Nat
  BY AdapterAssumption
<1>4. \A i \in Handler : charged[i] \in Nat /\ charged'[i] \in Nat
  BY <1>1, <1>2
<1>5. Reserved(charged', Handler) = Reserved(charged, Handler) - charged[h] + charged'[h]
      /\ Reserved(charged, Handler) \in Nat
  BY <1>2, <1>3, <1>4, ReservedChange, ReservedType
<1> QED
  BY <1>1, <1>2, <1>3, <1>4, <1>5
(* Fewer admissions stay within the limit.                                  *)
LEMMA FewerAdmitted ==
    ASSUME NEW S \in SUBSET Peer, NEW T \in SUBSET S, Cardinality(S) <= maxUnauthenticatedSockets
    PROVE  Cardinality(T) <= maxUnauthenticatedSockets
<1>1. IsFiniteSet(S)
  BY AdapterAssumption, FS_Subset
<1>2. IsFiniteSet(T) /\ Cardinality(T) <= Cardinality(S)
  BY <1>1, FS_Subset
<1>3. Cardinality(S) \in Nat /\ Cardinality(T) \in Nat /\ maxUnauthenticatedSockets \in Nat
  BY <1>1, <1>2, FS_CardinalityType, AdapterAssumption
<1> QED
  BY <1>2, <1>3

(* The adapter before its first peer.                                       *)
LEMMA AdapterInitIInv ==
    ASSUME AdapterInit
    PROVE  AdapterIInv
<1>1. <<>> \in Seq(Nat) /\ Total(<<>>) = 0
  BY HoldingTotal
<1>2. AdapterTypeOK
  BY <1>1 DEF AdapterInit, AdapterTypeOK
<1>3. \A p \in Peer : ChargedTo(p) = 0
  BY <1>1 DEF AdapterInit, ChargedTo, Total
<1>4. Reserved([p \in Peer |-> ChargedTo(p)], Peer) = 0 /\ Reserved(charged, Handler) = 0
  <2>1. \A h \in Handler : charged[h] = 0
    BY DEF AdapterInit
  <2> QED
    BY <1>3, <2>1, ReservedZero
<1>5. OutboundPart /\ ResponsePart
  BY <1>1, <1>3, <1>4, AdapterAssumption DEF AdapterInit, OutboundPart, ResponsePart, Bun
<1>6. AdmissionPart
  BY FS_EmptySet, AdapterAssumption DEF AdapterInit, AdmissionPart, Connected
<1> QED
  BY <1>2, <1>5, <1>6 DEF AdapterIInv

(* Nothing is charged or dropped.                                           *)
LEMMA ChargesUntouched ==
    ASSUME AdapterIInv, UNCHANGED <<server, outboundVars, bodyBytes, chargeVars, stopStage>>,
           stopStage = "stopped" => handling' = handling,
           \A p \in Peer : Connected(p) => Connected(p)'
    PROVE  OutboundPart' /\ ResponsePart'
<1>1. OutboundPart /\ ResponsePart
  BY DEF AdapterIInv
<1>2. UNCHANGED <<server, unflushed, framing, writes, outboundUsed, charged, responsesUsed, stopStage>>
  BY DEF outboundVars, chargeVars
<1>3. \A p \in Peer : ChargedTo(p)' = ChargedTo(p)
  BY <1>2 DEF ChargedTo
<1>4. (Reserved([p \in Peer |-> ChargedTo(p)], Peer))' = Reserved([p \in Peer |-> ChargedTo(p)], Peer)
  BY <1>3
<1>5. OutboundPart'
  BY <1>1, <1>2, <1>3, <1>4 DEF OutboundPart, Bun
<1>6. ResponsePart'
  BY <1>1, <1>2 DEF ResponsePart, ActiveHandlers
<1> QED
  BY <1>5, <1>6

(* A socket is trusted, or told to close.                                   *)
LEMMA SocketKeeps ==
    ASSUME AdapterIInv, NEW p \in Peer,
           MarkAuthenticated(p) \/ HandshakeTimesOut(p) \/ MessageRefused(p)
    PROVE  AdapterIInv'
<1>1. AdapterTypeOK /\ AdmissionPart
  BY DEF AdapterIInv
<1>2. /\ UNCHANGED <<server, outboundVars, bodyBytes, chargeVars, stopStage, handling,
                     transportStopSettled>>
      /\ socket' = socket \/ (Connected(p) /\ Closes(p))
  BY DEF MarkAuthenticated, HandshakeTimesOut, MessageRefused, httpVars, stopVars, Connected
<1>3. /\ socket' \in [Peer -> {"none", "open", "closing"}]
      /\ \A q \in Peer : Connected(q)' <=> Connected(q)
  BY <1>1, <1>2, StillConnected
<1>4. OutboundPart' /\ ResponsePart'
  BY <1>2, <1>3, ChargesUntouched
<1>5. \/ trusted' = trusted \cup {p} /\ admissions' = admissions \ {p} /\ Connected(p)
      \/ UNCHANGED <<trusted, admissions>>
  BY DEF MarkAuthenticated, HandshakeTimesOut, MessageRefused
<1>6. Cardinality(admissions') <= maxUnauthenticatedSockets
  BY <1>1, <1>5, FewerAdmitted DEF AdmissionPart, AdapterTypeOK
<1>7. AdmissionPart'
  BY <1>1, <1>2, <1>3, <1>5, <1>6 DEF AdmissionPart, AdapterTypeOK, Bun, Node
<1>8. AdapterTypeOK'
  BY <1>1, <1>2, <1>3, <1>5 DEF AdapterTypeOK, outboundVars, chargeVars
<1> QED
  BY <1>4, <1>7, <1>8 DEF AdapterIInv

(* A socket is admitted, and under Bun the request that asked for it ends.  *)
LEMMA UpgradeKeeps ==
    ASSUME AdapterIInv, NEW p \in Peer, NEW h \in Handler, Upgrade(p, h)
    PROVE  AdapterIInv'
<1> DEFINE stages == IF Bun THEN [handling EXCEPT ![h] = "idle"] ELSE handling
           sockets == [socket EXCEPT ![p] = "open"]
           admitted == IF server.authenticates THEN admissions \cup {p} ELSE admissions
<1>1. AdapterTypeOK /\ OutboundPart /\ ResponsePart /\ AdmissionPart
  BY DEF AdapterIInv
<1>2. /\ stopStage \in {"running", "stopping"} /\ ~transportStopSettled
      /\ socket[p] = "none" /\ Cardinality(admissions) < maxUnauthenticatedSockets
      /\ Leave(stopStage, stages, sockets, admitted, writes, transportStopSettled)
      /\ UNCHANGED <<server, trusted, unflushed, framing, bodyBytes, charged, responsesUsed>>
  <2>1. stopStage = "running" => ~transportStopSettled
    BY <1>1 DEF AdmissionPart
  <2> QED
    BY <2>1 DEF Upgrade, chargeVars
<1>3. /\ stages \in [Handler -> RequestStage] /\ writes \in [Peer -> Seq(Nat)]
      /\ sockets \in [Peer -> {"none", "open", "closing"}] /\ admitted \in SUBSET Peer
      /\ \A q \in Peer : (sockets[q] # "none") <=> (Connected(q) \/ q = p)
  BY <1>1 DEF AdapterTypeOK, RequestStage, Connected
<1>4. p \notin trusted
  BY <1>1, <1>2 DEF AdmissionPart, Connected
<1>5. Cardinality(admitted) <= maxUnauthenticatedSockets
  <2>1. IsFiniteSet(admissions) /\ Cardinality(admissions) \in Nat
        /\ maxUnauthenticatedSockets \in Nat
    BY <1>1, AdapterAssumption, FS_Subset, FS_CardinalityType DEF AdapterTypeOK
  <2>2. Cardinality(admissions \cup {p}) \in {Cardinality(admissions), Cardinality(admissions) + 1}
    BY <2>1, FS_AddElement
  <2> QED
    BY <1>2, <2>1, <2>2
<1>6. admitted = Unknown(sockets, trusted')
  BY <1>1, <1>2, <1>3, <1>4 DEF AdmissionPart, Unknown
<1>7. \A q \in trusted' : sockets[q] # "none"
  BY <1>1, <1>2, <1>3 DEF AdmissionPart, AdapterTypeOK
<1>8. Covered(sockets, writes, unflushed') /\ \A q \in Peer : Total(writes[q]) <= ChargedTo(q)
  <2>1. \A q \in Peer : ChargedTo(q) = Total(writes[q]) /\ ChargedTo(q) \in Nat
    BY <1>1, ChargedTotals
  <2> QED
    BY <1>1, <1>2, <1>3, <2>1 DEF OutboundPart, Covered
<1> HIDE DEF stages, sockets, admitted
<1>9. /\ OutboundPart' /\ AdmissionPart'
      /\ stopStage' \in {stopStage, "stopped"} /\ handling' = stages /\ socket' = sockets
      /\ transportStopSettled' = transportStopSettled
      /\ writes' \in [Peer -> Seq(Nat)]
      /\ admissions' \subseteq admitted
      /\ stopStage' = "stopped" => ActiveHandlers(handling)' = {}
  <2>1. Leaves(stopStage, stages, sockets, admitted, writes, transportStopSettled)
    BY <1>1, <1>2, <1>3, <1>5, <1>6, <1>7, <1>8 DEF AdapterTypeOK, Leaves
  <2> QED
    BY <1>1, <1>2, <2>1, LeaveKeeps
<1>10. AdapterTypeOK'
  BY <1>1, <1>2, <1>3, <1>9 DEF AdapterTypeOK, RequestStage
<1>11. ResponsePart'
  BY <1>1, <1>2, <1>9 DEF ResponsePart
<1> QED
  BY <1>1, <1>2, <1>9, <1>10, <1>11 DEF AdapterIInv

(* What is sent, flushed and reported does not touch places and requests.   *)
LEMMA TrafficKeeps ==
    ASSUME AdapterIInv, NEW p \in Peer, OutboundPart',
           writes' \in [Peer -> Seq(Nat)],
           unflushed' \in [Peer -> Nat], framing' \in [Peer -> Nat],
           socket' = socket \/ (Connected(p) /\ Closes(p)),
           UNCHANGED <<server, admissions, trusted, httpVars, stopVars>>
    PROVE  AdapterIInv'
<1>1. AdapterTypeOK /\ ResponsePart /\ AdmissionPart
  BY DEF AdapterIInv
<1>2. UNCHANGED <<handling, bodyBytes, charged, responsesUsed, stopStage, transportStopSettled>>
  BY DEF httpVars, chargeVars, stopVars
<1>3. socket' \in [Peer -> {"none", "open", "closing"}]
      /\ \A q \in Peer : Connected(q)' <=> Connected(q)
  BY <1>1, StillConnected
<1>4. AdapterTypeOK'
  BY <1>1, <1>2, <1>3 DEF AdapterTypeOK
<1>5. AdmissionPart'
  BY <1>1, <1>2, <1>3 DEF AdmissionPart, AdapterTypeOK, Bun, Node
<1>6. ResponsePart'
  BY <1>1, <1>2 DEF ResponsePart, ActiveHandlers
<1> QED
  BY <1>2, <1>4, <1>5, <1>6 DEF AdapterIInv

(* The daemon sends.                                                        *)
LEMMA SendKeeps ==
    ASSUME AdapterIInv, NEW p \in Peer, NEW b \in SendSizes,
           NEW result \in {"sent", "dropped", "threw", "refused"},
           NEW n \in 0..maxOutboundBytesPerPeer, NEW frames \in 0..FrameBytes,
           Send(p, b, result, n, frames)
    PROVE  AdapterIInv'
<1> DEFINE wanted == Buffered(p) + b
           remaining == n + frames
<1>1. AdapterTypeOK /\ OutboundPart
  BY DEF AdapterIInv
<1>2. /\ stopStage = "running" /\ Connected(p)
      /\ BunSend(p, b, result, n, frames) \/ NodeSend(p, b, result, n, frames)
      /\ UNCHANGED <<server, admissions, trusted, httpVars, stopVars, stopStage>>
  BY DEF Send, stopVars
<1>3. /\ b \in Nat /\ n \in Nat /\ frames \in Nat
      /\ maxOutboundBytesPerPeer \in Nat /\ maxOutboundBytesTotal \in Nat
      /\ n <= maxOutboundBytesPerPeer
  BY AdapterAssumption
<1>4. /\ unflushed[p] \in Nat /\ unflushed[p] <= ChargedTo(p)
      /\ Buffered(p) \in Nat /\ unflushed[p] <= Buffered(p)
  BY <1>1, <1>2 DEF AdapterTypeOK, OutboundPart, Buffered
<1>5. /\ ChargedTo(p) = Total(writes[p]) /\ ChargedTo(p) \in Nat /\ writes[p] \in Seq(Nat)
  BY <1>1, ChargedTotals
<1>6. outboundUsed \in Nat
  <2>1. Reserved([q \in Peer |-> ChargedTo(q)], Peer) \in Nat
    BY <1>1, ChargedTotals, ReservedType, AdapterAssumption
  <2> QED
    BY <1>1, <2>1 DEF OutboundPart
<1>7. CASE UNCHANGED outboundVars /\ (socket' = socket \/ Closes(p))
  <2>1. UNCHANGED <<writes, unflushed, framing>>
    BY <1>7 DEF outboundVars
  <2>2. writes' \in [Peer -> Seq(Nat)] /\ unflushed' \in [Peer -> Nat] /\ framing' \in [Peer -> Nat]
    BY <1>1, <2>1 DEF AdapterTypeOK
  <2>3. handling' = handling /\ UNCHANGED <<bodyBytes, chargeVars>>
    BY <1>2 DEF httpVars
  <2>4. \A q \in Peer : Connected(q) => Connected(q)'
    BY <1>1, <1>2, <1>7, StillConnected
  <2>5. OutboundPart'
    BY <1>2, <1>7, <2>3, <2>4, ChargesUntouched
  <2> QED
    BY <1>2, <1>7, <2>2, <2>5, TrafficKeeps
<1>8. ASSUME NEW q \in Seq(Nat), NEW m \in Nat, Charge(p, q, m, frames), m <= Total(q),
             m <= maxOutboundBytesPerPeer,
             outboundUsed - ChargedTo(p) + Total(q) <= maxOutboundBytesTotal,
             socket' = socket \/ Closes(p)
      PROVE  AdapterIInv'
  <2>1. OutboundPart' /\ writes' \in [Peer -> Seq(Nat)] /\ unflushed' \in [Peer -> Nat]
        /\ framing' \in [Peer -> Nat]
    BY <1>1, <1>2, <1>3, <1>8, ChargeKeeps
  <2> QED
    BY <1>2, <1>8, <2>1, TrafficKeeps
<1>9. CASE BunSend(p, b, result, n, frames)
  <2>1. CASE UNCHANGED outboundVars /\ Closes(p)
    BY <1>7, <2>1
  <2> SUFFICES ASSUME wanted <= Room(p),
                      \/ /\ n <= unflushed[p] + b
                         /\ Charge(p, Holding(IF remaining > Room(p) THEN wanted ELSE remaining),
                                   n, frames)
                         /\ UNCHANGED socket
                      \/ /\ n = unflushed[p]
                         /\ Charge(p, IF remaining = 0 THEN <<>> ELSE Holding(wanted), n, frames)
                         /\ socket' = socket \/ Closes(p)
               PROVE  AdapterIInv'
    <3>1. wanted \in Nat /\ Room(p) \in Int
      BY <1>3, <1>4, <1>5, <1>6 DEF Room
    <3> QED
      BY <1>9, <2>1, <3>1 DEF BunSend
  <2>2. /\ wanted \in Nat /\ remaining \in Nat /\ n <= remaining /\ unflushed[p] + b <= wanted
        /\ Room(p) \in Int
        /\ \A m \in Nat : m <= Room(p) => outboundUsed - ChargedTo(p) + m <= maxOutboundBytesTotal
    BY <1>3, <1>4, <1>5, <1>6 DEF Room
  <2> HIDE DEF wanted, remaining
  <2>3. CASE /\ n <= unflushed[p] + b
             /\ Charge(p, Holding(IF remaining > Room(p) THEN wanted ELSE remaining), n, frames)
             /\ UNCHANGED socket
    <3> DEFINE m == IF remaining > Room(p) THEN wanted ELSE remaining
    <3>1. m \in Nat /\ n <= m /\ m <= Room(p)
      BY <1>3, <1>4, <2>2, <2>3
    <3> HIDE DEF m
    <3>2. Holding(m) \in Seq(Nat) /\ Total(Holding(m)) = m
      BY <3>1, HoldingTotal
    <3>3. Charge(p, Holding(m), n, frames) /\ outboundUsed - ChargedTo(p) + m <= maxOutboundBytesTotal
      BY <2>2, <2>3, <3>1 DEF m
    <3> QED
      BY <1>3, <1>8, <2>3, <3>1, <3>2, <3>3
  <2>4. CASE /\ n = unflushed[p]
             /\ Charge(p, IF remaining = 0 THEN <<>> ELSE Holding(wanted), n, frames)
             /\ socket' = socket \/ Closes(p)
    <3> DEFINE q == IF remaining = 0 THEN <<>> ELSE Holding(wanted)
    <3>1. q \in Seq(Nat) /\ Total(q) = (IF remaining = 0 THEN 0 ELSE wanted)
      BY <2>2, HoldingTotal
    <3>2. Charge(p, q, n, frames) /\ n <= Total(q) /\ Total(q) <= Room(p) /\ Total(q) \in Nat
      BY <1>3, <1>4, <2>2, <2>4, <3>1
    <3> HIDE DEF q
    <3>3. outboundUsed - ChargedTo(p) + Total(q) <= maxOutboundBytesTotal
      BY <2>2, <3>2
    <3> QED
      BY <1>3, <1>8, <2>4, <3>1, <3>2, <3>3
  <2> QED
    BY <2>3, <2>4
<1>10. CASE NodeSend(p, b, result, n, frames)
  <2>1. CASE UNCHANGED outboundVars /\ (socket' = socket \/ Closes(p))
    BY <1>7, <2>1
  <2>2. CASE /\ ~(b > maxOutboundBytesTotal - outboundUsed)
             /\ n = unflushed[p] + b
             /\ Charge(p, Append(writes[p], b), n, frames) /\ UNCHANGED socket
    <3>1. Append(writes[p], b) \in Seq(Nat) /\ Total(Append(writes[p], b)) = ChargedTo(p) + b
      BY <1>3, <1>5, TotalOf
    <3>2. n <= ChargedTo(p) + b
      BY <1>3, <1>4, <1>5, <2>2
    <3>3. outboundUsed - ChargedTo(p) + (ChargedTo(p) + b) <= maxOutboundBytesTotal
      BY <1>3, <1>5, <1>6, <2>2
    <3> QED
      BY <1>3, <1>8, <2>2, <3>1, <3>2, <3>3
  <2> QED
    BY <1>10, <2>1, <2>2 DEF NodeSend
<1> QED
  BY <1>2, <1>9, <1>10

(* The native socket flushes, and Bun or Node notices.                      *)
LEMMA FlushKeeps ==
    ASSUME AdapterIInv, NEW p \in Peer,
           \/ \E n \in 0..maxOutboundBytesPerPeer, frames \in 0..FrameBytes : Flushes(p, n, frames)
           \/ Drain(p)
           \/ \E failed \in BOOLEAN : WriteReturns(p, failed)
    PROVE  AdapterIInv'
<1>1. AdapterTypeOK /\ OutboundPart
  BY DEF AdapterIInv
<1>2. /\ UNCHANGED <<server, admissions, trusted, httpVars, stopVars, stopStage>>
      /\ socket' = socket \/ (socket[p] = "open" /\ Closes(p))
  BY DEF Flushes, Drain, WriteReturns, socketVars, stopVars
<1>3. socket' = socket \/ (Connected(p) /\ Closes(p))
  BY <1>2 DEF Connected
<1>4. /\ ChargedTo(p) = Total(writes[p]) /\ ChargedTo(p) \in Nat /\ writes[p] \in Seq(Nat)
      /\ unflushed[p] \in Nat /\ framing[p] \in Nat /\ unflushed[p] <= maxOutboundBytesPerPeer
      /\ ~Connected(p) => unflushed[p] = 0
      /\ ~(stopStage = "stopped" /\ Bun) => unflushed[p] <= ChargedTo(p)
      /\ stopStage = "stopped" /\ Bun => writes[p] = <<>>
      /\ maxOutboundBytesPerPeer \in Nat /\ maxOutboundBytesTotal \in Nat
  BY <1>1, ChargedTotals, AdapterAssumption DEF AdapterTypeOK, OutboundPart
<1>5. ASSUME NEW n \in 0..maxOutboundBytesPerPeer, NEW frames \in 0..FrameBytes,
             Flushes(p, n, frames)
      PROVE  AdapterIInv'
  <2>1. /\ Connected(p) /\ n <= unflushed[p] /\ unflushed' = [unflushed EXCEPT ![p] = n]
        /\ framing' = [framing EXCEPT ![p] = frames]
        /\ UNCHANGED <<writes, outboundUsed, socket>>
    BY <1>5 DEF Flushes, socketVars
  <2>2. n \in Nat /\ frames \in Nat
    BY AdapterAssumption
  <2>3. /\ unflushed' \in [Peer -> Nat] /\ writes' \in [Peer -> Seq(Nat)]
        /\ framing' \in [Peer -> Nat]
        /\ \A q \in Peer : unflushed'[q] <= unflushed[q]
    BY <1>1, <2>1, <2>2 DEF AdapterTypeOK
  <2>4. \A q \in Peer : ChargedTo(q)' = ChargedTo(q) /\ ChargedTo(q) \in Nat
    BY <1>1, <2>1, ChargedTotals DEF ChargedTo
  <2>5. (Reserved([q \in Peer |-> ChargedTo(q)], Peer))' = Reserved([q \in Peer |-> ChargedTo(q)], Peer)
    BY <2>4
  <2>6. ASSUME NEW q \in Peer
        PROVE  /\ unflushed'[q] <= maxOutboundBytesPerPeer
               /\ ~Connected(q)' => unflushed'[q] = 0
               /\ ~(stopStage = "stopped" /\ Bun) => unflushed'[q] <= ChargedTo(q)'
    <3>1. /\ unflushed[q] \in Nat /\ unflushed'[q] \in Nat
          /\ Connected(q)' = Connected(q)
          /\ ChargedTo(q)' = ChargedTo(q) /\ ChargedTo(q) \in Nat
      BY <1>1, <2>1, <2>3, <2>4 DEF AdapterTypeOK, Connected
    <3> QED
      BY <1>1, <1>4, <2>3, <3>1 DEF OutboundPart
  <2>7. OutboundPart'
    BY <1>1, <1>2, <2>1, <2>5, <2>6 DEF OutboundPart, Bun
  <2> QED
    BY <1>2, <1>3, <2>3, <2>7, TrafficKeeps
<1>6. CASE Drain(p)
  <2>1. /\ Bun /\ Connected(p) /\ writes[p] # <<>> /\ Buffered(p) <= Room(p)
        /\ Charge(p, Holding(Buffered(p)), unflushed[p], framing[p])
    BY <1>6 DEF Drain
  <2>2. ~(stopStage = "stopped" /\ Bun)
    BY <1>4, <2>1
  <2>3. Buffered(p) \in Nat /\ unflushed[p] <= Buffered(p)
    BY <1>4 DEF Buffered
  <2>4. Holding(Buffered(p)) \in Seq(Nat) /\ Total(Holding(Buffered(p))) = Buffered(p)
    BY <2>3, HoldingTotal
  <2>5. outboundUsed - ChargedTo(p) + Buffered(p) <= maxOutboundBytesTotal
    <3>1. outboundUsed \in Nat
      BY <1>1, ChargedTotals, ReservedType, AdapterAssumption DEF OutboundPart
    <3> QED
      BY <1>4, <2>1, <2>3, <3>1 DEF Room
  <2>6. OutboundPart' /\ writes' \in [Peer -> Seq(Nat)] /\ unflushed' \in [Peer -> Nat]
        /\ framing' \in [Peer -> Nat]
    BY <1>1, <1>2, <1>3, <1>4, <2>1, <2>2, <2>3, <2>4, <2>5, ChargeKeeps
  <2> QED
    BY <1>2, <1>3, <2>6, TrafficKeeps
<1>7. ASSUME NEW failed \in BOOLEAN, WriteReturns(p, failed) PROVE AdapterIInv'
  <2> DEFINE rest == Tail(writes[p])
             m == IF unflushed[p] < Total(rest) THEN unflushed[p] ELSE Total(rest)
  <2>1. Node /\ writes[p] # <<>> /\ Charge(p, rest, m, framing[p])
    BY <1>7 DEF WriteReturns, Total
  <2>2. rest \in Seq(Nat) /\ Total(rest) <= ChargedTo(p) /\ Total(rest) \in Nat
    BY <1>4, <2>1, TotalOf
  <2> HIDE DEF rest
  <2>3. m \in Nat /\ m <= Total(rest) /\ m <= unflushed[p]
    BY <1>4, <2>2
  <2> HIDE DEF m
  <2>4. ~Bun
    BY <2>1 DEF Node, Bun
  <2>5. m <= maxOutboundBytesPerPeer /\ (~Connected(p) => m = 0)
    BY <1>4, <2>3
  <2>6. OutboundPart' /\ writes' \in [Peer -> Seq(Nat)] /\ unflushed' \in [Peer -> Nat]
        /\ framing' \in [Peer -> Nat]
    BY <1>1, <1>2, <1>3, <1>4, <2>1, <2>2, <2>3, <2>4, <2>5, ChargeKeeps
  <2> QED
    BY <1>2, <1>3, <2>6, TrafficKeeps
<1> QED
  BY <1>5, <1>6, <1>7
(* The close event.                                                         *)
LEMMA CloseEventKeeps ==
    ASSUME AdapterIInv, NEW p \in Peer, CloseEvent(p)
    PROVE  AdapterIInv'
<1> DEFINE sockets == [socket EXCEPT ![p] = "none"]
           kept == IF Bun THEN [writes EXCEPT ![p] = <<>>] ELSE writes
<1>1. AdapterTypeOK /\ OutboundPart /\ ResponsePart /\ AdmissionPart
  BY DEF AdapterIInv
<1>2. /\ Connected(p) /\ trusted' = trusted \ {p}
      /\ unflushed' = [unflushed EXCEPT ![p] = 0] /\ framing' = [framing EXCEPT ![p] = 0]
      /\ Leave(stopStage, handling, sockets, admissions \ {p}, kept, transportStopSettled)
      /\ UNCHANGED <<server, bodyBytes, charged, responsesUsed>>
  BY DEF CloseEvent, chargeVars
<1>3. \A q \in Peer : /\ ChargedTo(q) = Total(writes[q]) /\ ChargedTo(q) \in Nat
                      /\ writes[q] \in Seq(Nat) /\ unflushed[q] \in Nat
  BY <1>1, ChargedTotals DEF AdapterTypeOK
<1>4. <<>> \in Seq(Nat) /\ Total(<<>>) = 0 /\ maxOutboundBytesPerPeer \in Nat
  BY HoldingTotal, AdapterAssumption
<1>5. /\ kept \in [Peer -> Seq(Nat)]
      /\ \A q \in Peer : kept[q] = writes[q] \/ (q = p /\ kept[q] = <<>>)
  BY <1>1, <1>4 DEF AdapterTypeOK
<1> HIDE DEF kept
<1>6. \A q \in Peer : Total(kept[q]) <= ChargedTo(q) /\ Total(kept[q]) \in Nat
  <2> TAKE q \in Peer
  <2>1. kept[q] = writes[q] \/ kept[q] = <<>>
    BY <1>5
  <2> QED
    BY <1>3, <1>4, <2>1
<1>7. unflushed' \in [Peer -> Nat] /\ framing' \in [Peer -> Nat] /\ unflushed'[p] = 0
      /\ \A q \in Peer \ {p} : unflushed'[q] = unflushed[q]
  BY <1>1, <1>2 DEF AdapterTypeOK
<1>8. /\ sockets \in [Peer -> {"none", "open", "closing"}]
      /\ \A q \in Peer : (sockets[q] # "none") <=> (Connected(q) /\ q # p)
  BY <1>1 DEF AdapterTypeOK, Connected
<1> HIDE DEF sockets
<1>9. Covered(sockets, kept, unflushed')
  <2> SUFFICES ASSUME NEW q \in Peer
               PROVE  /\ unflushed'[q] <= maxOutboundBytesPerPeer
                      /\ sockets[q] = "none" => unflushed'[q] = 0
                      /\ ~(stopStage = "stopped" /\ Bun) => unflushed'[q] <= Total(kept[q])
    BY DEF Covered
  <2>1. CASE q = p
    BY <1>4, <1>6, <1>7, <2>1
  <2>2. CASE q # p
    <3>1. kept[q] = writes[q] /\ unflushed'[q] = unflushed[q]
          /\ (sockets[q] = "none" => ~Connected(q))
      BY <1>5, <1>7, <1>8, <2>2
    <3> QED
      BY <1>1, <1>3, <3>1 DEF OutboundPart
  <2> QED
    BY <2>1, <2>2
<1>10. /\ stopStage = "stopped" => ActiveHandlers(handling) = {}
       /\ stopStage = "stopped" /\ Bun =>
             admissions \ {p} = {} /\ \A q \in Peer : kept[q] = <<>>
       /\ transportStopSettled \/ (stopStage = "stopped" /\ Node) =>
             \A q \in Peer : sockets[q] = "none"
       /\ stopStage = "running" => ~transportStopSettled
  BY <1>1, <1>5, <1>8 DEF ResponsePart, OutboundPart, AdmissionPart
<1>11. /\ stopStage \in {"running", "stopping", "stopped"} /\ admissions \ {p} \in SUBSET Peer
       /\ handling \in [Handler -> RequestStage] /\ transportStopSettled \in BOOLEAN
  BY <1>1 DEF AdapterTypeOK, RequestStage
<1>12. /\ Cardinality(admissions \ {p}) <= maxUnauthenticatedSockets
       /\ \A q \in trusted' : sockets[q] # "none"
       /\ admissions \ {p} = Unknown(sockets, trusted')
  <2>1. Cardinality(admissions \ {p}) <= maxUnauthenticatedSockets
    BY <1>1, FewerAdmitted DEF AdmissionPart, AdapterTypeOK
  <2> QED
    BY <1>1, <1>2, <1>8, <2>1 DEF AdmissionPart, AdapterTypeOK, Unknown
<1>13. /\ OutboundPart' /\ AdmissionPart'
       /\ stopStage' \in {stopStage, "stopped"} /\ handling' = handling /\ socket' = sockets
       /\ transportStopSettled' = transportStopSettled
       /\ writes' \in [Peer -> Seq(Nat)]
       /\ admissions' \subseteq admissions \ {p}
       /\ stopStage' = "stopped" => ActiveHandlers(handling)' = {}
  <2>1. Leaves(stopStage, handling, sockets, admissions \ {p}, kept, transportStopSettled)
    BY <1>5, <1>6, <1>8, <1>9, <1>10, <1>11, <1>12 DEF Leaves
  <2> QED
    BY <1>1, <1>2, <2>1, LeaveKeeps
<1>14. AdapterTypeOK'
  BY <1>1, <1>2, <1>7, <1>8, <1>13 DEF AdapterTypeOK
<1>15. ResponsePart'
  BY <1>1, <1>2, <1>13 DEF ResponsePart
<1> QED
  BY <1>13, <1>14, <1>15 DEF AdapterIInv

(* The port is stopped.                                                     *)
LEMMA StopKeeps ==
    ASSUME AdapterIInv, Stop \/ TransportStopSettles
    PROVE  AdapterIInv'
<1> DEFINE sockets == IF stopStage = "running"
                      THEN [p \in Peer |-> IF Connected(p) THEN "closing" ELSE "none"] ELSE socket
           settled == stopStage = "stopping"
<1>1. AdapterTypeOK /\ OutboundPart /\ ResponsePart /\ AdmissionPart
  BY DEF AdapterIInv
<1>2. /\ stopStage \in {"running", "stopping"} /\ UNCHANGED trusted
      /\ Leave("stopping", handling, sockets, admissions, writes, settled)
      /\ settled => \A p \in Peer : ~Connected(p)
      /\ UNCHANGED <<server, unflushed, framing, bodyBytes, charged, responsesUsed>>
  BY DEF Stop, TransportStopSettles, chargeVars
<1>3. /\ sockets \in [Peer -> {"none", "open", "closing"}]
      /\ \A q \in Peer : sockets[q] # "none" <=> Connected(q)
  BY <1>1 DEF AdapterTypeOK, Connected
<1>4. settled \in BOOLEAN /\ (settled => \A q \in Peer : sockets[q] = "none")
  BY <1>2, <1>3
<1> HIDE DEF sockets, settled
<1>5. Covered(sockets, writes, unflushed') /\ \A q \in Peer : Total(writes[q]) <= ChargedTo(q)
  <2>1. \A q \in Peer : ChargedTo(q) = Total(writes[q]) /\ ChargedTo(q) \in Nat
    BY <1>1, ChargedTotals
  <2> QED
    BY <1>1, <1>2, <1>3, <2>1 DEF OutboundPart, Covered
<1>6. /\ handling \in [Handler -> RequestStage]
      /\ admissions \in SUBSET Peer /\ writes \in [Peer -> Seq(Nat)]
      /\ Cardinality(admissions) <= maxUnauthenticatedSockets
      /\ \A q \in trusted' : sockets[q] # "none"
      /\ admissions = Unknown(sockets, trusted')
  BY <1>1, <1>2, <1>3 DEF AdapterTypeOK, RequestStage, AdmissionPart, Unknown
<1>7. /\ OutboundPart' /\ AdmissionPart'
      /\ stopStage' \in {"stopping", "stopped"} /\ handling' = handling /\ socket' = sockets
      /\ transportStopSettled' = settled
      /\ writes' \in [Peer -> Seq(Nat)]
      /\ admissions' \subseteq admissions
      /\ stopStage' = "stopped" => ActiveHandlers(handling)' = {}
  <2>1. Leaves("stopping", handling, sockets, admissions, writes, settled)
    BY <1>2, <1>3, <1>4, <1>5, <1>6 DEF Leaves
  <2> QED
    BY <1>1, <1>2, <2>1, LeaveKeeps
<1>8. AdapterTypeOK'
  BY <1>1, <1>2, <1>3, <1>4, <1>6, <1>7 DEF AdapterTypeOK
<1>9. ResponsePart'
  BY <1>1, <1>2, <1>7 DEF ResponsePart
<1> QED
  BY <1>7, <1>8, <1>9 DEF AdapterIInv

(* A request goes on to its next stage, with what it is charged from then.  *)
LEMMA AdvanceKeeps ==
    ASSUME AdapterIInv, NEW h \in Handler, NEW stage \in RequestStage, Advance(h, stage),
           UNCHANGED httpFrame, stopStage = "stopped" => stage \in {"idle", "returned"},
           bodyBytes' \in [Handler -> Nat],
           charged' \in [Handler -> Nat], responsesUsed' = Reserved(charged', Handler),
           responsesUsed' <= maxInFlightHttpResponseBytes
    PROVE  AdapterIInv'
<1> DEFINE stages == [handling EXCEPT ![h] = stage]
<1>1. AdapterTypeOK /\ OutboundPart /\ ResponsePart /\ AdmissionPart
  BY DEF AdapterIInv
<1>2. /\ Leave(stopStage, stages, socket, admissions, writes, transportStopSettled)
      /\ UNCHANGED <<server, trusted, unflushed, framing>>
  BY DEF Advance, httpFrame
<1>3. stages \in [Handler -> RequestStage]
      /\ ActiveHandlers(stages) \subseteq ActiveHandlers(handling) \cup
                                        (IF stage \in {"idle", "returned"} THEN {} ELSE {h})
  BY <1>1 DEF AdapterTypeOK, RequestStage, ActiveHandlers
<1> HIDE DEF stages
<1>4. /\ stopStage \in {"running", "stopping", "stopped"} /\ admissions \in SUBSET Peer
      /\ socket \in [Peer -> {"none", "open", "closing"}] /\ writes \in [Peer -> Seq(Nat)]
      /\ transportStopSettled \in BOOLEAN
  BY <1>1 DEF AdapterTypeOK
<1>5. ASSUME stopStage = "stopped"
      PROVE  ActiveHandlers(stages) = {} /\ (Bun => admissions = {} /\ \A q \in Peer : writes[q] = <<>>)
  <2>1. ActiveHandlers(handling) = {} /\ stage \in {"idle", "returned"}
    BY <1>1, <1>5 DEF ResponsePart
  <2>2. ActiveHandlers(stages) = {}
    BY <1>3, <2>1
  <2>3. Bun => admissions = {} /\ \A q \in Peer : writes[q] = <<>>
    BY <1>1, <1>5 DEF OutboundPart, AdmissionPart
  <2> QED
    BY <2>2, <2>3
<1>6. Covered(socket, writes, unflushed') /\ \A q \in Peer : Total(writes[q]) <= ChargedTo(q)
  <2>1. \A q \in Peer : ChargedTo(q) = Total(writes[q]) /\ ChargedTo(q) \in Nat
    BY <1>1, ChargedTotals
  <2> QED
    BY <1>1, <1>2, <2>1 DEF OutboundPart, Connected, Covered
<1>7. /\ Cardinality(admissions) <= maxUnauthenticatedSockets
      /\ \A q \in trusted' : socket[q] # "none"
      /\ admissions = Unknown(socket, trusted')
      /\ transportStopSettled \/ (stopStage = "stopped" /\ Node) =>
            \A q \in Peer : socket[q] = "none"
      /\ stopStage = "running" => ~transportStopSettled
  BY <1>1, <1>2 DEF AdmissionPart, Connected, Unknown
<1>8. /\ OutboundPart' /\ AdmissionPart'
      /\ stopStage' \in {stopStage, "stopped"} /\ handling' = stages /\ socket' = socket
      /\ transportStopSettled' = transportStopSettled
      /\ writes' \in [Peer -> Seq(Nat)]
      /\ admissions' \subseteq admissions
      /\ stopStage' = "stopped" => ActiveHandlers(handling)' = {}
  <2>1. Leaves(stopStage, stages, socket, admissions, writes, transportStopSettled)
    BY <1>3, <1>4, <1>5, <1>6, <1>7 DEF Leaves
  <2> QED
    BY <1>1, <1>2, <2>1, LeaveKeeps
<1>9. AdapterTypeOK'
  BY <1>1, <1>2, <1>3, <1>4, <1>8 DEF AdapterTypeOK, RequestStage
<1>10. ResponsePart'
  BY <1>8 DEF ResponsePart
<1> QED
  BY <1>8, <1>9, <1>10 DEF AdapterIInv

(* A request arrives, is answered, or is dropped.                           *)
LEMMA RequestKeeps ==
    ASSUME AdapterIInv, NEW h \in Handler,
           RequestArrives(h) \/ StreamBegins(h) \/ BodyBegins(h) \/ HandlerProgress(h)
    PROVE  AdapterIInv'
<1> DEFINE limit == maxInFlightHttpResponseBytes
<1>1. AdapterTypeOK /\ ResponsePart
  BY DEF AdapterIInv
<1>2. /\ maxHttpResponseBytes \in Nat /\ limit \in Nat /\ ResponseSizes \subseteq Nat
      /\ bodyBytes \in [Handler -> Nat] /\ charged \in [Handler -> Nat]
      /\ charged[h] \in Nat /\ bodyBytes[h] \in Nat /\ responsesUsed <= limit
      /\ responsesUsed = Reserved(charged, Handler)
  BY <1>1, AdapterAssumption DEF AdapterTypeOK, ResponsePart
<1>3. responsesUsed \in Nat
  BY <1>2, ReservedType, AdapterAssumption
<1>4. stopStage = "stopped" => handling[h] \in {"idle", "returned"}
  BY <1>1 DEF ResponsePart, ActiveHandlers
<1>5. ASSUME NEW stage \in RequestStage, Advance(h, stage), UNCHANGED <<httpFrame, bodyBytes, chargeVars>>,
             stopStage = "stopped" => stage \in {"idle", "returned"}
      PROVE  AdapterIInv'
  <2>1. UNCHANGED <<httpFrame, bodyBytes, charged, responsesUsed>>
    BY <1>5 DEF chargeVars
  <2> QED
    BY <1>2, <1>5, <2>1, AdvanceKeeps
<1>6. ASSUME NEW stage \in RequestStage, Advance(h, stage), UNCHANGED httpFrame,
             stopStage = "stopped" => stage \in {"idle", "returned"},
             bodyBytes' \in [Handler -> Nat], NEW n \in Nat, Recharge(h, n),
             n = 0 \/ responsesUsed - charged[h] + n <= limit
      PROVE  AdapterIInv'
  <2>1. /\ charged' \in [Handler -> Nat] /\ responsesUsed' = Reserved(charged', Handler)
        /\ responsesUsed' <= limit
    BY <1>1, <1>6, RechargeKeeps
  <2> QED
    BY <1>6, <2>1, AdvanceKeeps
<1>7. CASE RequestArrives(h)
  BY <1>5, <1>7 DEF RequestArrives, RequestStage
<1>8. CASE RequestEnds(h)
  BY <1>5, <1>8 DEF RequestEnds, RequestStage
<1>9. CASE StreamBegins(h)
  BY <1>4, <1>5, <1>9 DEF StreamBegins, RequestStage
<1>10. CASE BodyBegins(h)
  <2>1. responsesUsed - charged[h] + maxHttpResponseBytes <= limit
    BY <1>2, <1>3, <1>10 DEF BodyBegins
  <2>2. /\ Advance(h, "reading") /\ "reading" \in RequestStage /\ UNCHANGED <<httpFrame, bodyBytes>>
        /\ Recharge(h, maxHttpResponseBytes) /\ stopStage # "stopped"
    BY <1>4, <1>10 DEF BodyBegins, RequestStage
  <2> QED
    BY <1>2, <1>6, <2>1, <2>2
<1>11. ASSUME NEW total \in ResponseSizes, BodyComplete(h, total) PROVE AdapterIInv'
  <2>1. /\ stopStage # "stopped" /\ UNCHANGED httpFrame
        /\ total \in Nat /\ bodyBytes' \in [Handler -> Nat]
    BY <1>2, <1>4, <1>11 DEF BodyComplete
  <2>2. \/ /\ 2 * total <= limit - (responsesUsed - charged[h]) /\ Recharge(h, total)
           /\ Advance(h, "returned") \/ Advance(h, "retained")
        \/ Recharge(h, 0) /\ Advance(h, "idle")
    BY <1>11 DEF BodyComplete
  <2>3. CASE /\ 2 * total <= limit - (responsesUsed - charged[h]) /\ Recharge(h, total)
             /\ Advance(h, "returned") \/ Advance(h, "retained")
    <3>1. responsesUsed - charged[h] + total <= limit
      BY <1>2, <1>3, <2>1, <2>3
    <3>2. "returned" \in RequestStage /\ "retained" \in RequestStage
      BY DEF RequestStage
    <3> QED
      BY <1>6, <2>1, <2>3, <3>1, <3>2
  <2>4. CASE Recharge(h, 0) /\ Advance(h, "idle")
    BY <1>6, <2>1, <2>4 DEF RequestStage
  <2> QED
    BY <2>2, <2>3, <2>4
<1>12. CASE BodyDropped(h) \/ ChunkReturns(h)
  <2>1. Recharge(h, 0) /\ Advance(h, "idle") /\ UNCHANGED <<httpFrame, bodyBytes>>
    BY <1>12 DEF BodyDropped, ChunkReturns
  <2> QED
    BY <1>2, <1>6, <2>1 DEF RequestStage
<1>13. CASE BodyPulled(h)
  <2>1. /\ Recharge(h, 0) /\ UNCHANGED <<httpFrame, bodyBytes>>
        /\ \/ Advance(h, "pulled") /\ handling[h] = "retained"
           \/ Advance(h, "idle")
    BY <1>13 DEF BodyPulled
  <2>2. CASE Advance(h, "pulled") /\ handling[h] = "retained"
    BY <1>2, <1>4, <1>6, <2>1, <2>2 DEF RequestStage
  <2>3. CASE Advance(h, "idle")
    BY <1>2, <1>6, <2>1, <2>3 DEF RequestStage
  <2> QED
    BY <2>1, <2>2, <2>3
<1>14. CASE ChunkWritten(h)
  <2>1. /\ stopStage # "stopped" /\ UNCHANGED <<httpFrame, bodyBytes>>
        /\ \/ /\ bodyBytes[h] <= limit - responsesUsed
              /\ Recharge(h, bodyBytes[h]) /\ Advance(h, "writing")
           \/ Recharge(h, 0) /\ Advance(h, "idle")
    BY <1>4, <1>14 DEF ChunkWritten
  <2>2. CASE /\ bodyBytes[h] <= limit - responsesUsed
             /\ Recharge(h, bodyBytes[h]) /\ Advance(h, "writing")
    <3>1. responsesUsed - charged[h] + bodyBytes[h] <= limit
      BY <1>2, <1>3, <2>2
    <3> QED
      BY <1>2, <1>6, <2>1, <2>2, <3>1 DEF RequestStage
  <2>3. CASE Recharge(h, 0) /\ Advance(h, "idle")
    BY <1>2, <1>6, <2>1, <2>3 DEF RequestStage
  <2> QED
    BY <2>1, <2>2, <2>3
<1> QED
  BY <1>7, <1>8, <1>9, <1>10, <1>11, <1>12, <1>13, <1>14 DEF HandlerProgress

(* Every step of an adapter.                                                *)
LEMMA AdapterInvariance ==
    ASSUME AdapterIInv, [AdapterNext]_adapterVars
    PROVE  AdapterIInv'
<1>1. CASE Stop \/ TransportStopSettles
  BY <1>1, StopKeeps
<1>2. ASSUME NEW p \in Peer,
             \/ \E h \in Handler : Upgrade(p, h)
             \/ MarkAuthenticated(p) \/ HandshakeTimesOut(p) \/ MessageRefused(p)
      PROVE  AdapterIInv'
  BY <1>2, SocketKeeps, UpgradeKeeps
<1>3. ASSUME NEW p \in Peer, CloseEvent(p) PROVE AdapterIInv'
  BY <1>3, CloseEventKeeps
<1>4. ASSUME NEW p \in Peer, NEW b \in SendSizes, NEW r \in {"sent", "dropped", "threw", "refused"},
             NEW n \in 0..maxOutboundBytesPerPeer, NEW f \in 0..FrameBytes, Send(p, b, r, n, f)
      PROVE  AdapterIInv'
  BY <1>4, SendKeeps
<1>5. ASSUME NEW p \in Peer,
             \/ \E n \in 0..maxOutboundBytesPerPeer, f \in 0..FrameBytes : Flushes(p, n, f)
             \/ Drain(p)
             \/ \E failed \in BOOLEAN : WriteReturns(p, failed)
      PROVE  AdapterIInv'
  BY <1>5, FlushKeeps
<1>6. ASSUME NEW h \in Handler,
             RequestArrives(h) \/ StreamBegins(h) \/ BodyBegins(h) \/ HandlerProgress(h)
      PROVE  AdapterIInv'
  BY <1>6, RequestKeeps
<1>7. CASE UNCHANGED adapterVars
  <2>1. UNCHANGED <<server, socket, admissions, trusted, outboundVars, httpVars, stopStage,
                    transportStopSettled>>
    BY <1>7 DEF adapterVars, socketVars, stopVars
  <2>2. UNCHANGED <<writes, unflushed, framing, handling, bodyBytes, chargeVars>>
    BY <2>1 DEF outboundVars, httpVars
  <2>3. AdapterTypeOK /\ ResponsePart /\ AdmissionPart
    BY DEF AdapterIInv
  <2>4. \A p \in Peer : Connected(p)' <=> Connected(p)
    BY <2>1 DEF Connected
  <2>5. OutboundPart' /\ ResponsePart'
    BY <2>1, <2>2, <2>4, ChargesUntouched
  <2>6. AdapterTypeOK'
    BY <2>1, <2>2, <2>3 DEF AdapterTypeOK, chargeVars
  <2>7. AdmissionPart'
    BY <2>1, <2>3 DEF AdmissionPart, Bun, Node, Connected
  <2> QED
    BY <2>5, <2>6, <2>7 DEF AdapterIInv
<1> QED
  BY <1>1, <1>2, <1>3, <1>4, <1>5, <1>6, <1>7 DEF AdapterNext

(* What an adapter charges is exact and within every limit, and covers      *)
(* every message byte its native sockets hold, except in the sockets that   *)
(* Bun's stop forsakes; a place is held by exactly the sockets the daemon   *)
(* does not know, whatever the stage; and a stopped server handles nothing  *)
(* and under Node holds no socket.  For both runtimes, any number of peers  *)
(* and requests, all limits and all framing (serve.ts of either runtime,    *)
(* boundHttpResponse).                                                      *)
THEOREM AdapterBudgetsSafe == AdapterSpec => []AdapterBudgetsExact
<1>1. AdapterInit => AdapterIInv
  BY AdapterInitIInv
<1>2. AdapterIInv /\ [AdapterNext]_adapterVars => AdapterIInv'
  BY AdapterInvariance
<1>3. AdapterIInv => AdapterBudgetsExact
  <2> SUFFICES ASSUME AdapterIInv PROVE AdapterBudgetsExact
    OBVIOUS
  <2>1. AdapterTypeOK /\ OutboundPart /\ ResponsePart /\ AdmissionPart
    BY DEF AdapterIInv
  <2>2. ASSUME NEW p \in Peer
        PROVE  unflushed[p] <= maxOutboundBytesPerPeer /\ (unflushed[p] <= ChargedTo(p) \/ Forsaken(p))
    <3>1. CASE ~(stopStage = "stopped" /\ Bun)
      BY <2>1, <3>1 DEF OutboundPart
    <3>2. CASE stopStage = "stopped" /\ Bun
      <4>1. CASE Connected(p)
        <5>1. p \notin admissions
          BY <2>1, <3>2, <4>1 DEF AdmissionPart
        <5> QED
          BY <2>1, <3>2, <4>1, <5>1 DEF OutboundPart, Forsaken
      <4>2. CASE ~Connected(p)
        <5>1. unflushed[p] = 0 /\ ChargedTo(p) \in Nat
          BY <2>1, <4>2, ChargedTotals DEF OutboundPart
        <5> QED
          BY <2>1, <5>1 DEF OutboundPart
      <4> QED
        BY <4>1, <4>2
    <3> QED
      BY <3>1, <3>2
  <2> QED
    BY <2>1, <2>2 DEF OutboundPart, ResponsePart, AdmissionPart, AdapterBudgetsExact
<1> QED
  BY <1>1, <1>2, <1>3, PTL DEF AdapterSpec
================================================================================

----------------------------- MODULE DataLemmas -----------------------------
(* Facts about Reserved, which the proofs of budget accounting cite, and    *)
(* about Filtered, which is recursive: induction is by least counterexample. *)
EXTENDS Reservations, Filtering, FiniteSetTheorems, SequenceTheorems,
        WellFoundedInduction, TLAPS

(* The units of finitely many reservations are finitely many.               *)
LEMMA UnitsFinite ==
    ASSUME NEW S, IsFiniteSet(S), NEW f, \A x \in S : f[x] \in Nat
    PROVE  IsFiniteSet(Units(f, S))
<1> DEFINE g == [x \in S |-> {x} \X (1..f[x])]
           T == {{x} \X (1..f[x]) : x \in S}
<1>1. g \in Surjection(S, T)
  BY DEF Surjection
<1>2. IsFiniteSet(T)
  BY <1>1, FS_Surjection
<1>3. ASSUME NEW t \in T PROVE IsFiniteSet(t)
  <2>1. PICK x \in S : t = {x} \X (1..f[x])
    OBVIOUS
  <2> HIDE DEF g, T
  <2>2. IsFiniteSet({x})
    BY FS_Singleton
  <2>3. f[x] \in Int /\ 1 \in Int
    OBVIOUS
  <2>4. IsFiniteSet(1..f[x])
    BY <2>3, FS_Interval
  <2> QED
    BY <2>1, <2>2, <2>4, FS_Product
<1> QED
  BY <1>2, <1>3, FS_UNION DEF Units

(* The total of finitely many reservations is a natural number.             *)
LEMMA ReservedType ==
    ASSUME NEW S, IsFiniteSet(S), NEW f, \A x \in S : f[x] \in Nat
    PROVE  Reserved(f, S) \in Nat
BY UnitsFinite, FS_CardinalityType DEF Reserved

(* No reservations amount to nothing.                                       *)
LEMMA ReservedNone ==
    ASSUME NEW f
    PROVE  Reserved(f, {}) = 0
<1>1. Units(f, {}) = {}
  BY DEF Units
<1> QED
  BY <1>1, FS_EmptySet DEF Reserved

(* One reservation amounts to its own amount.                               *)
LEMMA ReservedOne ==
    ASSUME NEW x, NEW f, f[x] \in Nat
    PROVE  Reserved(f, {x}) = f[x]
<1>1. Units(f, {x}) = {x} \X (1..f[x])
  BY DEF Units
<1>2. IsFiniteSet({x}) /\ Cardinality({x}) = 1
  BY FS_Singleton
<1> DEFINE n == f[x]
<1>3. n \in Nat
  OBVIOUS
<1> HIDE DEF n
<1>4. IsFiniteSet(1..n) /\ Cardinality(1..n) = n
  BY <1>3, FS_Interval
<1>5. Cardinality({x} \X (1..n)) = Cardinality({x}) * Cardinality(1..n)
  BY <1>2, <1>4, FS_Product
<1>6. Cardinality({x} \X (1..n)) = n
  BY <1>2, <1>3, <1>4, <1>5
<1> QED
  BY <1>1, <1>6 DEF Reserved, n

(* Disjoint sets of reservations add up.                                    *)
LEMMA ReservedUnion ==
    ASSUME NEW S, NEW T, IsFiniteSet(S), IsFiniteSet(T), S \cap T = {},
           NEW f, \A x \in S \cup T : f[x] \in Nat
    PROVE  Reserved(f, S \cup T) = Reserved(f, S) + Reserved(f, T)
<1>1. Units(f, S \cup T) = Units(f, S) \cup Units(f, T)
  BY DEF Units
<1>2. Units(f, S) \cap Units(f, T) = {}
  BY DEF Units
<1>3. IsFiniteSet(Units(f, S)) /\ IsFiniteSet(Units(f, T))
  BY UnitsFinite
<1>4. /\ Cardinality(Units(f, S)) \in Nat
      /\ Cardinality(Units(f, T)) \in Nat
  BY <1>3, FS_CardinalityType
<1>5. Cardinality({}) = 0
  BY FS_EmptySet
<1> DEFINE A == Units(f, S)
           B == Units(f, T)
<1> HIDE DEF A, B
<1>6. Cardinality(A \cup B) = Cardinality(A) + Cardinality(B) - Cardinality(A \cap B)
  BY <1>3, FS_Union DEF A, B
<1>7. Cardinality(A \cap B) = 0
  BY <1>2, <1>5 DEF A, B
<1>8. Cardinality(A) \in Nat /\ Cardinality(B) \in Nat
  BY <1>4 DEF A, B
<1>9. Cardinality(A \cup B) = Cardinality(A) + Cardinality(B)
  BY <1>6, <1>7, <1>8
<1> QED
  BY <1>1, <1>9 DEF Reserved, A, B

(* The total depends only on the reservations of the members.               *)
LEMMA ReservedSame ==
    ASSUME NEW S, NEW f, NEW g, \A x \in S : f[x] = g[x]
    PROVE  Reserved(f, S) = Reserved(g, S)
<1>1. {{x} \X (1..f[x]) : x \in S} = {{x} \X (1..g[x]) : x \in S}
  OBVIOUS
<1> QED
  BY <1>1 DEF Reserved, Units

(* Numbered things are finitely many.                                       *)
LEMMA IdsFinite ==
    ASSUME NEW n \in Nat, NEW S \in SUBSET (1..n)
    PROVE  IsFiniteSet(S)
<1>1. IsFiniteSet(1..n)
  BY FS_Interval
<1> QED
  BY <1>1, FS_Subset

(* A subset of the reservations amounts to no more.                        *)
LEMMA ReservedMonotone ==
    ASSUME NEW T, IsFiniteSet(T), NEW S \in SUBSET T, NEW f, \A x \in T : f[x] \in Nat
    PROVE  Reserved(f, S) <= Reserved(f, T) /\ Cardinality(S) <= Cardinality(T)
<1>1. IsFiniteSet(S) /\ IsFiniteSet(T \ S) /\ Cardinality(S) <= Cardinality(T)
  BY FS_Subset
<1>2. Reserved(f, S \cup (T \ S)) = Reserved(f, S) + Reserved(f, T \ S)
  BY <1>1, ReservedUnion
<1>3. S \cup (T \ S) = T
  OBVIOUS
<1>4. Reserved(f, S) \in Nat /\ Reserved(f, T \ S) \in Nat
  BY <1>1, ReservedType
<1>5. Reserved(f, T) = Reserved(f, S) + Reserved(f, T \ S)
  BY <1>2, <1>3
<1> QED
  BY <1>1, <1>4, <1>5

(* Nothing reserved by anyone amounts to nothing.                           *)
LEMMA ReservedZero ==
    ASSUME NEW S, NEW f, \A x \in S : f[x] = 0
    PROVE  Reserved(f, S) = 0
<1>1. \A x \in S : 1..f[x] = {}
  OBVIOUS
<1>2. Units(f, S) = {}
  BY <1>1 DEF Units
<1> QED
  BY <1>2, FS_EmptySet DEF Reserved

(* One reservation that changes, changes the total by the difference.       *)
LEMMA ReservedChange ==
    ASSUME NEW S, IsFiniteSet(S), NEW x \in S, NEW f, NEW g,
           \A y \in S : f[y] \in Nat /\ g[y] \in Nat,
           \A y \in S \ {x} : g[y] = f[y]
    PROVE  /\ Reserved(g, S) = Reserved(f, S) - f[x] + g[x]
           /\ f[x] <= Reserved(f, S)
<1> DEFINE T == S \ {x}
<1>1. /\ IsFiniteSet(T) /\ IsFiniteSet({x}) /\ T \cap {x} = {} /\ S = T \cup {x}
  BY FS_Subset, FS_Singleton
<1> HIDE DEF T
<1>2. /\ Reserved(f, T \cup {x}) = Reserved(f, T) + Reserved(f, {x})
      /\ Reserved(g, T \cup {x}) = Reserved(g, T) + Reserved(g, {x})
  BY <1>1, ReservedUnion
<1>3. Reserved(f, {x}) = f[x] /\ Reserved(g, {x}) = g[x]
  BY ReservedOne
<1>4. Reserved(g, T) = Reserved(f, T)
  BY ReservedSame DEF T
<1>5. Reserved(f, T) \in Nat
  BY <1>1, ReservedType
<1> QED
  BY <1>1, <1>2, <1>3, <1>4, <1>5

(* Two reservations of everyone add up.                                     *)
LEMMA ReservedSum ==
    ASSUME NEW S, IsFiniteSet(S), NEW f, NEW g, NEW h,
           \A x \in S : f[x] \in Nat /\ g[x] \in Nat /\ h[x] = f[x] + g[x]
    PROVE  Reserved(h, S) = Reserved(f, S) + Reserved(g, S)
<1> DEFINE A == Units(f, S)
           U == Units(h, S)
           B == {u \in U : u[2] > f[u[1]]}
           G == Units(g, S)
           b == [u \in B |-> <<u[1], u[2] - f[u[1]]>>]
<1>1. ASSUME NEW p PROVE \A u : u \in Units(p, S) <=>
                            \E x \in S : \E k \in 1..p[x] : u = <<x, k>>
  <2>1. \A u, x : u \in {x} \X (1..p[x]) <=> \E k \in 1..p[x] : u = <<x, k>>
    OBVIOUS
  <2> QED
    BY <2>1 DEF Units
<1>2. \A u \in U : u[1] \in S /\ u[2] \in 1..h[u[1]] /\ u = <<u[1], u[2]>>
  BY <1>1
<1>3. \A u \in G : u[1] \in S /\ u[2] \in 1..g[u[1]] /\ u = <<u[1], u[2]>>
  BY <1>1
<1>4. U = A \cup B /\ A \cap B = {}
  <2>1. \A x \in S : \A k \in 1..f[x] : k \in 1..h[x] /\ ~(k > f[x])
    OBVIOUS
  <2>2. A \subseteq U /\ A \cap B = {}
    BY <1>1, <2>1
  <2>3. ASSUME NEW u \in U \ B PROVE u \in A
    <3>1. u[1] \in S /\ u[2] \in 1..f[u[1]] /\ u = <<u[1], u[2]>>
      BY <1>2
    <3> QED
      BY <1>1, <3>1
  <2> QED
    BY <2>2, <2>3
<1>5. b \in [B -> G]
  <2> SUFFICES ASSUME NEW u \in B PROVE <<u[1], u[2] - f[u[1]]>> \in G
    OBVIOUS
  <2>1. u[1] \in S /\ u[2] - f[u[1]] \in 1..g[u[1]]
    BY <1>2
  <2> QED
    BY <1>1, <2>1
<1>6. \A u, v \in B : b[u] = b[v] => u = v
  <2> SUFFICES ASSUME NEW u \in B, NEW v \in B, b[u] = b[v] PROVE u = v
    OBVIOUS
  <2>1. u[1] = v[1] /\ u[2] - f[u[1]] = v[2] - f[v[1]]
    OBVIOUS
  <2>2. /\ u[1] \in S /\ u[2] \in 1..h[u[1]] /\ u = <<u[1], u[2]>>
        /\ v[1] \in S /\ v[2] \in 1..h[v[1]] /\ v = <<v[1], v[2]>>
    BY <1>2
  <2>3. u[2] = v[2]
    BY <2>1, <2>2
  <2> QED
    BY <2>1, <2>2, <2>3
<1>7. ASSUME NEW w \in G PROVE \E u \in B : b[u] = w
  <2> DEFINE x == w[1]
             k == f[x] + w[2]
  <2>1. x \in S /\ k \in 1..h[x] /\ k > f[x] /\ k - f[x] = w[2] /\ w = <<x, w[2]>>
    BY <1>3
  <2>2. <<x, k>> \in B
    BY <1>1, <2>1
  <2> QED
    BY <2>1, <2>2
<1>8. b \in Bijection(B, G)
  BY <1>5, <1>6, <1>7 DEF Bijection, Injection, Surjection, IsInjective
<1>9. IsFiniteSet(A) /\ IsFiniteSet(U) /\ IsFiniteSet(G)
  BY UnitsFinite
<1>10. IsFiniteSet(B)
  BY <1>9, FS_Subset
<1> HIDE DEF A, B, U, G, b
<1>11. Cardinality(B) = Cardinality(G)
  BY <1>8, <1>10, FS_Bijection DEF ExistsBijection
<1>12. Cardinality(A \cup B) = Cardinality(A) + Cardinality(B) - Cardinality(A \cap B)
  BY <1>9, <1>10, FS_Union
<1>13. Cardinality(A) \in Nat /\ Cardinality(B) \in Nat /\ Cardinality(A \cap B) = 0
  BY <1>4, <1>9, <1>10, FS_CardinalityType, FS_EmptySet
<1> QED
  BY <1>4, <1>11, <1>12, <1>13 DEF Reserved, A, U, G

(* One more reservation that was seen to fit.                              *)
LEMMA OneMoreFits ==
    ASSUME NEW n \in Nat, NEW held \in SUBSET (1..n), NEW c \in (1..n) \ held,
           NEW f \in [1..n -> Nat], NEW b \in Nat,
           NEW most \in Nat, NEW mostBytes \in Nat,
           Cardinality(held) < most, Reserved(f, held) + b <= mostBytes
    PROVE  /\ Cardinality(held \cup {c}) <= most
           /\ Reserved([f EXCEPT ![c] = b], held \cup {c}) <= mostBytes
<1> DEFINE g == [f EXCEPT ![c] = b]
<1>1. IsFiniteSet(held) /\ IsFiniteSet({c})
  BY IdsFinite, FS_Singleton
<1>2. /\ \A x \in held : g[x] = f[x]
      /\ \A x \in held \cup {c} : g[x] \in Nat
      /\ g[c] = b
  OBVIOUS
<1> HIDE DEF g
<1>3. Cardinality(held \cup {c}) = Cardinality(held) + 1 /\ Cardinality(held) \in Nat
  BY <1>1, FS_AddElement, FS_CardinalityType
<1>4. Reserved(g, held \cup {c}) = Reserved(g, held) + Reserved(g, {c})
  <2>1. held \cap {c} = {}
    OBVIOUS
  <2> QED
    BY <1>1, <1>2, <2>1, ReservedUnion
<1>5. Reserved(g, held) = Reserved(f, held) /\ Reserved(g, {c}) = b
  BY <1>2, ReservedSame, ReservedOne
<1>6. Reserved(f, held) \in Nat
  BY <1>1, ReservedType
<1>7. Reserved(g, held \cup {c}) <= mostBytes
  BY <1>4, <1>5, <1>6
<1> QED
  BY <1>3, <1>7 DEF g
-----------------------------------------------------------------------------
(* A set of natural numbers that has a member has a least one.             *)
LEMMA LeastNat ==
    ASSUME NEW T \in SUBSET Nat, T # {}
    PROVE  \E n \in T : \A m \in T : n <= m
<1>1. IsWellFoundedOn(OpToRel(<, Nat), Nat)
  BY NatLessThanWellFounded
<1>2. \E x \in T : \A y \in T : ~ (<<y, x>> \in OpToRel(<, Nat))
  BY <1>1, WFMin, Zenon
<1>3. PICK x \in T : \A y \in T : ~ (<<y, x>> \in OpToRel(<, Nat))
  BY <1>2
<1>4. \A y \in T : ~(y < x)
  BY <1>3 DEF OpToRel
<1> QED BY <1>4

(* Induction over the natural numbers: the least exception would have a
   predecessor that is none.  P is a set, which the provers can instantiate. *)
LEMMA NatInduct ==
    ASSUME NEW P, 0 \in P, \A n \in Nat : n \in P => n + 1 \in P
    PROVE  \A n \in Nat : n \in P
<1> SUFFICES ASSUME NEW k \in Nat \ P PROVE FALSE
  OBVIOUS
<1>1. PICK n \in Nat \ P : \A m \in Nat \ P : n <= m
  BY LeastNat, Zenon
<1>2. n - 1 \in Nat /\ n - 1 \notin Nat \ P
  BY <1>1
<1>3. (n - 1) + 1 = n
  BY <1>1
<1> QED
  BY <1>1, <1>2, <1>3

(* The first n + 1 entries of the table that Filtered computes.            *)
FilterTable(q, S, n, f) ==
    /\ f = [i \in 0..n |-> f[i]]
    /\ f[0] = <<>>
    /\ \A i \in 1..n : f[i] = IF q[i] \in S THEN Append(f[i - 1], q[i]) ELSE f[i - 1]

(* The recursion that filters a sequence has a solution of every length.   *)
LEMMA TableExists ==
    ASSUME NEW q, NEW S
    PROVE  \A n \in Nat : \E f : FilterTable(q, S, n, f)
<1> DEFINE P == {n \in Nat : \E f : FilterTable(q, S, n, f)}
<1>1. 0 \in P
  <2>1. FilterTable(q, S, 0, [i \in 0..0 |-> <<>>])
    BY DEF FilterTable
  <2> QED BY <2>1
<1>2. ASSUME NEW n \in Nat, n \in P PROVE n + 1 \in P
  <2>1. PICK f : FilterTable(q, S, n, f)
    BY <1>2
  <2> DEFINE g == [i \in 0..(n + 1) |->
                      IF i = n + 1 THEN IF q[i] \in S THEN Append(f[n], q[i]) ELSE f[n]
                      ELSE f[i]]
  <2>2. \A i \in 0..n : g[i] = f[i]
    OBVIOUS
  <2>3. g[n + 1] = IF q[n + 1] \in S THEN Append(f[n], q[n + 1]) ELSE f[n]
    OBVIOUS
  <2>4. g = [i \in 0..(n+1) |-> g[i]]
    OBVIOUS
  <2> HIDE DEF g
  <2>5. g[0] = <<>>
    BY <2>1, <2>2 DEF FilterTable
  <2>6. ASSUME NEW i \in 1..(n+1)
        PROVE  g[i] = IF q[i] \in S THEN Append(g[i - 1], q[i]) ELSE g[i - 1]
    <3>1. CASE i = n + 1
      BY <2>2, <2>3, <3>1
    <3>2. CASE i # n + 1
      <4>1. i \in 1..n /\ i - 1 \in 0..n /\ i \in 0..n
        BY <3>2
      <4> QED BY <2>1, <2>2, <4>1 DEF FilterTable
    <3> QED BY <3>1, <3>2
  <2>7. FilterTable(q, S, n + 1, g)
    BY <2>4, <2>5, <2>6 DEF FilterTable
  <2> QED BY <2>7
<1> HIDE DEF P
<1>3. \A n \in Nat : n \in P
  BY <1>1, <1>2, NatInduct
<1> QED BY <1>3 DEF P

(* Filtered is the last entry of the table its recursion describes.        *)
LEMMA FilteredTable ==
    ASSUME NEW T, NEW q \in Seq(T), NEW S
    PROVE  \E f : FilterTable(q, S, Len(q), f) /\ Filtered(q, S) = f[Len(q)]
<1> DEFINE Body(f) == [i \in 0..Len(q) |-> IF i = 0 THEN <<>>
          ELSE IF q[i] \in S THEN Append(f[i - 1], q[i]) ELSE f[i - 1]]
           kept == CHOOSE f : f = Body(f)
<1>1. Filtered(q, S) = kept[Len(q)]
  BY DEF Filtered
<1>2. Len(q) \in Nat
  BY LenProperties
<1>3. PICK f : FilterTable(q, S, Len(q), f)
  BY <1>2, TableExists
<1>4. f = Body(f)
  <2>1. ASSUME NEW i \in 0..Len(q)
        PROVE  f[i] = IF i = 0 THEN <<>>
                      ELSE IF q[i] \in S THEN Append(f[i - 1], q[i]) ELSE f[i - 1]
    <3>1. i = 0 \/ i \in 1..Len(q)
      BY <1>2
    <3> QED
      BY <1>3, <3>1 DEF FilterTable
  <2>2. f = [i \in 0..Len(q) |-> f[i]]
    BY <1>3 DEF FilterTable
  <2> QED
    BY <2>1, <2>2, Zenon
<1>5. kept = Body(kept)
  BY <1>4
<1> HIDE DEF kept
<1>6. FilterTable(q, S, Len(q), kept)
  <2>1. kept = [i \in 0..Len(q) |-> kept[i]]
    BY <1>5, Zenon
  <2>2. \A i \in 0..Len(q) : kept[i] = IF i = 0 THEN <<>>
                      ELSE IF q[i] \in S THEN Append(kept[i - 1], q[i]) ELSE kept[i - 1]
    BY <1>5, Zenon
  <2>3. 0 \in 0..Len(q) /\ \A i \in 1..Len(q) : i \in 0..Len(q) /\ i # 0
    BY <1>2
  <2> QED
    BY <2>1, <2>2, <2>3 DEF FilterTable
<1> QED BY <1>6, <1>1

(* What the first n members of q leave when only those in S are kept.      *)
Picture(q, S, n, p) ==
    /\ Len(p) <= n
    /\ \E h \in [1..Len(p) -> 1..n] :
          /\ \A i \in 1..Len(p) : p[i] = q[h[i]] /\ q[h[i]] \in S
          /\ \A i, j \in 1..Len(p) : i < j => h[i] < h[j]
          /\ \A k \in 1..n : q[k] \in S => \E i \in 1..Len(p) : h[i] = k
    /\ (\A k \in 1..n : q[k] \in S) => Len(p) = n /\ \A k \in 1..n : p[k] = q[k]
    /\ (\E k \in 1..n : q[k] \notin S) => Len(p) < n

(* One more member of the sequence extends the picture of its filter.      *)
LEMMA PictureStep ==
    ASSUME NEW T, NEW q \in Seq(T), NEW S, NEW n \in Nat, n + 1 <= Len(q),
           NEW p \in Seq(T), Picture(q, S, n, p),
           NEW r, r = IF q[n + 1] \in S THEN Append(p, q[n + 1]) ELSE p
    PROVE  r \in Seq(T) /\ Picture(q, S, n + 1, r)
<1>1. Len(q) \in Nat /\ Len(p) \in Nat /\ q[n + 1] \in T
  BY LenProperties
<1>2. PICK h \in [1..Len(p) -> 1..n] :
          /\ \A i \in 1..Len(p) : p[i] = q[h[i]] /\ q[h[i]] \in S
          /\ \A i, j \in 1..Len(p) : i < j => h[i] < h[j]
          /\ \A k \in 1..n : q[k] \in S => \E i \in 1..Len(p) : h[i] = k
  BY DEF Picture
<1>3. CASE q[n + 1] \notin S
  <2>1. r = p
    BY <1>3
  <2>2. h \in [1..Len(p) -> 1..(n + 1)]
    BY <1>1
  <2>3. \A k \in 1..(n + 1) : q[k] \in S => k \in 1..n
    BY <1>3
  <2> QED
    BY <1>1, <1>2, <1>3, <2>1, <2>2, <2>3 DEF Picture
<1>4. CASE q[n + 1] \in S
  <2>1. /\ r \in Seq(T) /\ Len(r) = Len(p) + 1
        /\ \A i \in 1..Len(p) : r[i] = p[i]
        /\ r[Len(p) + 1] = q[n + 1]
    BY <1>1, <1>4, AppendProperties
  <2> DEFINE g == [i \in 1..(Len(p) + 1) |-> IF i = Len(p) + 1 THEN n + 1 ELSE h[i]]
  <2>2. /\ \A i \in 1..Len(p) : g[i] = h[i] /\ h[i] \in 1..n
        /\ g[Len(p) + 1] = n + 1
        /\ g \in [1..(Len(p) + 1) -> 1..(n + 1)]
    <3> DEFINE m == Len(p)
    <3>1. m \in Nat /\ h \in [1..m -> 1..n]
      BY <1>1
    <3> HIDE DEF m
    <3>2. \A i \in 1..m : i \in 1..(m + 1) /\ i # m + 1 /\ h[i] \in 1..n /\ h[i] \in 1..(n + 1)
      BY <3>1
    <3>3. m + 1 \in 1..(m + 1) /\ n + 1 \in 1..(n + 1)
      BY <3>1
    <3>4. \A i \in 1..(m + 1) : i # m + 1 => i \in 1..m
      BY <3>1
    <3> QED
      BY <3>2, <3>3, <3>4, Zenon DEF m
  <2> HIDE DEF g
  <2>3. ASSUME NEW i \in 1..(Len(p) + 1)
        PROVE  r[i] = q[g[i]] /\ q[g[i]] \in S
    BY <1>1, <1>2, <1>4, <2>1, <2>2
  <2>4. ASSUME NEW i \in 1..(Len(p) + 1), NEW j \in 1..(Len(p) + 1), i < j
        PROVE  g[i] < g[j]
    <3>1. i \in 1..Len(p)
      BY <1>1, <2>4
    <3>2. CASE j = Len(p) + 1
      BY <2>2, <3>1, <3>2
    <3>3. CASE j \in 1..Len(p)
      BY <1>2, <2>2, <2>4, <3>1, <3>3
    <3> QED
      BY <1>1, <3>2, <3>3
  <2>5. ASSUME NEW k \in 1..(n + 1), q[k] \in S
        PROVE  \E i \in 1..(Len(p) + 1) : g[i] = k
    <3>1. CASE k = n + 1
      BY <1>1, <2>2, <3>1
    <3>2. CASE k \in 1..n
      BY <1>1, <1>2, <2>2, <2>5, <3>2
    <3> QED
      BY <3>1, <3>2
  <2>6. Len(r) <= n + 1
    BY <1>1, <2>1 DEF Picture
  <2>7. (\A k \in 1..(n + 1) : q[k] \in S) =>
           Len(r) = n + 1 /\ \A k \in 1..(n + 1) : r[k] = q[k]
    BY <1>1, <2>1 DEF Picture
  <2>8. (\E k \in 1..(n + 1) : q[k] \notin S) => Len(r) < n + 1
    BY <1>1, <1>4, <2>1 DEF Picture
  <2>9. g \in [1..Len(r) -> 1..(n + 1)]
    BY <2>1, <2>2
  <2>10. \E f \in [1..Len(r) -> 1..(n + 1)] :
            /\ \A i \in 1..Len(r) : r[i] = q[f[i]] /\ q[f[i]] \in S
            /\ \A i, j \in 1..Len(r) : i < j => f[i] < f[j]
            /\ \A k \in 1..(n + 1) : q[k] \in S => \E i \in 1..Len(r) : f[i] = k
    <3>1. \A i \in 1..Len(r) : r[i] = q[g[i]] /\ q[g[i]] \in S
      BY <2>1, <2>3
    <3>2. \A i, j \in 1..Len(r) : i < j => g[i] < g[j]
      BY <2>1, <2>4
    <3>3. \A k \in 1..(n + 1) : q[k] \in S => \E i \in 1..Len(r) : g[i] = k
      BY <2>1, <2>5
    <3> QED
      BY <2>9, <3>1, <3>2, <3>3, Zenon
  <2> QED
    BY <2>1, <2>6, <2>7, <2>8, <2>10, Zenon DEF Picture
<1> QED
  BY <1>3, <1>4

(* What Filtered returns: the members in S, each once, in their order.     *)
LEMMA FilteredPicture ==
    ASSUME NEW T, NEW q \in Seq(T), NEW S
    PROVE  Filtered(q, S) \in Seq(T) /\ Picture(q, S, Len(q), Filtered(q, S))
<1>1. PICK f : FilterTable(q, S, Len(q), f) /\ Filtered(q, S) = f[Len(q)]
  BY FilteredTable
<1>2. Len(q) \in Nat
  BY LenProperties
<1> DEFINE P == {n \in Nat : n <= Len(q) => f[n] \in Seq(T) /\ Picture(q, S, n, f[n])}
<1>3. 0 \in P
  <2>1. f[0] = <<>>
    BY <1>1 DEF FilterTable
  <2>2. Len(<<>>) = 0 /\ <<>> \in Seq(T)
    BY EmptySeq
  <2>3. Picture(q, S, 0, <<>>)
    <3> DEFINE h == [i \in 1..Len(<<>>) |-> i]
    <3>1. \A i : i \notin 1..0
      OBVIOUS
    <3>2. \A i : i \notin 1..Len(<<>>)
      BY <2>2, <3>1
    <3>3. h \in [1..Len(<<>>) -> 1..0]
      BY <3>2, Zenon
    <3> HIDE DEF h
    <3>4. \E g \in [1..Len(<<>>) -> 1..0] :
             /\ \A i \in 1..Len(<<>>) : <<>>[i] = q[g[i]] /\ q[g[i]] \in S
             /\ \A i, j \in 1..Len(<<>>) : i < j => g[i] < g[j]
             /\ \A k \in 1..0 : q[k] \in S => \E i \in 1..Len(<<>>) : g[i] = k
      BY <3>1, <3>2, <3>3, Zenon
    <3>5. Len(<<>>) <= 0
      BY <2>2
    <3>6. (\A k \in 1..0 : q[k] \in S) =>
             Len(<<>>) = 0 /\ \A k \in 1..0 : <<>>[k] = q[k]
      BY <2>2, <3>1, Zenon
    <3>7. (\E k \in 1..0 : q[k] \notin S) => Len(<<>>) < 0
      BY <3>1, Zenon
    <3> QED
      BY <3>4, <3>5, <3>6, <3>7, Zenon DEF Picture
  <2> QED
    BY <2>1, <2>2, <2>3
<1>4. ASSUME NEW n \in Nat, n \in P PROVE n + 1 \in P
  <2>1. SUFFICES ASSUME n + 1 <= Len(q)
                 PROVE  f[n + 1] \in Seq(T) /\ Picture(q, S, n + 1, f[n + 1])
    OBVIOUS
  <2>2. f[n] \in Seq(T) /\ Picture(q, S, n, f[n])
    BY <1>2, <1>4, <2>1
  <2>3. n + 1 \in 1..Len(q) /\ (n + 1) - 1 = n
    BY <1>2, <2>1
  <2>4. f[n + 1] = IF q[n + 1] \in S THEN Append(f[n], q[n + 1]) ELSE f[n]
    BY <1>1, <2>3 DEF FilterTable
  <2> QED
    BY <2>1, <2>2, <2>4, PictureStep
<1> HIDE DEF P
<1>5. Len(q) \in P
  BY <1>2, <1>3, <1>4, NatInduct
<1> QED
  BY <1>1, <1>2, <1>5 DEF P

(* A filter that every member passes changes nothing.                      *)
LEMMA FilteredAll ==
    ASSUME NEW T, NEW q \in Seq(T), NEW S, \A k \in 1..Len(q) : q[k] \in S
    PROVE  Filtered(q, S) = q
<1>1. /\ Filtered(q, S) \in Seq(T) /\ Len(Filtered(q, S)) = Len(q)
      /\ \A k \in 1..Len(q) : Filtered(q, S)[k] = q[k]
  BY FilteredPicture DEF Picture
<1> QED
  BY <1>1, SeqEqual

(* A filter that no member passes leaves nothing.                          *)
LEMMA FilteredNone ==
    ASSUME NEW T, NEW q \in Seq(T), NEW S, \A k \in 1..Len(q) : q[k] \notin S
    PROVE  Filtered(q, S) = <<>>
<1>1. Filtered(q, S) \in Seq(T) /\ Picture(q, S, Len(q), Filtered(q, S))
  BY FilteredPicture
<1>2. PICK h \in [1..Len(Filtered(q, S)) -> 1..Len(q)] :
          \A i \in 1..Len(Filtered(q, S)) : q[h[i]] \in S
  BY <1>1 DEF Picture
<1>3. ~(1 \in 1..Len(Filtered(q, S)))
  BY <1>2
<1> QED
  BY <1>1, <1>3, EmptySeq

(* Reservations that are only renamed keep their amount.                    *)
LEMMA ReservedRename ==
    ASSUME NEW S, NEW T, IsFiniteSet(S), NEW h \in Bijection(S, T),
           NEW f, NEW g, \A x \in S : f[x] \in Nat /\ g[h[x]] = f[x]
    PROVE  Reserved(f, S) = Reserved(g, T)
<1>1. /\ h \in [S -> T]
      /\ \A x, y \in S : h[x] = h[y] => x = y
      /\ \A y \in T : \E x \in S : h[x] = y
  BY DEF Bijection, Injection, Surjection, IsInjective
<1>2. ASSUME NEW u \in Units(f, S)
      PROVE  u[1] \in S /\ u[2] \in 1..f[u[1]] /\ u = <<u[1], u[2]>>
  <2>1. PICK x \in S : u \in {x} \X (1..f[x])
    BY DEF Units
  <2> QED
    BY <2>1
<1>3. ASSUME NEW x \in S, NEW k \in 1..f[x]
      PROVE  <<x, k>> \in Units(f, S) /\ <<h[x], k>> \in Units(g, T)
  <2>1. h[x] \in T /\ k \in 1..g[h[x]]
    BY <1>1
  <2>2. <<x, k>> \in {x} \X (1..f[x]) /\ <<h[x], k>> \in {h[x]} \X (1..g[h[x]])
    BY <2>1
  <2> QED
    BY <2>1, <2>2 DEF Units
<1> DEFINE b == [u \in Units(f, S) |-> <<h[u[1]], u[2]>>]
<1>4. b \in [Units(f, S) -> Units(g, T)]
  BY <1>2, <1>3
<1>5. ASSUME NEW u \in Units(f, S), NEW v \in Units(f, S), b[u] = b[v] PROVE u = v
  <2>1. h[u[1]] = h[v[1]] /\ u[2] = v[2]
    BY <1>5
  <2> QED
    BY <1>1, <1>2, <2>1
<1>6. ASSUME NEW w \in Units(g, T) PROVE \E u \in Units(f, S) : b[u] = w
  <2>1. PICK y \in T : w \in {y} \X (1..g[y])
    BY DEF Units
  <2>2. PICK x \in S : h[x] = y
    BY <1>1
  <2>3. w = <<h[x], w[2]>> /\ w[2] \in 1..f[x]
    BY <2>1, <2>2
  <2>4. <<x, w[2]>> \in Units(f, S)
    BY <1>3, <2>3
  <2> QED
    BY <2>3, <2>4
<1>7. b \in Bijection(Units(f, S), Units(g, T))
  BY <1>4, <1>5, <1>6 DEF Bijection, Injection, Surjection, IsInjective
<1> HIDE DEF b
<1>8. IsFiniteSet(Units(f, S))
  BY UnitsFinite
<1> QED
  BY <1>7, <1>8, FS_Bijection DEF Reserved, ExistsBijection

(* A weight is a natural number.                                            *)
LEMMA WeightType ==
    ASSUME NEW T, NEW q \in Seq(T), NEW c \in [T -> Nat]
    PROVE  Weight(c, q) \in Nat
<1>1. Len(q) \in Nat /\ \A i \in 1..Len(q) : c[q[i]] \in Nat
  BY LenProperties
<1>2. IsFiniteSet(1..Len(q))
  BY <1>1, FS_Interval
<1> QED
  BY <1>1, <1>2, ReservedType DEF Weight, Weights

(* The empty sequence weighs nothing.                                       *)
LEMMA WeightNone ==
    ASSUME NEW c
    PROVE  Weight(c, <<>>) = 0
<1>1. 1..Len(<<>>) = {}
  OBVIOUS
<1> QED
  BY <1>1, ReservedNone DEF Weight

(* A sequence is as heavy as a first part of its positions and the rest.    *)
LEMMA WeightSplit ==
    ASSUME NEW T, NEW q \in Seq(T), NEW c \in [T -> Nat], NEW I \in SUBSET (1..Len(q))
    PROVE  /\ Weight(c, q) = Reserved(Weights(c, q), I)
                                + Reserved(Weights(c, q), (1..Len(q)) \ I)
           /\ Reserved(Weights(c, q), I) \in Nat
           /\ Reserved(Weights(c, q), (1..Len(q)) \ I) \in Nat
<1> DEFINE w == Weights(c, q)
           J == (1..Len(q)) \ I
<1>1. Len(q) \in Nat /\ \A i \in 1..Len(q) : w[i] \in Nat
  BY LenProperties DEF Weights
<1>2. IsFiniteSet(1..Len(q))
  BY <1>1, FS_Interval
<1>3. IsFiniteSet(I) /\ IsFiniteSet(J)
  BY <1>2, FS_Subset
<1>4. I \cup J = 1..Len(q) /\ I \cap J = {}
  OBVIOUS
<1>5. \A x \in I \cup J : w[x] \in Nat
  BY <1>1, <1>4
<1> HIDE DEF w, J
<1>6. Reserved(w, I \cup J) = Reserved(w, I) + Reserved(w, J)
  BY <1>3, <1>4, <1>5, ReservedUnion
<1>7. Reserved(w, I) \in Nat /\ Reserved(w, J) \in Nat
  BY <1>3, <1>5, ReservedType
<1> QED
  BY <1>4, <1>6, <1>7 DEF Weight, w, J

(* The members of p are those of q at the positions I, each once.           *)
Places(q, p, I, h) ==
    /\ I \subseteq 1..Len(q)
    /\ h \in Bijection(1..Len(p), I)
    /\ \A i \in 1..Len(p) : p[i] = q[h[i]]

(* Then p weighs what these positions of q weigh.                           *)
LEMMA WeightOfPositions ==
    ASSUME NEW T, NEW q \in Seq(T), NEW p \in Seq(T), NEW c \in [T -> Nat],
           NEW I, NEW h, Places(q, p, I, h)
    PROVE  Weight(c, p) = Reserved(Weights(c, q), I)
<1> DEFINE f == Weights(c, p)
           w == Weights(c, q)
<1>1. Len(p) \in Nat /\ \A i \in 1..Len(p) : f[i] \in Nat
  BY LenProperties DEF Weights, Places
<1>2. IsFiniteSet(1..Len(p))
  BY <1>1, FS_Interval
<1>3. h \in [1..Len(p) -> I]
  BY DEF Places, Bijection, Injection
<1>4. \A i \in 1..Len(p) : f[i] \in Nat /\ w[h[i]] = f[i]
  BY <1>1, <1>3 DEF Weights, Places
<1> DEFINE N == 1..Len(p)
<1>5. /\ IsFiniteSet(N) /\ h \in Bijection(N, I)
      /\ \A i \in N : f[i] \in Nat /\ w[h[i]] = f[i]
  BY <1>2, <1>4 DEF Places
<1> HIDE DEF f, w, N
<1>6. Reserved(f, N) = Reserved(w, I)
  BY ONLY <1>5, ReservedRename
<1> QED
  BY <1>6 DEF Weight, f, w, N

(* What a filter leaves weighs what its positions in the sequence weigh.    *)
LEMMA WeightFiltered ==
    ASSUME NEW T, NEW q \in Seq(T), NEW c \in [T -> Nat], NEW S
    PROVE  Weight(c, Filtered(q, S)) =
               Reserved(Weights(c, q), {i \in 1..Len(q) : q[i] \in S})
<1> DEFINE p == Filtered(q, S)
           I == {i \in 1..Len(q) : q[i] \in S}
<1>1. p \in Seq(T) /\ Picture(q, S, Len(q), p)
  BY FilteredPicture
<1>2. PICK h \in [1..Len(p) -> 1..Len(q)] :
          /\ \A i \in 1..Len(p) : p[i] = q[h[i]] /\ q[h[i]] \in S
          /\ \A i, j \in 1..Len(p) : i < j => h[i] < h[j]
          /\ \A k \in 1..Len(q) : q[k] \in S => \E i \in 1..Len(p) : h[i] = k
  BY <1>1 DEF Picture
<1>3. Len(p) \in Nat /\ Len(q) \in Nat
  BY <1>1, LenProperties
<1> HIDE DEF p
<1>4. h \in [1..Len(p) -> I]
  BY <1>2
<1>5. ASSUME NEW i \in 1..Len(p), NEW j \in 1..Len(p), h[i] = h[j] PROVE i = j
  <2>1. h[i] \in 1..Len(q) /\ h[j] \in 1..Len(q)
    OBVIOUS
  <2>2. i \in Int /\ j \in Int /\ h[i] \in Int /\ h[j] \in Int
    BY ONLY <1>3, <2>1, i \in 1..Len(p), j \in 1..Len(p)
  <2> QED
    BY <1>2, <1>5, <2>2
<1>6. h \in Bijection(1..Len(p), I)
  BY <1>2, <1>4, <1>5 DEF Bijection, Injection, Surjection, IsInjective
<1>7. p \in Seq(T) /\ I \in SUBSET (1..Len(q)) /\ \A i \in 1..Len(p) : p[i] = q[h[i]]
  BY <1>1, <1>2 DEF p
<1> HIDE DEF I
<1>8. Weight(c, p) = Reserved(Weights(c, q), I)
  <2>1. Places(q, p, I, h)
    BY <1>6, <1>7 DEF Places
  <2> QED
    BY <1>7, <2>1, WeightOfPositions
<1> QED
  BY <1>8 DEF p, I

(* A filter leaves no more than there was.                                  *)
LEMMA WeightFilteredLess ==
    ASSUME NEW T, NEW q \in Seq(T), NEW c \in [T -> Nat], NEW S
    PROVE  Weight(c, Filtered(q, S)) <= Weight(c, q)
<1> DEFINE I == {i \in 1..Len(q) : q[i] \in S}
           w == Weights(c, q)
<1>1. /\ Weight(c, q) = Reserved(w, I) + Reserved(w, (1..Len(q)) \ I)
      /\ Reserved(w, I) \in Nat /\ Reserved(w, (1..Len(q)) \ I) \in Nat
  BY WeightSplit
<1>2. Weight(c, Filtered(q, S)) = Reserved(w, I)
  BY WeightFiltered
<1> HIDE DEF I, w
<1> QED
  BY <1>1, <1>2

(* Taking out the one member at position k takes out its weight.            *)
LEMMA WeightWithout ==
    ASSUME NEW T, NEW q \in Seq(T), NEW c \in [T -> Nat], NEW S, NEW k \in 1..Len(q),
           \A i \in 1..Len(q) : q[i] \in S <=> i # k
    PROVE  Weight(c, q) = Weight(c, Filtered(q, S)) + c[q[k]]
<1> DEFINE I == {i \in 1..Len(q) : q[i] \in S}
           w == Weights(c, q)
<1>1. Weight(c, q) = Reserved(w, I) + Reserved(w, (1..Len(q)) \ I)
  <2>1. I \in SUBSET (1..Len(q))
    OBVIOUS
  <2> HIDE DEF I
  <2> QED
    BY <2>1, WeightSplit
<1>2. Weight(c, Filtered(q, S)) = Reserved(w, I)
  <2> HIDE DEF w
  <2> QED
    BY WeightFiltered DEF w
<1>3. (1..Len(q)) \ I = {k}
  OBVIOUS
<1>4. w[k] = c[q[k]] /\ w[k] \in Nat
  BY LenProperties DEF Weights
<1> HIDE DEF I, w
<1>5. Reserved(w, {k}) = w[k]
  BY <1>4, ReservedOne
<1> QED
  BY <1>1, <1>2, <1>3, <1>4, <1>5

(* A sequence is as heavy as its first n members and the others.            *)
LEMMA WeightCut ==
    ASSUME NEW T, NEW q \in Seq(T), NEW c \in [T -> Nat], NEW n \in 0..Len(q)
    PROVE  Weight(c, q) = Weight(c, SubSeq(q, 1, n)) + Weight(c, SubSeq(q, n + 1, Len(q)))
<1> DEFINE a == SubSeq(q, 1, n)
           b == SubSeq(q, n + 1, Len(q))
           w == Weights(c, q)
           I == 1..n
           J == (1..Len(q)) \ I
<1>1. Len(q) \in Nat /\ \A i \in 1..Len(q) : q[i] \in T
  BY LenProperties
<1>2. a \in Seq(T) /\ Len(a) = n /\ \A i \in 1..n : a[i] = q[i]
  BY <1>1, SubSeqProperties
<1>3. b \in Seq(T) /\ Len(b) = Len(q) - n /\ \A i \in 1..(Len(q) - n) : b[i] = q[n + i]
  <2>1. \A i \in (n + 1)..Len(q) : q[i] \in T
    BY <1>1
  <2>2. /\ b \in Seq(T)
        /\ Len(b) = IF n + 1 <= Len(q) THEN Len(q) - (n + 1) + 1 ELSE 0
        /\ \A i \in 1 .. Len(q) - (n + 1) + 1 : b[i] = q[(n + 1) + i - 1]
    BY <1>1, <2>1, SubSeqProperties
  <2>3. \A i \in 1..(Len(q) - n) : (n + 1) + i - 1 = n + i /\ i \in 1 .. Len(q) - (n + 1) + 1
    BY <1>1
  <2>4. Len(b) = Len(q) - n
    BY <1>1, <2>2
  <2> QED
    BY <2>2, <2>3, <2>4
<1> HIDE DEF a, b
<1>4. Weight(c, a) = Reserved(w, I)
  <2> DEFINE h == [i \in 1..Len(a) |-> i]
  <2>1. h \in Bijection(1..Len(a), I)
    BY <1>2 DEF Bijection, Injection, Surjection, IsInjective
  <2>2. \A i \in 1..Len(a) : a[i] = q[h[i]]
    BY <1>2
  <2>3. I \in SUBSET (1..Len(q))
    BY <1>1
  <2>4. Places(q, a, I, h)
    BY <2>1, <2>2, <2>3 DEF Places
  <2> HIDE DEF h, I
  <2> QED
    BY <1>2, <2>4, WeightOfPositions
<1>5. Weight(c, b) = Reserved(w, J)
  <2> DEFINE h == [i \in 1..Len(b) |-> n + i]
  <2>1. h \in [1..Len(b) -> J]
    BY <1>1, <1>3
  <2>2. \A i, j \in 1..Len(b) : h[i] = h[j] => i = j
    BY <1>1, <1>3
  <2>3. ASSUME NEW k \in J PROVE \E i \in 1..Len(b) : h[i] = k
    <3>1. k - n \in 1..Len(b) /\ h[k - n] = k
      BY <1>1, <1>3
    <3> QED
      BY <3>1
  <2>4. h \in Bijection(1..Len(b), J)
    BY <2>1, <2>2, <2>3 DEF Bijection, Injection, Surjection, IsInjective
  <2>5. \A i \in 1..Len(b) : b[i] = q[h[i]]
    BY <1>1, <1>3
  <2>6. J \in SUBSET (1..Len(q))
    OBVIOUS
  <2> HIDE DEF h, J
  <2>7. Places(q, b, J, h)
    BY <2>4, <2>5, <2>6 DEF Places
  <2> QED
    BY <1>3, <2>7, WeightOfPositions
<1>6. Weight(c, q) = Reserved(w, I) + Reserved(w, J)
  <2>1. I \in SUBSET (1..Len(q))
    BY <1>1
  <2> HIDE DEF I
  <2> QED
    BY <2>1, WeightSplit
<1> QED
  BY <1>4, <1>5, <1>6 DEF a, b

(* One more member adds its weight.                                         *)
LEMMA WeightAppend ==
    ASSUME NEW T, NEW q \in Seq(T), NEW c \in [T -> Nat], NEW x \in T
    PROVE  Weight(c, Append(q, x)) = Weight(c, q) + c[x]
<1> DEFINE p == Append(q, x)
           n == Len(q)
           f == Weights(c, p)
           w == Weights(c, q)
<1>1. n \in Nat /\ \A i \in 1..n : q[i] \in T
  BY LenProperties
<1>2. p \in Seq(T) /\ Len(p) = n + 1 /\ p[n + 1] = x /\ \A i \in 1..n : p[i] = q[i]
  OBVIOUS
<1>3. \A i \in 1..n : f[i] = w[i]
  BY <1>1, <1>2 DEF Weights
<1>4. f[n + 1] = c[x] /\ f[n + 1] \in Nat
  BY <1>1, <1>2 DEF Weights
<1>5. /\ IsFiniteSet(1..n) /\ IsFiniteSet({n + 1}) /\ (1..n) \cap {n + 1} = {}
      /\ (1..n) \cup {n + 1} = 1..Len(p)
  <2> HIDE DEF n, p
  <2>1. IsFiniteSet(1..n)
    BY <1>1, FS_Interval
  <2>2. IsFiniteSet({n + 1})
    BY FS_Singleton
  <2> QED
    BY <1>1, <1>2, <2>1, <2>2
<1>6. \A i \in (1..n) \cup {n + 1} : f[i] \in Nat
  BY <1>1, <1>2, <1>4 DEF Weights
<1> HIDE DEF f, w, n, p
<1>7. Reserved(f, (1..n) \cup {n + 1}) = Reserved(f, 1..n) + Reserved(f, {n + 1})
  BY <1>5, <1>6, ReservedUnion
<1>8. Reserved(f, {n + 1}) = c[x]
  BY <1>4, ReservedOne
<1>9. Reserved(f, 1..n) = Reserved(w, 1..n)
  BY <1>3, ReservedSame
<1>10. Weight(c, p) = Reserved(f, 1..Len(p)) /\ Weight(c, q) = Reserved(w, 1..n)
  BY DEF Weight, f, w, n
<1> QED
  BY <1>5, <1>7, <1>8, <1>9, <1>10 DEF p

-----------------------------------------------------------------------------
(* A sequence without repetitions has as many members as positions.         *)
LEMMA DistinctLength ==
    ASSUME NEW T, NEW q \in Seq(T), \A i, j \in 1..Len(q) : q[i] = q[j] => i = j
    PROVE  Cardinality({q[i] : i \in DOMAIN q}) = Len(q)
<1> DEFINE S == {q[i] : i \in DOMAIN q}
<1>1. Len(q) \in Nat /\ q \in [1..Len(q) -> T] /\ DOMAIN q = 1..Len(q)
  BY LenProperties
<1>2. q \in Bijection(1..Len(q), S)
  BY <1>1 DEF Bijection, Injection, Surjection, IsInjective
<1>3. IsFiniteSet(1..Len(q)) /\ Cardinality(1..Len(q)) = Len(q)
  BY <1>1, FS_Interval
<1> QED
  BY <1>2, <1>3, FS_Bijection DEF ExistsBijection

(* What a sequence contains.                                                *)
LEMMA MembersOf ==
    ASSUME NEW T, NEW q \in Seq(T)
    PROVE  \A x : x \in {q[i] : i \in DOMAIN q} <=> \E i \in 1..Len(q) : q[i] = x
<1>1. DOMAIN q = 1..Len(q)
  BY LenProperties
<1> QED
  BY <1>1
===============================================================================

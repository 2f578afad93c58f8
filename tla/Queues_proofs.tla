---------------------------- MODULE Queues_proofs ----------------------------
(***************************************************************************)
(* What filtering a queue by positions returns, for every queue: the       *)
(* entries at those positions, each once, in their order.                  *)
(***************************************************************************)
EXTENDS Integers, SequencesExt, Queues, FiniteSetTheorems, SequenceTheorems, TLAPS

\* The positions kept are numbered 1, 2, ... in their order.
LEMMA PlacesNumbered ==
    ASSUME NEW n \in Nat, NEW keep \in SUBSET (1 .. n)
    PROVE  /\ IsFiniteSet(keep) /\ Cardinality(keep) \in Nat
           /\ \A k \in keep : Place(keep, k) \in 1 .. Cardinality(keep)
           /\ \A k, l \in keep : k < l => Place(keep, k) < Place(keep, l)
           /\ \A i \in 1 .. Cardinality(keep) : \E k \in keep : Place(keep, k) = i
<1>1. IsFiniteSet(1 .. n)
  BY FS_Interval
<1>2. IsFiniteSet(keep) /\ Cardinality(keep) \in Nat
  BY <1>1, FS_Subset, FS_CardinalityType
<1>3. \A k \in keep : Place(keep, k) \in 1 .. Cardinality(keep)
  <2> TAKE k \in keep
  <2> DEFINE below == {m \in keep : m <= k}
  <2>1. below \in SUBSET keep /\ k \in below
    OBVIOUS
  <2>2. IsFiniteSet(below) /\ Cardinality(below) <= Cardinality(keep)
    BY ONLY <1>2, <2>1, FS_Subset
  <2>3. Cardinality(below) \in Nat
    BY ONLY <2>2, FS_CardinalityType
  <2>4. Cardinality(below) # 0
    BY ONLY <2>1, <2>2, FS_EmptySet
  <2>5. Cardinality(below) \in 1 .. Cardinality(keep)
    BY ONLY <1>2, <2>2, <2>3, <2>4
  <2> QED
    BY <2>5 DEF Place
<1>4. \A k, l \in keep : k < l => Place(keep, k) < Place(keep, l)
  <2> SUFFICES ASSUME NEW k \in keep, NEW l \in keep, k < l
               PROVE  Place(keep, k) < Place(keep, l)
    OBVIOUS
  <2> DEFINE low == {m \in keep : m <= k}
             high == {m \in keep : m <= l}
  <2>0. \A m \in keep : m \in Int
    OBVIOUS
  <2>1. low \in SUBSET high /\ high \in SUBSET keep /\ low # high
    <3>1. \A m \in keep : m <= k => m <= l
      BY <2>0
    <3>2. l \in high /\ l \notin low
      BY <2>0
    <3> QED
      BY <3>1, <3>2
  <2>2. IsFiniteSet(high)
    BY ONLY <1>2, <2>1, FS_Subset
  <2>3. IsFiniteSet(low) /\ Cardinality(low) <= Cardinality(high)
        /\ Cardinality(high) # Cardinality(low)
    BY ONLY <2>1, <2>2, FS_Subset
  <2>4. Cardinality(low) \in Nat /\ Cardinality(high) \in Nat
    BY ONLY <2>2, <2>3, FS_CardinalityType
  <2>5. Cardinality(low) < Cardinality(high)
    BY ONLY <2>3, <2>4
  <2> QED
    BY <2>5 DEF Place
<1>5. \A i \in 1 .. Cardinality(keep) : \E k \in keep : Place(keep, k) = i
  <2> DEFINE c == Cardinality(keep)
             f == [k \in keep |-> Place(keep, k)]
  <2>1. \A k, l \in keep : Place(keep, k) = Place(keep, l) => k = l
    <3> TAKE k, l \in keep
    <3>1. k \in Int /\ l \in Int /\ Place(keep, k) \in Int /\ Place(keep, l) \in Int
      BY <1>2, <1>3
    <3> QED
      BY <1>4, <3>1
  <2>2. f \in Injection(keep, 1 .. c)
    BY <1>3, <2>1 DEF Injection, IsInjective
  <2>3. IsFiniteSet(1 .. c) /\ Cardinality(1 .. c) = c
    BY ONLY <1>2, FS_Interval
  <2>4. f \in Surjection(keep, 1 .. c)
    BY ONLY <1>2, <2>2, <2>3, FS_Injection
  <2>5. \A i \in 1 .. c : \E k \in keep : f[k] = i
    BY ONLY <2>4 DEF Surjection
  <2> QED
    BY <2>5
<1> QED
  BY <1>2, <1>3, <1>4, <1>5

\* The n-th of them is a position kept, later ones come later, and none is left out.
LEMMA Nths ==
    ASSUME NEW n \in Nat, NEW keep \in SUBSET (1 .. n)
    PROVE  /\ \A i \in 1 .. Cardinality(keep) : Nth(keep, i) \in keep
           /\ \A i, j \in 1 .. Cardinality(keep) : i < j => Nth(keep, i) < Nth(keep, j)
           /\ \A k \in keep : \E i \in 1 .. Cardinality(keep) : Nth(keep, i) = k
<1>0. \A k \in keep : k \in Int /\ Place(keep, k) \in Int
  <2> TAKE k \in keep
  <2>1. k \in Int
    OBVIOUS
  <2>2. Place(keep, k) \in 1 .. Cardinality(keep) /\ Cardinality(keep) \in Nat
    BY PlacesNumbered
  <2> QED
    BY ONLY <2>1, <2>2
<1> DEFINE c == Cardinality(keep)
<1>1. \A i \in 1 .. c : Nth(keep, i) \in keep /\ Place(keep, Nth(keep, i)) = i
  BY PlacesNumbered DEF Nth
<1>2. \A k, l \in keep : Place(keep, k) = Place(keep, l) => k = l
  <2> TAKE k, l \in keep
  <2>1. k \in Int /\ l \in Int /\ Place(keep, k) \in Int /\ Place(keep, l) \in Int
    BY <1>0
  <2>2. /\ k < l => Place(keep, k) < Place(keep, l)
        /\ l < k => Place(keep, l) < Place(keep, k)
    BY PlacesNumbered
  <2> QED
    BY ONLY <2>1, <2>2
<1>3. \A i, j \in 1 .. c : i < j => Nth(keep, i) < Nth(keep, j)
  <2> SUFFICES ASSUME NEW i \in 1 .. c, NEW j \in 1 .. c, i < j
               PROVE  Nth(keep, i) < Nth(keep, j)
    OBVIOUS
  <2>1. Nth(keep, i) \in keep /\ Nth(keep, j) \in keep
    BY <1>1
  <2>2. ~(Nth(keep, j) < Nth(keep, i)) /\ Nth(keep, i) # Nth(keep, j)
    <3>1. Place(keep, Nth(keep, i)) < Place(keep, Nth(keep, j))
      BY <1>1, PlacesNumbered
    <3>2. Nth(keep, j) < Nth(keep, i) => Place(keep, Nth(keep, j)) < Place(keep, Nth(keep, i))
      BY <2>1, PlacesNumbered
    <3>3. Place(keep, Nth(keep, i)) \in Int /\ Place(keep, Nth(keep, j)) \in Int
      BY <1>0, <2>1
    <3> QED
      BY <3>1, <3>2, <3>3
  <2>3. Nth(keep, i) \in Int /\ Nth(keep, j) \in Int
    BY <1>0, <2>1
  <2> QED
    BY ONLY <2>2, <2>3
<1>4. \A k \in keep : \E i \in 1 .. c : Nth(keep, i) = k
  <2> TAKE k \in keep
  <2>1. Place(keep, k) \in 1 .. c
    BY PlacesNumbered
  <2> WITNESS Place(keep, k) \in 1 .. c
  <2> QED
    BY <1>1, <1>2, <2>1
<1> QED
  BY <1>1, <1>3, <1>4

\* A filtered queue holds what it keeps, at the place of its position.
LEMMA OnlyProperties ==
    ASSUME NEW S, NEW q \in Seq(S), NEW keep \in SUBSET (DOMAIN q)
    PROVE  /\ Only(q, keep) \in Seq(S)
           /\ \A i \in DOMAIN Only(q, keep) :
                 Nth(keep, i) \in keep /\ Only(q, keep)[i] = q[Nth(keep, i)]
           /\ \A i, j \in DOMAIN Only(q, keep) : i < j => Nth(keep, i) < Nth(keep, j)
           /\ \A k \in keep : \E i \in DOMAIN Only(q, keep) : Nth(keep, i) = k
<1>1. Len(q) \in Nat /\ DOMAIN q = 1 .. Len(q) /\ \A i \in 1 .. Len(q) : q[i] \in S
  OBVIOUS
<1>2. Cardinality(keep) \in Nat
  BY <1>1, PlacesNumbered
<1>3. DOMAIN Only(q, keep) = 1 .. Cardinality(keep)
  BY DEF Only
<1>4. \A i \in 1 .. Cardinality(keep) : Nth(keep, i) \in keep /\ Only(q, keep)[i] = q[Nth(keep, i)]
  BY <1>1, Nths DEF Only
<1>5. Only(q, keep) \in Seq(S)
  <2>1. \A i \in 1 .. Cardinality(keep) : q[Nth(keep, i)] \in S
    BY <1>1, <1>4
  <2> QED
    BY <1>2, <2>1 DEF Only
<1> QED
  BY <1>1, <1>3, <1>4, <1>5, Nths

\* The first of some positions is the least of them.
LEMMA LeastPosition ==
    ASSUME NEW n \in Nat, NEW keep \in SUBSET (1 .. n), keep # {}
    PROVE  \E k \in keep : \A l \in keep : k <= l
<1>0. \A k \in keep : k \in Int /\ Place(keep, k) \in Int
  <2> TAKE k \in keep
  <2>1. k \in Int
    OBVIOUS
  <2>2. Place(keep, k) \in 1 .. Cardinality(keep) /\ Cardinality(keep) \in Nat
    BY PlacesNumbered
  <2> QED
    BY ONLY <2>1, <2>2
<1>1. Cardinality(keep) \in Nat /\ \E k \in keep : Place(keep, k) \in 1 .. Cardinality(keep)
  BY PlacesNumbered
<1>2. 1 \in 1 .. Cardinality(keep)
  BY <1>1
<1>3. PICK k \in keep : Place(keep, k) = 1
  BY <1>2, PlacesNumbered
<1>4. \A l \in keep : k <= l
  <2> TAKE l \in keep
  <2>1. Place(keep, l) \in 1 .. Cardinality(keep) /\ k \in Int /\ l \in Int
    BY <1>0, PlacesNumbered
  <2>2. l < k => Place(keep, l) < Place(keep, k)
    BY PlacesNumbered
  <2> QED
    BY <1>1, <1>3, <2>1, <2>2
<1> QED
  BY <1>4

\* What a queue has.
LEMMA SetOf == ASSUME NEW S, NEW q \in Seq(S)
               PROVE  /\ ToSet(q) \subseteq S /\ Len(q) \in Nat /\ DOMAIN q = 1 .. Len(q)
                      /\ \A i \in 1 .. Len(q) : q[i] \in ToSet(q) /\ q[i] \in S
                      /\ \A e \in ToSet(q) : \E i \in 1 .. Len(q) : q[i] = e
BY DEF ToSet

\* The empty queue.
LEMMA OfNone == ToSet(<<>>) = {} /\ IsInjective(<<>>) /\ \A S : <<>> \in Seq(S)
BY DEF ToSet, IsInjective

\* A queue after push.
LEMMA Pushed ==
    ASSUME NEW S, NEW q \in Seq(S), NEW e \in S
    PROVE  /\ Append(q, e) \in Seq(S) /\ Len(Append(q, e)) = Len(q) + 1
           /\ ToSet(Append(q, e)) = ToSet(q) \cup {e}
           /\ IsInjective(q) /\ e \notin ToSet(q) => IsInjective(Append(q, e))
<1>1. /\ Append(q, e) \in Seq(S) /\ Len(Append(q, e)) = Len(q) + 1 /\ Len(q) \in Nat
      /\ \A i \in 1 .. Len(q) : Append(q, e)[i] = q[i]
      /\ Append(q, e)[Len(q) + 1] = e
  BY AppendProperties, LenProperties
<1>2. DOMAIN Append(q, e) = 1 .. Len(q) + 1 /\ DOMAIN q = 1 .. Len(q)
  BY <1>1, LenProperties
<1> DEFINE r == Append(q, e)
<1> HIDE DEF r
<1>3. ToSet(r) = ToSet(q) \cup {e}
  BY <1>1, <1>2 DEF ToSet, r
<1>4. IsInjective(q) /\ e \notin ToSet(q) => IsInjective(r)
  <2> SUFFICES ASSUME IsInjective(q), e \notin ToSet(q), NEW i \in 1 .. Len(q) + 1,
                      NEW j \in 1 .. Len(q) + 1, r[i] = r[j]
               PROVE  i = j
    BY <1>2 DEF IsInjective, r
  <2>1. \A k \in 1 .. Len(q) : r[k] = q[k] /\ q[k] # e
    BY <1>1, <1>2 DEF ToSet, r
  <2>2. r[Len(q) + 1] = e
    BY <1>1 DEF r
  <2>3. \A k, l \in 1 .. Len(q) : q[k] = q[l] => k = l
    BY <1>2 DEF IsInjective
  <2> QED
    BY <1>1, <2>1, <2>2, <2>3
<1> QED
  BY <1>1, <1>3, <1>4 DEF r

\* The entries of q that are not in D.
Rid(q, D) == Only(q, {k \in DOMAIN q : q[k] \notin D})

\* A queue after a filter by its entries.
LEMMA Filtered ==
    ASSUME NEW S, NEW q \in Seq(S), NEW D
    PROVE  /\ Rid(q, D) \in Seq(S) /\ ToSet(Rid(q, D)) = ToSet(q) \ D
           /\ IsInjective(q) => IsInjective(Rid(q, D))
           /\ Len(Rid(q, D)) <= Len(q)
<1> DEFINE keep == {k \in DOMAIN q : q[k] \notin D}
           r == Only(q, keep)
<1>1. DOMAIN q = 1 .. Len(q) /\ Len(q) \in Nat /\ keep \in SUBSET (DOMAIN q)
  BY LenProperties
<1>2. \A k \in DOMAIN q : k \in keep <=> q[k] \notin D
  OBVIOUS
<1> HIDE DEF keep
<1>3. /\ r \in Seq(S)
      /\ \A i \in DOMAIN r : Nth(keep, i) \in keep /\ r[i] = q[Nth(keep, i)]
      /\ \A i, j \in DOMAIN r : i < j => Nth(keep, i) < Nth(keep, j)
      /\ \A k \in keep : \E i \in DOMAIN r : Nth(keep, i) = k
  BY <1>1, OnlyProperties
<1>4. Len(r) <= Len(q) /\ DOMAIN r = 1 .. Len(r) /\ Len(r) \in Nat
  <2>1. IsFiniteSet(1 .. Len(q)) /\ Cardinality(1 .. Len(q)) = Len(q)
    <3>1. ASSUME NEW n \in Nat PROVE IsFiniteSet(1 .. n) /\ Cardinality(1 .. n) = n
      BY ONLY n \in Nat, FS_Interval
    <3>2. Len(q) \in Nat
      BY <1>1
    <3> QED
      BY ONLY <3>1, <3>2
  <2>2. Cardinality(keep) <= Len(q) /\ Cardinality(keep) \in Nat
    <3>1. keep \subseteq 1 .. Len(q)
      BY <1>1
    <3>2. IsFiniteSet(keep) /\ Cardinality(keep) <= Cardinality(1 .. Len(q))
      BY <2>1, <3>1, FS_Subset
    <3> QED
      BY <2>1, <3>2, FS_CardinalityType
  <2>3. DOMAIN r = 1 .. Cardinality(keep)
    BY DEF Only
  <2>4. DOMAIN r = 1 .. Len(r) /\ Len(r) \in Nat
    BY <1>3, LenProperties
  <2> QED
    BY <1>1, <2>2, <2>3, <2>4
<1>5. Rid(q, D) = r
  BY DEF Rid, keep
<1> HIDE DEF r
<1>6. ToSet(r) = ToSet(q) \ D
  <2>1. ASSUME NEW e \in ToSet(r) PROVE e \in ToSet(q) /\ e \notin D
    BY <1>1, <1>2, <1>3, <2>1 DEF ToSet
  <2>2. ASSUME NEW e \in ToSet(q), e \notin D PROVE e \in ToSet(r)
    <3>1. PICK k \in DOMAIN q : q[k] = e
      BY DEF ToSet
    <3>2. k \in keep
      BY <1>2, <2>2, <3>1
    <3> QED
      BY <1>3, <3>1, <3>2 DEF ToSet
  <2> QED
    BY <2>1, <2>2
<1>7. IsInjective(q) => IsInjective(r)
  <2> SUFFICES ASSUME IsInjective(q), NEW i \in DOMAIN r, NEW j \in DOMAIN r, r[i] = r[j]
               PROVE  i = j
    BY DEF IsInjective
  <2>1. Nth(keep, i) = Nth(keep, j)
    BY <1>1, <1>3 DEF IsInjective
  <2>2. Nth(keep, i) \in Int /\ Nth(keep, j) \in Int /\ i \in Int /\ j \in Int
    BY <1>1, <1>3, <1>4
  <2> QED
    BY <1>3, <2>1, <2>2
<1> QED
  BY <1>3, <1>4, <1>5, <1>6, <1>7

\* Two queues, one after the other.
LEMMA Concatenated ==
    ASSUME NEW S, NEW p \in Seq(S), NEW q \in Seq(S)
    PROVE  /\ p \o q \in Seq(S) /\ ToSet(p \o q) = ToSet(p) \cup ToSet(q)
           /\ IsInjective(p) /\ IsInjective(q) /\ ToSet(p) \cap ToSet(q) = {} => IsInjective(p \o q)
<1> DEFINE r == p \o q
<1>1. /\ r \in Seq(S) /\ Len(r) = Len(p) + Len(q) /\ Len(p) \in Nat /\ Len(q) \in Nat
      /\ \A i \in 1 .. Len(p) + Len(q) : r[i] = IF i <= Len(p) THEN p[i] ELSE q[i - Len(p)]
  BY ConcatProperties, LenProperties
<1>2. /\ DOMAIN r = 1 .. Len(p) + Len(q) /\ DOMAIN p = 1 .. Len(p) /\ DOMAIN q = 1 .. Len(q)
  BY <1>1, LenProperties
<1> HIDE DEF r
<1>3. /\ \A i \in 1 .. Len(p) : i \in DOMAIN r /\ r[i] = p[i]
      /\ \A i \in 1 .. Len(q) : Len(p) + i \in DOMAIN r /\ r[Len(p) + i] = q[i]
      /\ \A i \in DOMAIN r : \/ i \in 1 .. Len(p) /\ r[i] = p[i]
                             \/ i - Len(p) \in 1 .. Len(q) /\ r[i] = q[i - Len(p)]
  <2>1. \A i \in 1 .. Len(p) : i \in DOMAIN r /\ r[i] = p[i]
    BY <1>1, <1>2
  <2>2. ASSUME NEW i \in 1 .. Len(q)
        PROVE  Len(p) + i \in DOMAIN r /\ r[Len(p) + i] = q[i]
    <3> DEFINE n == Len(p) + i
    <3>1. n \in 1 .. Len(p) + Len(q) /\ ~(n <= Len(p)) /\ n - Len(p) = i
      BY <1>1
    <3> HIDE DEF n
    <3>2. n \in DOMAIN r /\ r[n] = q[i]
      BY <1>1, <1>2, <3>1
    <3> QED
      BY <3>2 DEF n
  <2>3. ASSUME NEW i \in DOMAIN r
        PROVE  \/ i \in 1 .. Len(p) /\ r[i] = p[i]
               \/ i - Len(p) \in 1 .. Len(q) /\ r[i] = q[i - Len(p)]
    <3>1. i \in 1 .. Len(p) + Len(q) /\ r[i] = IF i <= Len(p) THEN p[i] ELSE q[i - Len(p)]
      BY <1>1, <1>2
    <3> QED
      BY <1>1, <3>1
  <2> QED
    BY <2>1, <2>2, <2>3
<1>4. ToSet(r) = ToSet(p) \cup ToSet(q)
  <2>1. \A e \in ToSet(r) : e \in ToSet(p) \/ e \in ToSet(q)
    BY <1>2, <1>3 DEF ToSet
  <2>2. \A e \in ToSet(p) : e \in ToSet(r)
    BY <1>2, <1>3 DEF ToSet
  <2>3. \A e \in ToSet(q) : e \in ToSet(r)
    <3>1. \A i \in 1 .. Len(q) : q[i] \in ToSet(r)
      BY <1>3 DEF ToSet
    <3> QED
      BY <1>2, <3>1 DEF ToSet
  <2> QED
    BY <2>1, <2>2, <2>3
<1>5. ASSUME IsInjective(p), IsInjective(q), ToSet(p) \cap ToSet(q) = {}
      PROVE  IsInjective(r)
  <2> SUFFICES ASSUME NEW i \in DOMAIN r, NEW j \in DOMAIN r, r[i] = r[j] PROVE i = j
    BY DEF IsInjective
  <2>1. \A k \in 1 .. Len(p), l \in 1 .. Len(q) : p[k] # q[l]
    BY <1>2, <1>5 DEF ToSet
  <2>2. \A k, l \in 1 .. Len(p) : p[k] = p[l] => k = l
    BY <1>2, <1>5 DEF IsInjective
  <2>3. \A k, l \in 1 .. Len(q) : q[k] = q[l] => k = l
    BY <1>2, <1>5 DEF IsInjective
  <2>4. CASE i \in 1 .. Len(p) /\ r[i] = p[i] /\ j \in 1 .. Len(p) /\ r[j] = p[j]
    BY <2>2, <2>4
  <2>5. CASE /\ i - Len(p) \in 1 .. Len(q) /\ r[i] = q[i - Len(p)]
             /\ j - Len(p) \in 1 .. Len(q) /\ r[j] = q[j - Len(p)]
    <3>1. i - Len(p) = j - Len(p)
      BY <2>3, <2>5
    <3> QED
      BY <1>1, <1>2, <3>1
  <2> QED
    BY <1>3, <2>1, <2>4, <2>5
<1> QED
  BY <1>1, <1>4, <1>5 DEF r
==============================================================================

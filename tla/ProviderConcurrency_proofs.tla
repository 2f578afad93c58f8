--------------------- MODULE ProviderConcurrency_proofs ---------------------
(***************************************************************************)
(* Slot accounting of the provider cap, for every set of callers and every *)
(* setting.  The lemmas are about one semaphore value s and one value p of *)
(* pc; an action is then a composition of at most two of them (resize in   *)
(* place, then acquire).                                                   *)
(***************************************************************************)
EXTENDS ProviderConcurrency, FiniteSetTheorems, FunctionTheorems,
        SequenceTheorems, TLAPS

States == {"idle", "waiting", "granted", "streaming"}
Owning(p) == {c \in Clients : p[c] \in {"granted", "streaming"}}
Suspended(p) == {c \in Clients : p[c] = "waiting"}
Distinct(q) == \A i, j \in 1 .. Len(q) : q[i] = q[j] => i = j
SemType == [max : Nat, current : Nat, queue : Seq(Clients)]

\* What every step keeps about a semaphore and its callers ...
Consistent(s, p) == /\ s \in SemType
                    /\ p \in [Clients -> States]
                    /\ s.current = Cardinality(Owning(p))
                    /\ Queued(s) = Suspended(p)
                    /\ Distinct(s.queue)

\* ... and what holds again once the step is over.
Settled(s) == s.queue # << >> => ~HasRoom(s)

IInv == setting \in Limits /\ Consistent(sem, pc) /\ Settled(sem)

\* The elements of a prefix of a duplicate-free sequence are as many as its
\* length: what Admit counts is what it takes out of the queue.
LEMMA PrefixCardinality ==
  ASSUME NEW q \in Seq(Clients), Distinct(q), NEW n \in 0 .. Len(q)
  PROVE  Cardinality({q[i] : i \in 1 .. n}) = n
<1> DEFINE T == {q[i] : i \in 1 .. n}
           f == [i \in 1 .. n |-> q[i]]
<1>1. n \in Nat /\ Len(q) \in Nat
  BY LenProperties
<1>2. IsFiniteSet(1 .. n) /\ Cardinality(1 .. n) = n
  BY <1>1, FS_Interval
<1>3. f \in [1 .. n -> T]
  OBVIOUS
<1>4. f \in Surjection(1 .. n, T)
  BY <1>3, Fun_IsSurj
<1>5. f \in Injection(1 .. n, T)
  <2>1. \A a, b \in 1 .. n : f[a] = f[b] => a = b
    BY <1>1 DEF Distinct
  <2> QED BY <1>3, <2>1, Fun_IsInj
<1> QED BY <1>2, <1>4, <1>5, FS_Surjection

\* What is left of a queue once its first n waiters have been shifted.
LEMMA Suffix ==
  ASSUME NEW q \in Seq(Clients), NEW n \in 0 .. Len(q)
  PROVE  /\ SubSeq(q, n + 1, Len(q)) \in Seq(Clients)
         /\ Len(SubSeq(q, n + 1, Len(q))) = Len(q) - n
         /\ \A i \in 1 .. Len(q) - n : SubSeq(q, n + 1, Len(q))[i] = q[n + i]
<1>1. Len(q) \in Nat /\ n \in Nat /\ n <= Len(q)
      /\ \A i \in 1 .. Len(q) : q[i] \in Clients
  BY LenProperties, ElementOfSeq
<1>2. \A i \in n + 1 .. Len(q) : q[i] \in Clients
  BY <1>1
<1> QED BY <1>1, <1>2, SubSeqProperties, Z3

\* Admitting n queued waiters and waking exactly them keeps the accounts.
LEMMA AdmitConsistent ==
  ASSUME NEW s, NEW p, Consistent(s, p), NEW n \in 0 .. Len(s.queue)
  PROVE  /\ Consistent(Admit(s, n), Wake(p, s, Admit(s, n)))
         /\ Admit(s, n).max = s.max
         /\ Admit(s, n).current = s.current + n
         /\ Len(Admit(s, n).queue) = Len(s.queue) - n
<1> DEFINE q == s.queue
           t == Admit(s, n)
           w == Wake(p, s, t)
           D == {q[i] : i \in 1 .. n}
<1>0. s \in SemType /\ p \in [Clients -> States] /\ Queued(s) = Suspended(p)
      /\ Distinct(q) /\ s.current = Cardinality(Owning(p)) /\ s.current \in Nat
  BY DEF Consistent, SemType
<1>1. q \in Seq(Clients) /\ Len(q) \in Nat /\ n \in Nat /\ n <= Len(q)
      /\ \A i \in 1 .. Len(q) : q[i] \in Clients
  BY <1>0, LenProperties, ElementOfSeq DEF SemType
<1>2. SubSeq(q, n + 1, Len(q)) \in Seq(Clients)
      /\ Len(SubSeq(q, n + 1, Len(q))) = Len(q) - n
      /\ \A i \in 1 .. Len(q) - n : SubSeq(q, n + 1, Len(q))[i] = q[n + i]
  <2> HIDE DEF q
  <2> QED BY <1>1, Suffix
<1>3. /\ t = [max |-> s.max, current |-> s.current + n,
           queue |-> SubSeq(q, n + 1, Len(q))]
      /\ t.queue = SubSeq(q, n + 1, Len(q))
  BY DEF Admit
<1>4. t \in SemType
  BY <1>0, <1>1, <1>2, <1>3 DEF SemType
<1>5. Queued(t) = {q[i] : i \in n + 1 .. Len(q)}
  <2>1. Queued(t) = {q[n + i] : i \in 1 .. Len(q) - n}
    <3>1. Queued(t) = {t.queue[i] : i \in 1 .. Len(q) - n}
      BY <1>2, <1>3 DEF Queued
    <3>2. \A i \in 1 .. Len(q) - n : t.queue[i] = q[n + i]
      BY <1>2, <1>3
    <3> HIDE DEF t, q
    <3> QED BY <3>1, <3>2
  <2>2. ASSUME NEW i \in n + 1 .. Len(q)
        PROVE  \E j \in 1 .. Len(q) - n : q[i] = q[n + j]
    <3>1. i - n \in 1 .. Len(q) - n /\ n + (i - n) = i
      BY <1>1
    <3> QED BY <3>1
  <2>3. ASSUME NEW j \in 1 .. Len(q) - n
        PROVE  n + j \in n + 1 .. Len(q)
    BY <1>1
  <2> QED BY <2>1, <2>2, <2>3
<1>6. Queued(s) \ Queued(t) = D
  <2>1. Queued(s) = {q[i] : i \in 1 .. Len(q)}
    BY DEF Queued
  <2>2. ASSUME NEW i \in 1 .. n
        PROVE  i \in 1 .. Len(q) /\ q[i] \notin Queued(t)
    <3>1. i \in 1 .. Len(q)
      BY <1>1
    <3>2. ASSUME NEW j \in n + 1 .. Len(q)
          PROVE  q[i] # q[j]
      <4>1. j \in 1 .. Len(q) /\ i # j
        BY <1>1
      <4>2. Distinct(q)
        BY <1>0
      <4> HIDE DEF t, q
      <4> QED BY <3>1, <4>1, <4>2 DEF Distinct
    <3> HIDE DEF t
    <3> QED BY <3>1, <3>2, <1>5
  <2>3. \A i \in 1 .. Len(q) : i \in 1 .. n \/ i \in n + 1 .. Len(q)
    BY <1>1
  <2> QED BY <1>5, <2>1, <2>2, <2>3
<1>7. w \in [Clients -> States]
      /\ Owning(w) = Owning(p) \cup D /\ Suspended(w) = Suspended(p) \ D
  BY <1>0, <1>6 DEF Wake, Owning, Suspended, States, Queued
<1>8. Owning(p) \cap D = {} /\ D \subseteq Clients
  BY <1>0, <1>6 DEF Owning, Suspended, Queued
<1>9. Cardinality(Owning(w)) = Cardinality(Owning(p)) + n
  <2>1. IsFiniteSet(Owning(p)) /\ IsFiniteSet(D)
    BY <1>8, ClientsAssumption, FS_Subset DEF Owning
  <2>2. Cardinality(D) = n
    BY <1>0, <1>1, PrefixCardinality
  <2>3. Cardinality(Owning(p) \cup D)
          = Cardinality(Owning(p)) + Cardinality(D) - Cardinality({})
    BY <2>1, <1>8, FS_Union
  <2>4. Cardinality(Owning(p)) \in Nat
    BY <2>1, FS_CardinalityType
  <2> HIDE DEF D, w
  <2> QED BY <1>1, <1>7, <2>2, <2>3, <2>4, FS_EmptySet
<1>10. Distinct(t.queue)
  <2>1. ASSUME NEW i \in 1 .. Len(t.queue), NEW j \in 1 .. Len(t.queue),
               t.queue[i] = t.queue[j]
        PROVE  i = j
    <3>1. i \in 1 .. Len(q) - n /\ j \in 1 .. Len(q) - n
      BY <1>2, <1>3
    <3>2. q[n + i] = q[n + j]
      BY <1>2, <1>3, <2>1, <3>1
    <3>3. n + i \in 1 .. Len(q) /\ n + j \in 1 .. Len(q)
      BY <1>1, <3>1
    <3>4. n + i = n + j
      BY <1>0, <3>2, <3>3 DEF Distinct
    <3> QED BY <1>1, <3>1, <3>4
  <2> QED BY <2>1 DEF Distinct
<1>11. Queued(t) = Suspended(w)
  <2>1. Queued(t) \subseteq Queued(s)
    <3>1. n + 1 .. Len(q) \subseteq 1 .. Len(q)
      BY <1>1
    <3> HIDE DEF t
    <3> QED BY <1>5, <3>1 DEF Queued
  <2> HIDE DEF t, w, D
  <2> QED BY <1>0, <1>6, <1>7, <2>1
<1> HIDE DEF t, w, D
<1>12. t.max = s.max /\ t.current = s.current + n /\ Len(t.queue) = Len(q) - n
  BY <1>2, <1>3
<1> QED BY <1>0, <1>4, <1>7, <1>9, <1>10, <1>11, <1>12 DEF Consistent, t, w

\* resize() keeps the accounts and leaves nobody waiting under the ceiling.
LEMMA ResizeKeeps ==
  ASSUME NEW s, NEW p, Consistent(s, p), NEW m \in Int
  PROVE  /\ Consistent(Resize(s, m), Wake(p, s, Resize(s, m)))
         /\ Settled(Resize(s, m))
<1> DEFINE u == [max |-> NormalizeLimit(m), current |-> s.current,
                 queue |-> s.queue]
           t == Resize(s, m)
<1>1. s \in SemType /\ Len(s.queue) \in Nat /\ s.current \in Nat
  BY LenProperties DEF Consistent, SemType
<1>2. NormalizeLimit(m) \in Nat
  BY DEF NormalizeLimit
<1>3. Queued(u) = Queued(s)
  BY DEF Queued
<1>4. Consistent(u, p)
  BY <1>1, <1>2, <1>3 DEF Consistent, SemType
<1>5. Fits(u) \in 0 .. Len(u.queue)
  BY <1>1, <1>2 DEF Fits
<1>6. t = Admit(u, Fits(u))
  BY DEF Resize
<1>7. Wake(p, s, t) = Wake(p, u, t)
  BY <1>3 DEF Wake
<1>8. Consistent(t, Wake(p, u, t)) /\ t.max = u.max
      /\ t.current = u.current + Fits(u) /\ Len(t.queue) = Len(u.queue) - Fits(u)
  BY <1>4, <1>5, <1>6, AdmitConsistent
<1>9. t.queue # << >> => Len(t.queue) > 0
  BY <1>8, EmptySeq DEF Consistent, SemType
<1>10. Settled(t)
  <2> HIDE DEF t
  <2> QED BY <1>1, <1>2, <1>8, <1>9 DEF Settled, HasRoom, Fits
<1> QED BY <1>7, <1>8, <1>10

\* acquire() by an idle caller: it is counted, or queued exactly once.
LEMMA AcquireKeeps ==
  ASSUME NEW s, NEW p, Consistent(s, p), Settled(s), NEW c \in Clients,
         p[c] = "idle"
  PROVE  LET w == [p EXCEPT ![c] = IF HasRoom(s) THEN "granted" ELSE "waiting"]
         IN  Consistent(Acquire(s, c), w) /\ Settled(Acquire(s, c))
<1> DEFINE w == [p EXCEPT ![c] = IF HasRoom(s) THEN "granted" ELSE "waiting"]
           t == Acquire(s, c)
           q == s.queue
<1>1. /\ s \in SemType /\ p \in [Clients -> States] /\ Queued(s) = Suspended(p)
      /\ Distinct(q) /\ s.current = Cardinality(Owning(p))
      /\ s.current \in Nat /\ s.max \in Nat /\ q \in Seq(Clients)
      /\ Len(q) \in Nat
  BY LenProperties DEF Consistent, SemType
<1>2. w \in [Clients -> States]
  BY <1>1 DEF States
<1>3. CASE HasRoom(s)
  <2>1. t = Counting(s, s.current + 1)
    BY <1>3 DEF Acquire
  <2>2. t \in SemType /\ t.queue = q /\ Queued(t) = Queued(s)
        /\ t.current = s.current + 1
    BY <1>1, <2>1 DEF Counting, SemType, Queued
  <2>3. Owning(w) = Owning(p) \cup {c} /\ c \notin Owning(p)
        /\ Suspended(w) = Suspended(p)
    BY <1>1, <1>3 DEF Owning, Suspended
  <2>4. Cardinality(Owning(w)) = Cardinality(Owning(p)) + 1
    <3>1. IsFiniteSet(Owning(p))
      BY ClientsAssumption, FS_Subset DEF Owning
    <3> HIDE DEF w
    <3> QED BY <2>3, <3>1, FS_AddElement
  <2>5. Settled(t)
    BY <1>3, <2>2 DEF Settled
  <2> HIDE DEF t, w
  <2>6. Consistent(t, w)
    BY <1>1, <1>2, <2>2, <2>3, <2>4 DEF Consistent
  <2> QED BY <2>5, <2>6 DEF t, w
<1>4. CASE ~HasRoom(s)
  <2>1. t = Queueing(s, Append(q, c))
    BY <1>4 DEF Acquire
  <2>2. Append(q, c) \in Seq(Clients) /\ Len(Append(q, c)) = Len(q) + 1
        /\ (\A i \in 1 .. Len(q) : Append(q, c)[i] = q[i])
        /\ Append(q, c)[Len(q) + 1] = c
    BY <1>1, AppendProperties
  <2>3. t \in SemType /\ t.queue = Append(q, c) /\ t.current = s.current
        /\ t.max = s.max
    BY <1>1, <2>1, <2>2 DEF Queueing, SemType
  <2>4. Queued(t) = Queued(s) \cup {c}
    <3>1. 1 .. Len(q) + 1 = (1 .. Len(q)) \cup {Len(q) + 1}
      BY <1>1
    <3> HIDE DEF t
    <3> QED BY <2>2, <2>3, <3>1 DEF Queued
  <2>5. c \notin Queued(s)
    BY <1>1 DEF Suspended
  <2>6. Distinct(t.queue)
    <3>1. ASSUME NEW i \in 1 .. Len(q) + 1, NEW j \in 1 .. Len(q) + 1,
                 Append(q, c)[i] = Append(q, c)[j]
          PROVE  i = j
      <4>1. \A k \in 1 .. Len(q) : q[k] # c
        BY <2>5 DEF Queued
      <4>2. \A k \in 1 .. Len(q) + 1 : k \in 1 .. Len(q) \/ k = Len(q) + 1
        BY <1>1
      <4> QED BY <1>1, <2>2, <3>1, <4>1, <4>2 DEF Distinct
    <3> HIDE DEF t
    <3> QED BY <2>2, <2>3, <3>1 DEF Distinct
  <2>7. Owning(w) = Owning(p) /\ Suspended(w) = Suspended(p) \cup {c}
    BY <1>1, <1>4 DEF Owning, Suspended
  <2>8. Settled(t)
    BY <1>4, <2>3 DEF Settled, HasRoom
  <2> HIDE DEF t, w
  <2>9. Consistent(t, w)
    BY <1>1, <1>2, <2>3, <2>4, <2>6, <2>7 DEF Consistent
  <2> QED BY <2>8, <2>9 DEF t, w
<1> QED BY <1>3, <1>4

\* The queue without its i-th waiter: those behind it move up by one.
LEMMA Splice ==
  ASSUME NEW q \in Seq(Clients), NEW i \in 1 .. Len(q)
  PROVE  LET r == SubSeq(q, 1, i - 1) \o SubSeq(q, i + 1, Len(q))
         IN  /\ r \in Seq(Clients) /\ Len(r) = Len(q) - 1
             /\ \A k \in 1 .. Len(q) - 1 : r[k] = IF k < i THEN q[k] ELSE q[k + 1]
<1>0. Len(q) \in Nat /\ i \in 1 .. Len(q) /\ \A k \in 1 .. Len(q) : q[k] \in Clients
  BY LenProperties, ElementOfSeq
<1> DEFINE a == SubSeq(q, 1, i - 1)
           b == SubSeq(q, i + 1, Len(q))
<1>1. a \in Seq(Clients) /\ Len(a) = i - 1
      /\ \A k \in 1 .. i - 1 : a[k] = q[k]
  <2>1. \A k \in 1 .. i - 1 : q[k] \in Clients
    BY <1>0
  <2> QED BY <1>0, <2>1, SubSeqProperties, Z3
<1>2. b \in Seq(Clients) /\ Len(b) = Len(q) - i
      /\ \A k \in 1 .. Len(q) - i : b[k] = q[i + k]
  <2>1. \A k \in i + 1 .. Len(q) : q[k] \in Clients
    BY <1>0
  <2> QED BY <1>0, <2>1, SubSeqProperties, Z3
<1> HIDE DEF a, b
<1>3. a \o b \in Seq(Clients) /\ Len(a \o b) = Len(q) - 1
      /\ \A k \in 1 .. Len(q) - 1 :
            (a \o b)[k] = IF k <= i - 1 THEN a[k] ELSE b[k - (i - 1)]
  <2>1. a \o b \in Seq(Clients) /\ Len(a \o b) = Len(a) + Len(b)
        /\ \A k \in 1 .. Len(a) + Len(b) :
              (a \o b)[k] = IF k <= Len(a) THEN a[k] ELSE b[k - Len(a)]
    BY <1>1, <1>2, ConcatProperties
  <2>2. Len(a) = i - 1 /\ Len(a) + Len(b) = Len(q) - 1
    BY <1>0, <1>1, <1>2
  <2> QED BY <2>1, <2>2
<1>4. ASSUME NEW k \in 1 .. Len(q) - 1
      PROVE  (a \o b)[k] = IF k < i THEN q[k] ELSE q[k + 1]
  <2>1. CASE k < i
    <3>1. k \in 1 .. i - 1 /\ k <= i - 1
      BY <1>0, <2>1
    <3> QED BY <1>1, <1>3, <2>1, <3>1
  <2>2. CASE ~(k < i)
    <3>1. k - (i - 1) \in 1 .. Len(q) - i /\ i + (k - (i - 1)) = k + 1
      BY <1>0, <2>2
    <3> QED BY <1>0, <1>2, <1>3, <2>2, <3>1
  <2> QED BY <2>1, <2>2
<1> QED BY <1>3, <1>4 DEF a, b

\* onAbort: the waiter, and only it, leaves the queue.
LEMMA AbortKeeps ==
  ASSUME NEW s, NEW p, Consistent(s, p), Settled(s), NEW c \in Clients,
         p[c] = "waiting"
  PROVE  /\ Consistent(AbortWait(s, c), [p EXCEPT ![c] = "idle"])
         /\ Settled(AbortWait(s, c))
<1> DEFINE w == [p EXCEPT ![c] = "idle"]
           t == AbortWait(s, c)
           q == s.queue
           i == CHOOSE j \in 1 .. Len(q) : q[j] = c
           r == SubSeq(q, 1, i - 1) \o SubSeq(q, i + 1, Len(q))
<1>1. /\ s \in SemType /\ p \in [Clients -> States] /\ Queued(s) = Suspended(p)
      /\ Distinct(q) /\ s.current = Cardinality(Owning(p))
      /\ s.current \in Nat /\ s.max \in Nat /\ q \in Seq(Clients)
      /\ Len(q) \in Nat /\ \A k \in 1 .. Len(q) : q[k] \in Clients
  BY LenProperties, ElementOfSeq DEF Consistent, SemType
<1>2. c \in Queued(s)
  BY <1>1 DEF Suspended
<1>3. i \in 1 .. Len(q) /\ q[i] = c
  BY <1>2 DEF Queued
<1>4. t = Queueing(s, r)
  BY <1>2 DEF AbortWait
<1> HIDE DEF i
<1>5. r \in Seq(Clients) /\ Len(r) = Len(q) - 1
      /\ \A k \in 1 .. Len(q) - 1 : r[k] = IF k < i THEN q[k] ELSE q[k + 1]
  <2> HIDE DEF q
  <2> QED BY <1>1, <1>3, Splice
<1> HIDE DEF r
<1>6. t \in SemType /\ t.queue = r /\ t.current = s.current /\ t.max = s.max
  BY <1>1, <1>4, <1>5 DEF Queueing, SemType
<1>7. Queued(t) = Queued(s) \ {c}
  <2>1. ASSUME NEW k \in 1 .. Len(q) - 1
        PROVE  \E j \in 1 .. Len(q) : j # i /\ r[k] = q[j]
    <3>1. CASE k < i
      <4>1. k \in 1 .. Len(q) /\ k # i
        BY <1>1, <1>3, <3>1
      <4> QED BY <1>5, <3>1, <4>1
    <3>2. CASE ~(k < i)
      <4>1. k + 1 \in 1 .. Len(q) /\ k + 1 # i
        BY <1>1, <1>3, <3>2
      <4> QED BY <1>5, <3>2, <4>1
    <3> QED BY <3>1, <3>2
  <2>2. ASSUME NEW j \in 1 .. Len(q), j # i
        PROVE  \E k \in 1 .. Len(q) - 1 : r[k] = q[j]
    <3>1. CASE j < i
      <4>1. j \in 1 .. Len(q) - 1 /\ r[j] = q[j]
        BY <1>1, <1>3, <1>5, <3>1
      <4> QED BY <4>1
    <3>2. CASE ~(j < i)
      <4>1. j - 1 \in 1 .. Len(q) - 1 /\ ~(j - 1 < i) /\ (j - 1) + 1 = j
        BY <1>1, <1>3, <2>2, <3>2
      <4>2. r[j - 1] = q[(j - 1) + 1]
        BY <1>5, <4>1
      <4> QED BY <4>1, <4>2
    <3> QED BY <3>1, <3>2
  <2>3. Queued(t) = {r[k] : k \in 1 .. Len(q) - 1}
    BY <1>5, <1>6 DEF Queued
  <2>4. Queued(s) = {q[k] : k \in 1 .. Len(q)}
    BY DEF Queued
  <2>5. \A j \in 1 .. Len(q) : q[j] = c <=> j = i
    BY <1>1, <1>3 DEF Distinct
  <2> HIDE DEF t, q
  <2>6. ASSUME NEW x \in Queued(t) PROVE x \in Queued(s) \ {c}
    <3>1. PICK k \in 1 .. Len(q) - 1 : x = r[k]
      BY <2>3
    <3> QED BY <2>1, <2>4, <2>5, <3>1
  <2>7. ASSUME NEW x \in Queued(s) \ {c} PROVE x \in Queued(t)
    <3>1. PICK j \in 1 .. Len(q) : x = q[j]
      BY <2>4
    <3>2. j # i
      BY <2>5, <3>1
    <3> QED BY <2>2, <2>3, <3>1, <3>2
  <2> QED BY <2>6, <2>7
<1>8. Distinct(r)
  <2>1. ASSUME NEW k \in 1 .. Len(q) - 1, NEW l \in 1 .. Len(q) - 1, r[k] = r[l]
        PROVE  k = l
    <3> DEFINE up(x) == IF x < i THEN x ELSE x + 1
    <3>1. up(k) \in 1 .. Len(q) /\ up(l) \in 1 .. Len(q)
      BY <1>1, <1>3
    <3>2. q[up(k)] = q[up(l)]
      BY <1>5, <2>1
    <3>3. up(k) = up(l)
      BY <1>1, <3>1, <3>2 DEF Distinct
    <3> QED BY <1>1, <1>3, <3>3
  <2> QED BY <1>5, <2>1 DEF Distinct
<1>9. w \in [Clients -> States] /\ Owning(w) = Owning(p)
      /\ Suspended(w) = Suspended(p) \ {c}
  BY <1>1 DEF Owning, Suspended, States
<1>10. Settled(t)
  <2>1. q # << >>
    BY <1>1, <1>3, EmptySeq
  <2> HIDE DEF t
  <2> QED BY <1>6, <2>1 DEF Settled, HasRoom
<1> HIDE DEF t, w
<1>11. Consistent(t, w)
  BY <1>1, <1>6, <1>7, <1>8, <1>9 DEF Consistent
<1> QED BY <1>10, <1>11 DEF t, w

\* release() by an owner: its slot goes back, or on to the longest waiter.
LEMMA ReleaseKeeps ==
  ASSUME NEW s, NEW p, Consistent(s, p), Settled(s), NEW c \in Clients,
         p[c] \in {"granted", "streaming"}
  PROVE  /\ Consistent(Release(s), [Wake(p, s, Release(s)) EXCEPT ![c] = "idle"])
         /\ Settled(Release(s))
<1> DEFINE k == s.current - 1
           u == Counting(s, k)
           p1 == [p EXCEPT ![c] = "idle"]
           t == Release(s)
           w == [Wake(p, s, t) EXCEPT ![c] = "idle"]
<1>1. /\ s \in SemType /\ p \in [Clients -> States] /\ Queued(s) = Suspended(p)
      /\ Distinct(s.queue) /\ s.current = Cardinality(Owning(p))
      /\ s.current \in Nat /\ s.max \in Nat /\ s.queue \in Seq(Clients)
      /\ Len(s.queue) \in Nat
  BY LenProperties DEF Consistent, SemType
<1>2. c \in Owning(p) /\ c \notin Queued(s)
  BY <1>1 DEF Owning, Suspended
<1>3. IsFiniteSet(Owning(p))
  BY ClientsAssumption, FS_Subset DEF Owning
<1>4. s.current > 0
  BY <1>1, <1>2, <1>3, FS_EmptySet
<1>5. Owning(p1) = Owning(p) \ {c} /\ Suspended(p1) = Suspended(p)
      /\ p1 \in [Clients -> States]
  BY <1>1, <1>2 DEF Owning, Suspended, States
<1>6. Cardinality(Owning(p1)) = k
  <2> HIDE DEF p1
  <2> QED BY <1>1, <1>2, <1>3, <1>5, FS_RemoveElement, ZenonT(60)
<1>7. u \in SemType /\ u.queue = s.queue /\ u.current = k /\ u.max = s.max
      /\ Queued(u) = Queued(s)
  BY <1>1, <1>4 DEF Counting, SemType, Queued
<1>8. Consistent(u, p1)
  <2> HIDE DEF u, p1
  <2> QED BY <1>1, <1>5, <1>6, <1>7 DEF Consistent
<1>9. t = IF HasRoom(u) /\ u.queue # << >> THEN Admit(u, 1) ELSE u
  BY <1>4 DEF Release
<1>10. CASE HasRoom(u) /\ u.queue # << >>
  <2>1. t = Admit(u, 1) /\ 1 \in 0 .. Len(u.queue)
    BY <1>1, <1>7, <1>9, <1>10, EmptySeq
  <2>2. Consistent(t, Wake(p1, u, t)) /\ t.max = u.max /\ t.current = u.current + 1
    BY <1>8, <2>1, AdmitConsistent
  <2>3. w = Wake(p1, u, t)
    <3> HIDE DEF t, u
    <3> QED BY <1>1, <1>2, <1>7 DEF Wake
  <2>4. Settled(t)
    <3>1. ~HasRoom(s)
      BY <1>7, <1>10 DEF Settled
    <3> HIDE DEF t, u
    <3> QED BY <1>1, <1>7, <2>2, <3>1 DEF Settled, HasRoom
  <2> QED BY <2>2, <2>3, <2>4
<1>11. CASE ~(HasRoom(u) /\ u.queue # << >>)
  <2>1. t = u
    BY <1>9, <1>11
  <2>2. w = p1
    <3> HIDE DEF t, u
    <3> QED BY <1>1, <1>7, <2>1 DEF Wake
  <2>3. Settled(t)
    BY <1>11, <2>1 DEF Settled
  <2> HIDE DEF t, u, w, p1
  <2>4. Consistent(t, w) /\ Settled(t)
    BY <1>8, <2>1, <2>2, <2>3
  <2> QED BY <2>4 DEF t, w
<1> QED BY <1>10, <1>11

\* The limit in force is the one getProviderSemaphore just applied.
LEMMA SharedKeeps ==
  ASSUME IInv
  PROVE  Consistent(Shared, Wake(pc, sem, Shared)) /\ Settled(Shared)
<1>1. setting \in Int
  BY LimitsAssumption DEF IInv
<1>2. CASE sem.max = NormalizeLimit(setting)
  <2>1. Shared = sem
    BY <1>2 DEF Shared
  <2>2. Wake(pc, sem, sem) = pc
    BY DEF Wake, IInv, Consistent
  <2> QED BY <2>1, <2>2 DEF IInv
<1>3. CASE sem.max # NormalizeLimit(setting)
  BY <1>1, <1>3, ResizeKeeps DEF Shared, IInv
<1> QED BY <1>2, <1>3

\* An unused semaphore accounts for nobody and has no waiter.
LEMMA InitIInv == Init => IInv
<1> SUFFICES ASSUME Init PROVE IInv
  OBVIOUS
<1>1. setting \in Int /\ setting \in Limits
  BY LimitsAssumption DEF Init
<1>2. sem = [max |-> NormalizeLimit(setting), current |-> 0, queue |-> << >>]
  BY DEF Init, New
<1>3. sem \in SemType
  BY <1>1, <1>2, EmptySeq DEF SemType, NormalizeLimit
<1>4. pc \in [Clients -> States] /\ Owning(pc) = {} /\ Suspended(pc) = {}
  BY DEF Init, States, Owning, Suspended
<1>5. Queued(sem) = {} /\ Distinct(sem.queue)
  BY <1>2, EmptySeq DEF Queued, Distinct
<1> QED BY <1>1, <1>2, <1>3, <1>4, <1>5, FS_EmptySet
        DEF IInv, Consistent, Settled

\* The step case: each action by the lemma about the semaphore method it calls.
LEMMA StepIInv == IInv /\ [Next]_vars => IInv'
<1> SUFFICES ASSUME IInv, [Next]_vars PROVE IInv'
  OBVIOUS
<1> USE DEF IInv
<1>1. ASSUME NEW n \in Limits, ChangeSetting(n) PROVE IInv'
  BY <1>1 DEF ChangeSetting
<1>2. ASSUME NEW c \in Clients, Call(c) PROVE IInv'
  <2> DEFINE p == Wake(pc, sem, Shared)
  <2>1. Consistent(Shared, p) /\ Settled(Shared)
    BY SharedKeeps
  <2>2. p[c] = "idle"
    BY <1>2 DEF Call, Wake, Consistent, Suspended, States
  <2>3. sem' = Acquire(Shared, c) /\ setting' = setting
        /\ pc' = [p EXCEPT ![c] = IF HasRoom(Shared) THEN "granted" ELSE "waiting"]
    BY <1>2 DEF Call
  <2> HIDE DEF p
  <2> QED BY <2>1, <2>2, <2>3, AcquireKeeps
<1>3. ASSUME NEW c \in Clients, CallAborted(c) PROVE IInv'
  BY <1>3, SharedKeeps DEF CallAborted
<1>4. ASSUME NEW c \in Clients, AbortWaiting(c) PROVE IInv'
  BY <1>4, AbortKeeps DEF AbortWaiting
<1>5. ASSUME NEW c \in Clients, OpenStream(c) PROVE IInv'
  <2>1. pc' \in [Clients -> States] /\ Owning(pc') = Owning(pc)
        /\ Suspended(pc') = Suspended(pc)
    BY <1>5 DEF OpenStream, Consistent, States, Owning, Suspended
  <2> QED BY <1>5, <2>1 DEF OpenStream, Consistent
<1>6. ASSUME NEW c \in Clients, BaseFails(c) \/ StreamSettles(c) PROVE IInv'
  BY <1>6, ReleaseKeeps DEF BaseFails, StreamSettles, GiveBack
<1>7. CASE UNCHANGED vars
  BY <1>7 DEF vars
<1> QED BY <1>1, <1>2, <1>3, <1>4, <1>5, <1>6, <1>7 DEF Next

\* The inductive invariant holds in every reachable state.
THEOREM Invariance == Spec => []IInv
BY InitIInv, StepIInv, PTL DEF Spec

\* The variables keep their types for every set of callers and limits.
THEOREM TypeCorrect == Spec => []TypeOK
<1>1. IInv => TypeOK
  BY DEF IInv, Consistent, TypeOK, SemType, States
<1> QED BY <1>1, Invariance, PTL

\* The semaphore's counter is the number of owners at all times, and its queue
\* the suspended callers, each once: no abort, failed request, resize or
\* admission loses a slot, grants one twice or forgets a caller.
THEOREM SlotsAccounted == Spec => []SlotAccounting
<1>1. IInv => sem.current = Cardinality(Holders)
  BY DEF IInv, Consistent, Owning, Holders
<1>2. IInv => QueueIsWaiting
  BY DEF IInv, Consistent, QueueIsWaiting, Suspended, Waiting, Distinct
<1> QED BY <1>1, <1>2, Invariance, PTL DEF SlotAccounting

\* Nobody is queued while the ceiling in force leaves room.
THEOREM NoIdleSlot == Spec => []WorkConserving
<1>1. IInv => WorkConserving
  BY DEF IInv, Settled, WorkConserving
<1> QED BY <1>1, Invariance, PTL

UnderCeiling(s) == s.max = 0 \/ s.current <= s.max

\* A resize that wakes anybody ends under the new ceiling.
LEMMA ResizeGrants ==
  ASSUME NEW s, NEW p, Consistent(s, p), NEW m \in Int
  PROVE  Queued(Resize(s, m)) = Queued(s) \/ UnderCeiling(Resize(s, m))
<1> DEFINE u == [max |-> NormalizeLimit(m), current |-> s.current,
                 queue |-> s.queue]
           t == Resize(s, m)
<1>1. s \in SemType /\ Len(s.queue) \in Nat /\ s.current \in Nat
      /\ s.queue \in Seq(Clients)
  BY LenProperties DEF Consistent, SemType
<1>2. NormalizeLimit(m) \in Nat
  BY DEF NormalizeLimit
<1>3. t = Admit(u, Fits(u))
  BY DEF Resize
<1>4. t.max = u.max /\ t.current = u.current + Fits(u)
      /\ t.queue = SubSeq(s.queue, Fits(u) + 1, Len(s.queue))
  <2>1. u.queue = s.queue
    OBVIOUS
  <2> HIDE DEF u, t
  <2> QED BY <1>3, <2>1 DEF Admit
<1>5. CASE Fits(u) = 0
  <2>1. t.queue = s.queue
    BY <1>1, <1>4, <1>5, SubSeqFull
  <2> HIDE DEF t
  <2>2. Queued(t) = Queued(s)
    BY <2>1 DEF Queued
  <2> QED BY <2>2 DEF t
<1>6. CASE Fits(u) # 0
  <2>1. u.max = 0 \/ u.current + Fits(u) <= u.max
    BY <1>1, <1>2, <1>6 DEF Fits
  <2> HIDE DEF t, u
  <2>2. UnderCeiling(t)
    BY <1>4, <2>1 DEF UnderCeiling
  <2> QED BY <2>2 DEF t
<1> QED BY <1>5, <1>6

\* Handing a slot on leaves the number of owners under the ceiling.
LEMMA ReleaseGrants ==
  ASSUME NEW s, NEW p, Consistent(s, p), Settled(s)
  PROVE  Queued(Release(s)) = Queued(s) \/ UnderCeiling(Release(s))
<1> DEFINE u == Counting(s, IF s.current > 0 THEN s.current - 1 ELSE 0)
           t == Release(s)
<1>1. s.current \in Nat /\ s.max \in Nat
  BY DEF Consistent, SemType
<1>2. t = IF HasRoom(u) /\ u.queue # << >> THEN Admit(u, 1) ELSE u
  BY DEF Release
<1>3. u.current \in Nat /\ u.max = s.max /\ Queued(u) = Queued(s)
  BY <1>1 DEF Counting, Queued
<1>4. CASE HasRoom(u) /\ u.queue # << >>
  <2>1. t.max = u.max /\ t.current = u.current + 1
    BY <1>2, <1>4 DEF Admit
  <2> HIDE DEF t, u
  <2>2. UnderCeiling(t)
    BY <1>1, <1>3, <1>4, <2>1 DEF UnderCeiling, HasRoom
  <2> QED BY <2>2 DEF t
<1>5. CASE ~(HasRoom(u) /\ u.queue # << >>)
  BY <1>2, <1>3, <1>5
<1> QED BY <1>4, <1>5

\* Applying the setting before a call wakes waiters only up to the new ceiling.
LEMMA SharedGrants ==
  ASSUME IInv
  PROVE  Queued(Shared) = Queued(sem) \/ UnderCeiling(Shared)
<1>1. setting \in Int
  BY LimitsAssumption DEF IInv
<1> QED BY <1>1, ResizeGrants DEF Shared, IInv

\* The same for every step: whoever becomes an owner fits under the ceiling.
LEMMA StepGrants ==
  IInv /\ [Next]_vars =>
    (Holders' \subseteq Holders \/ sem'.max = 0
     \/ Cardinality(Holders') <= sem'.max)
<1>a. IInv' => sem'.current = Cardinality(Holders')
  BY DEF IInv, Consistent, Owning, Holders
<1> SUFFICES ASSUME IInv, [Next]_vars
             PROVE  Holders' \subseteq Holders \/ UnderCeiling(sem')
  BY <1>a, StepIInv DEF UnderCeiling
<1>1. ASSUME NEW n \in Limits, ChangeSetting(n) PROVE Holders' = Holders
  BY <1>1 DEF ChangeSetting, Holders
<1>2. ASSUME NEW c \in Clients, Call(c)
      PROVE  Holders' \subseteq Holders \/ UnderCeiling(sem')
  <2>1. sem' = Acquire(Shared, c)
        /\ pc' = [Wake(pc, sem, Shared) EXCEPT
                     ![c] = IF HasRoom(Shared) THEN "granted" ELSE "waiting"]
    BY <1>2 DEF Call
  <2>2. Shared.current \in Nat /\ Shared.max \in Nat
    BY SharedKeeps DEF Consistent, SemType
  <2>3. CASE HasRoom(Shared)
    <3>1. sem' = Counting(Shared, Shared.current + 1)
      BY <2>1, <2>3 DEF Acquire
    <3>2. sem'.max = Shared.max /\ sem'.current = Shared.current + 1
      BY <3>1 DEF Counting
    <3> QED BY <2>2, <2>3, <3>2 DEF HasRoom, UnderCeiling
  <2>4. CASE ~HasRoom(Shared)
    <3>1. sem' = Queueing(Shared, Append(Shared.queue, c))
      BY <2>1, <2>4 DEF Acquire
    <3>2. sem'.max = Shared.max /\ sem'.current = Shared.current
      BY <3>1 DEF Queueing
    <3>3. Queued(Shared) = Queued(sem) => Holders' \subseteq Holders
      BY <2>1, <2>4 DEF Holders, Wake
    <3> QED BY <3>2, <3>3, SharedGrants DEF UnderCeiling
  <2> QED BY <2>3, <2>4
<1>3. ASSUME NEW c \in Clients, CallAborted(c)
      PROVE  Holders' \subseteq Holders \/ UnderCeiling(sem')
  <2>1. Queued(Shared) = Queued(sem) => Holders' \subseteq Holders
    BY <1>3 DEF CallAborted, Wake, Holders
  <2> QED BY <1>3, <2>1, SharedGrants DEF CallAborted
<1>4. ASSUME NEW c \in Clients, AbortWaiting(c) PROVE Holders' \subseteq Holders
  BY <1>4 DEF AbortWaiting, Holders, IInv, Consistent
<1>5. ASSUME NEW c \in Clients, OpenStream(c) PROVE Holders' \subseteq Holders
  BY <1>5 DEF OpenStream, Holders, IInv, Consistent
<1>6. ASSUME NEW c \in Clients, BaseFails(c) \/ StreamSettles(c)
      PROVE  Holders' \subseteq Holders \/ UnderCeiling(sem')
  <2>1. GiveBack(c)
    BY <1>6 DEF BaseFails, StreamSettles
  <2>2. Queued(Release(sem)) = Queued(sem) => Holders' \subseteq Holders
    BY <2>1 DEF GiveBack, Wake, Holders
  <2> QED BY <2>1, <2>2, ReleaseGrants DEF GiveBack, IInv
<1>7. CASE UNCHANGED vars
  BY <1>7 DEF vars, Holders
<1> QED BY <1>1, <1>2, <1>3, <1>4, <1>5, <1>6, <1>7 DEF Next

\* Whatever the setting does, a step that grants a slot leaves at most as many
\* owners as the ceiling in force.
THEOREM GrantsCapped == Spec => GrantsWithinLimit
<1>1. IInv /\ [Next]_vars =>
        [Holders' \subseteq Holders \/ sem'.max = 0
         \/ Cardinality(Holders') <= sem'.max]_vars
  BY StepGrants
<1> QED BY <1>1, Invariance, PTL DEF Spec, GrantsWithinLimit

\* Nobody who stays in line loses the place ahead of another.
InOrder(s, t) == \A a, b : a \in Queued(t) /\ Ahead(s.queue, a, b)
                              => Ahead(t.queue, a, b)

\* Two that stand in line, one ahead of the other, are in the queue.
LEMMA AheadQueued ==
  ASSUME NEW s, NEW a, NEW b, Ahead(s.queue, a, b)
  PROVE  a \in Queued(s) /\ b \in Queued(s)
BY DEF Ahead, Queued

\* Admission takes waiters from the head only.
LEMMA AdmitInOrder ==
  ASSUME NEW s, NEW p, Consistent(s, p), NEW n \in 0 .. Len(s.queue)
  PROVE  InOrder(s, Admit(s, n))
<1> DEFINE q == s.queue
           t == Admit(s, n)
<1>1. q \in Seq(Clients) /\ Len(q) \in Nat /\ n \in Nat /\ n <= Len(q) /\ Distinct(q)
  BY LenProperties DEF Consistent, SemType
<1>2. Len(t.queue) = Len(q) - n /\ \A i \in 1 .. Len(q) - n : t.queue[i] = q[n + i]
  <2>1. t.queue = SubSeq(q, n + 1, Len(q))
    BY DEF Admit
  <2> HIDE DEF q, t
  <2> QED BY <1>1, <2>1, Suffix
<1> HIDE DEF q, t
<1>3. ASSUME NEW a, NEW b, a \in Queued(t), Ahead(q, a, b)
      PROVE  Ahead(t.queue, a, b)
  <2>1. PICK k \in 1 .. Len(q) - n : t.queue[k] = a
    BY <1>2, <1>3 DEF Queued
  <2>2. PICK i \in 1 .. Len(q), j \in 1 .. Len(q) : i < j /\ q[i] = a /\ q[j] = b
    BY <1>3 DEF Ahead
  <2>3. n + k \in 1 .. Len(q) /\ q[n + k] = a
    BY <1>1, <1>2, <2>1
  <2>4. i = n + k
    BY <1>1, <2>2, <2>3 DEF Distinct
  <2>5. j - n \in 1 .. Len(q) - n /\ n + (j - n) = j /\ k < j - n
    BY <1>1, <2>2, <2>4
  <2>6. t.queue[j - n] = b
    BY <1>2, <2>2, <2>5
  <2> QED BY <1>2, <2>1, <2>5, <2>6 DEF Ahead
<1> QED BY <1>3 DEF InOrder, q, t

\* Applying a ceiling keeps the line in order.
LEMMA SharedInOrder ==
  ASSUME IInv
  PROVE  InOrder(sem, Shared)
<1>1. CASE sem.max = NormalizeLimit(setting)
  BY <1>1 DEF Shared, InOrder
<1>2. CASE sem.max # NormalizeLimit(setting)
  <2> DEFINE u == [max |-> NormalizeLimit(setting), current |-> sem.current,
                   queue |-> sem.queue]
  <2>1. Shared = Admit(u, Fits(u))
    BY <1>2 DEF Shared, Resize
  <2>2. setting \in Int /\ sem \in SemType
    BY LimitsAssumption DEF IInv, Consistent
  <2>3. NormalizeLimit(setting) \in Nat
    BY <2>2 DEF NormalizeLimit
  <2>4. u \in SemType /\ u.queue = sem.queue /\ u.current = sem.current /\ Queued(u) = Queued(sem)
    BY <2>2, <2>3 DEF SemType, Queued
  <2>5. Len(u.queue) \in Nat /\ u.max \in Nat /\ u.current \in Nat
    BY <2>4, LenProperties DEF SemType
  <2> HIDE DEF u
  <2>6. Consistent(u, pc)
    BY <2>4 DEF IInv, Consistent
  <2>7. Fits(u) \in 0 .. Len(u.queue)
    BY <2>5 DEF Fits
  <2>8. InOrder(u, Shared)
    BY <2>1, <2>6, <2>7, AdmitInOrder
  <2> QED BY <2>4, <2>8 DEF InOrder
<1> QED BY <1>1, <1>2

\* So does a release.
LEMMA ReleaseInOrder ==
  ASSUME NEW s, NEW p, Consistent(s, p)
  PROVE  InOrder(s, Release(s))
<1> DEFINE k == IF s.current > 0 THEN s.current - 1 ELSE 0
           u == Counting(s, k)
<1>1. s \in SemType /\ k \in Nat
  BY DEF Consistent, SemType
<1>2. u.queue = s.queue /\ u.current = k /\ u.max = s.max
  BY DEF Counting
<1>3. Release(s) = IF HasRoom(u) /\ u.queue # << >> THEN Admit(u, 1) ELSE u
  BY DEF Release
<1> HIDE DEF u
<1>4. CASE HasRoom(u) /\ u.queue # << >>
  <2>1. s.queue \in Seq(Clients) /\ Len(s.queue) \in Nat /\ 1 \in 0 .. Len(s.queue)
    BY <1>1, <1>2, <1>4, EmptySeq, LenProperties DEF SemType
  <2>2. InOrder(s, Admit(s, 1))
    BY <2>1, AdmitInOrder
  <2>3. Release(s).queue = Admit(s, 1).queue
    BY <1>2, <1>3, <1>4 DEF Admit
  <2>4. Queued(Release(s)) = Queued(Admit(s, 1))
    BY <2>3 DEF Queued
  <2> QED BY <2>2, <2>3, <2>4 DEF InOrder
<1>5. CASE ~(HasRoom(u) /\ u.queue # << >>)
  <2>1. Release(s).queue = s.queue
    BY <1>2, <1>3, <1>5
  <2> QED BY <2>1 DEF InOrder
<1> QED BY <1>4, <1>5

\* A waiter that gives up leaves the others as they stand.
LEMMA AbortInOrder ==
  ASSUME NEW s, NEW p, Consistent(s, p), NEW c \in Clients, c \in Queued(s),
         NEW a, NEW b, a # c, b # c, Ahead(s.queue, a, b)
  PROVE  Ahead(AbortWait(s, c).queue, a, b)
<1> DEFINE q == s.queue
           i == CHOOSE j \in 1 .. Len(q) : q[j] = c
           r == SubSeq(q, 1, i - 1) \o SubSeq(q, i + 1, Len(q))
           down(x) == IF x < i THEN x ELSE x - 1
<1>1. q \in Seq(Clients) /\ Len(q) \in Nat /\ Distinct(q)
  BY LenProperties DEF Consistent, SemType
<1>2. i \in 1 .. Len(q) /\ q[i] = c
  BY DEF Queued
<1>3. AbortWait(s, c).queue = r
  BY DEF AbortWait, Queueing
<1> HIDE DEF i
<1>4. Len(r) = Len(q) - 1
      /\ \A k \in 1 .. Len(q) - 1 : r[k] = IF k < i THEN q[k] ELSE q[k + 1]
  <2> HIDE DEF q
  <2> QED BY <1>1, <1>2, Splice
<1> HIDE DEF r
<1>5. ASSUME NEW x \in 1 .. Len(q), x # i
      PROVE  down(x) \in 1 .. Len(q) - 1 /\ r[down(x)] = q[x]
  <2>1. CASE x < i
    <3>1. x \in 1 .. Len(q) - 1 /\ down(x) = x
      BY <1>1, <1>2, <2>1
    <3> QED BY <1>4, <2>1, <3>1
  <2>2. CASE ~(x < i)
    <3>1. x - 1 \in 1 .. Len(q) - 1 /\ ~(x - 1 < i) /\ (x - 1) + 1 = x /\ down(x) = x - 1
      BY <1>1, <1>2, <1>5, <2>2
    <3>2. r[x - 1] = q[(x - 1) + 1]
      BY <1>4, <3>1
    <3> QED BY <3>1, <3>2
  <2> QED BY <2>1, <2>2
<1>6. PICK x \in 1 .. Len(q), y \in 1 .. Len(q) : x < y /\ q[x] = a /\ q[y] = b
  BY DEF Ahead
<1>7. x # i /\ y # i
  BY <1>2, <1>6
<1>8. down(x) < down(y)
  BY <1>1, <1>2, <1>6, <1>7
<1>9. /\ down(x) \in 1 .. Len(r) /\ r[down(x)] = a
      /\ down(y) \in 1 .. Len(r) /\ r[down(y)] = b
  BY <1>4, <1>5, <1>6, <1>7
<1> HIDE DEF down
<1> QED BY <1>3, <1>8, <1>9 DEF Ahead

\* No step grants a slot past a caller that waits through it, or puts anybody
\* ahead of that caller.
LEMMA StepInOrder ==
  ASSUME IInv, [Next]_vars,
         NEW a \in Waiting \cap Waiting', NEW b \in Clients \ (Holders \cup {a}),
         b \in Waiting => Ahead(sem.queue, a, b)
  PROVE  b \notin Holders' /\ (b \in Waiting' => Ahead(sem'.queue, a, b))
<1>0. /\ Queued(sem) = Waiting /\ Queued(sem') = Waiting'
      /\ pc \in [Clients -> States] /\ pc' \in [Clients -> States]
      /\ a \in Clients /\ pc[a] = "waiting" /\ pc'[a] = "waiting"
      /\ b \in Clients /\ b # a /\ pc[b] \in {"idle", "waiting"}
  <2>1. IInv'
    BY StepIInv
  <2>2. Queued(sem) = Waiting /\ pc \in [Clients -> States]
    BY DEF IInv, Consistent, Suspended, Waiting
  <2>3. Queued(sem') = Waiting' /\ pc' \in [Clients -> States]
    BY <2>1 DEF IInv, Consistent, Suspended, Waiting
  <2> QED BY <2>2, <2>3 DEF Waiting, Holders, States
\* What is left to show once the line is known to be in order.
<1>a. ASSUME b \in Waiting => Ahead(sem'.queue, a, b), b \notin Waiting => pc'[b] = "idle"
      PROVE  b \notin Holders' /\ (b \in Waiting' => Ahead(sem'.queue, a, b))
  <2>1. CASE b \in Waiting
    <3>1. Ahead(sem'.queue, a, b)
      BY <1>a, <2>1
    <3>2. b \in Queued(sem')
      BY <3>1, AheadQueued
    <3> QED BY <1>0, <3>1, <3>2 DEF Holders, Waiting
  <2>2. CASE b \notin Waiting
    BY <1>a, <2>2 DEF Holders, Waiting
  <2> QED BY <2>1, <2>2
<1>b. b \notin Waiting => pc[b] = "idle"
  BY <1>0 DEF Waiting
<1>c. b \notin Waiting => b \notin Queued(sem)
  BY <1>0
<1>d. Consistent(sem, pc)
  BY DEF IInv
<1>1. ASSUME NEW n \in Limits, ChangeSetting(n)
      PROVE  b \notin Holders' /\ (b \in Waiting' => Ahead(sem'.queue, a, b))
  BY <1>1, <1>a, <1>b DEF ChangeSetting
<1>2. ASSUME NEW c \in Clients, Call(c)
      PROVE  b \notin Holders' /\ (b \in Waiting' => Ahead(sem'.queue, a, b))
  <2>1. /\ sem' = Acquire(Shared, c)
        /\ pc' = [Wake(pc, sem, Shared) EXCEPT
                    ![c] = IF HasRoom(Shared) THEN "granted" ELSE "waiting"]
        /\ pc[c] = "idle"
    BY <1>2 DEF Call
  <2>2. c # a
    BY <1>0, <2>1
  <2>3. Consistent(Shared, Wake(pc, sem, Shared)) /\ Settled(Shared)
    BY SharedKeeps
  <2>4. Shared.queue \in Seq(Clients) /\ Len(Shared.queue) \in Nat
    BY <2>3, LenProperties DEF Consistent, SemType
  <2>5. ~HasRoom(Shared)
    <3> SUFFICES ASSUME HasRoom(Shared) PROVE FALSE
      OBVIOUS
    <3>1. sem'.queue = Shared.queue
      BY <2>1 DEF Acquire, Counting
    <3>2. Shared.queue = << >>
      BY <2>3 DEF Settled
    <3>3. Queued(sem') = {}
      BY <3>1, <3>2, EmptySeq DEF Queued
    <3> QED BY <1>0, <3>3 DEF Waiting
  <2>6. sem'.queue = Append(Shared.queue, c)
    BY <2>1, <2>5 DEF Acquire, Queueing
  <2>7. Len(sem'.queue) = Len(Shared.queue) + 1
        /\ (\A i \in 1 .. Len(Shared.queue) : sem'.queue[i] = Shared.queue[i])
        /\ sem'.queue[Len(Shared.queue) + 1] = c
    BY <2>4, <2>6, AppendProperties
  <2>8. PICK i \in 1 .. Len(Shared.queue) : Shared.queue[i] = a
    <3>1. PICK k \in 1 .. Len(Shared.queue) + 1 : sem'.queue[k] = a
      BY <1>0, <2>7 DEF Waiting, Queued
    <3>2. k # Len(Shared.queue) + 1
      BY <2>2, <2>7, <3>1
    <3>3. k \in 1 .. Len(Shared.queue)
      BY <2>4, <3>2
    <3> QED BY <2>7, <3>1, <3>3
  <2>9. CASE b = c
    <3>1. b \notin Holders'
      BY <1>0, <2>1, <2>5, <2>9 DEF Holders, Wake
    <3>2. i \in 1 .. Len(sem'.queue) /\ sem'.queue[i] = a /\ i < Len(Shared.queue) + 1
          /\ Len(Shared.queue) + 1 \in 1 .. Len(sem'.queue)
      BY <2>4, <2>7, <2>8
    <3>3. Ahead(sem'.queue, a, b)
      BY <2>7, <2>9, <3>2 DEF Ahead
    <3> QED BY <3>1, <3>3
  <2>10. CASE b # c
    <3>1. ASSUME b \in Waiting PROVE Ahead(sem'.queue, a, b)
      <4>1. a \in Queued(Shared)
        BY <2>8 DEF Queued
      <4>2. Ahead(Shared.queue, a, b)
        BY <3>1, <4>1, SharedInOrder DEF InOrder
      <4>3. PICK x \in 1 .. Len(Shared.queue), y \in 1 .. Len(Shared.queue) :
                x < y /\ Shared.queue[x] = a /\ Shared.queue[y] = b
        BY <4>2 DEF Ahead
      <4>4. x \in 1 .. Len(sem'.queue) /\ y \in 1 .. Len(sem'.queue)
        BY <2>4, <2>7, <4>3
      <4> QED BY <2>7, <4>3, <4>4 DEF Ahead
    <3>2. ASSUME b \notin Waiting PROVE pc'[b] = "idle"
      BY <1>0, <1>b, <1>c, <2>1, <2>10, <3>2 DEF Wake
    <3> QED BY <1>a, <3>1, <3>2
  <2> QED BY <2>9, <2>10
<1>3. ASSUME NEW c \in Clients, CallAborted(c)
      PROVE  b \notin Holders' /\ (b \in Waiting' => Ahead(sem'.queue, a, b))
  <2>1. sem' = Shared /\ pc' = Wake(pc, sem, Shared)
    BY <1>3 DEF CallAborted
  <2>2. ASSUME b \in Waiting PROVE Ahead(sem'.queue, a, b)
    BY <1>0, <2>1, <2>2, SharedInOrder DEF InOrder
  <2>3. ASSUME b \notin Waiting PROVE pc'[b] = "idle"
    BY <1>0, <1>b, <1>c, <2>1, <2>3 DEF Wake
  <2> QED BY <1>a, <2>2, <2>3
<1>4. ASSUME NEW c \in Clients, AbortWaiting(c)
      PROVE  b \notin Holders' /\ (b \in Waiting' => Ahead(sem'.queue, a, b))
  <2>1. pc[c] = "waiting" /\ sem' = AbortWait(sem, c) /\ pc' = [pc EXCEPT ![c] = "idle"]
    BY <1>4 DEF AbortWaiting
  <2>2. c # a
    BY <1>0, <2>1
  <2>3. CASE b = c
    BY <1>0, <2>1, <2>3 DEF Holders, Waiting
  <2>4. CASE b # c
    <3>1. c \in Queued(sem)
      BY <1>0, <2>1 DEF Waiting
    <3>2. ASSUME b \in Waiting PROVE Ahead(sem'.queue, a, b)
      BY <1>d, <2>1, <2>2, <2>4, <3>1, <3>2, AbortInOrder
    <3>3. ASSUME b \notin Waiting PROVE pc'[b] = "idle"
      BY <1>0, <1>b, <2>1, <2>4, <3>3
    <3> QED BY <1>a, <3>2, <3>3
  <2> QED BY <2>3, <2>4
<1>5. ASSUME NEW c \in Clients, OpenStream(c)
      PROVE  b \notin Holders' /\ (b \in Waiting' => Ahead(sem'.queue, a, b))
  <2>1. sem' = sem /\ b # c /\ pc'[b] = pc[b]
    BY <1>0, <1>5 DEF OpenStream
  <2> QED BY <1>a, <1>b, <2>1
<1>6. ASSUME NEW c \in Clients, BaseFails(c) \/ StreamSettles(c)
      PROVE  b \notin Holders' /\ (b \in Waiting' => Ahead(sem'.queue, a, b))
  <2>1. /\ sem' = Release(sem)
        /\ pc' = [Wake(pc, sem, Release(sem)) EXCEPT ![c] = "idle"]
        /\ pc[c] \in {"granted", "streaming"}
    BY <1>6 DEF BaseFails, StreamSettles, GiveBack
  <2>2. ASSUME b \in Waiting PROVE Ahead(sem'.queue, a, b)
    BY <1>0, <1>d, <2>1, <2>2, ReleaseInOrder DEF InOrder
  <2>3. ASSUME b \notin Waiting PROVE pc'[b] = "idle"
    BY <1>0, <1>b, <1>c, <2>1, <2>3 DEF Wake
  <2> QED BY <1>a, <2>2, <2>3
<1>7. CASE UNCHANGED vars
  BY <1>7, <1>a, <1>b DEF vars
<1> QED BY <1>1, <1>2, <1>3, <1>4, <1>5, <1>6, <1>7 DEF Next

\* For every number of callers, whoever aborts and however the ceiling moves: as
\* long as a caller waits, nobody behind it is granted a slot or gets ahead of it.
THEOREM FirstComeFirst == Spec => FirstComeFirstServed
<1>1. IInv /\ [Next]_vars =>
        [\A a \in Waiting \cap Waiting' : \A b \in Clients \ (Holders \cup {a}) :
          (b \in Waiting => Ahead(sem.queue, a, b)) =>
            b \notin Holders' /\ (b \in Waiting' => Ahead(sem'.queue, a, b))]_vars
  BY StepInOrder
<1> QED BY <1>1, Invariance, PTL DEF Spec, FirstComeFirstServed
==============================================================================

-------------------------- MODULE AsyncJobs_proofs --------------------------
(***************************************************************************)
(* The invariants of AsyncJobs, the reaper's answer, and the contract of   *)
(* JobContract, proved for any number of jobs, ids and owners.  Type       *)
(* correctness needs nothing; where a result goes needs Timely, that       *)
(* nothing outlives a row's retention; that no result is lost, repeated or *)
(* told to a later session needs Tame besides.                             *)
(***************************************************************************)
EXTENDS AsyncJobs, Queues_proofs, SequenceTheorems

\* The regime in which the manager keeps its whole contract: results outlive what
\* waits for them, and where sessions change, no sink call is retried and no
\* foreground call is left behind.
Tame == Timely /\ (MaxEpoch = 0 \/ (MaxAttempts = 0 /\ "foreground" \notin Kinds))

JobRecs == [st : {"new", "running", "settled", "cancelled"}, id : Ids \cup {None},
            owner : Owners \cup {None}, queued : BOOLEAN, born : 0 .. MaxEpoch,
            live : BOOLEAN, fg : BOOLEAN, told : BOOLEAN, missed : BOOLEAN]
Deliveries == [job : Jobs, id : Ids, owner : Owners \cup {None},
               attempt : 0 .. MaxAttempts, due : BOOLEAN]
Flights == [job : Jobs, id : Ids, owner : Owners, attempt : 0 .. MaxAttempts,
            due : BOOLEAN, epoch : 0 .. MaxEpoch]
Entries == [job : Jobs, id : Ids, epoch : 0 .. MaxEpoch]
Loops == {"none", "sleeping", "sending", "ending"}
Posts == [queue : Seq(Deliveries), flight : SUBSET Flights, loop : Loops,
          at : Jobs \cup {None}]
Waits == [pc : {"idle", "waiting", "unwatched"}, jobs : SUBSET Jobs, ids : SUBSET Ids,
          message : BOOLEAN]
Reaps == [pc : {"idle", "waiting"}, ids : SUBSET Ids, jobs : SUBSET Jobs, all : BOOLEAN]

Fields ==
    /\ job \in [Jobs -> JobRecs]
    /\ row \in [Ids -> Jobs \cup {None}]
    /\ muted \subseteq Ids /\ watched \subseteq Ids /\ timers \subseteq Ids
    /\ post \in Posts
    /\ live \subseteq Owners /\ epoch \in [Owners -> 0 .. MaxEpoch]
    /\ yielded \in [Owners -> SUBSET Entries]
    /\ hub \in [Owners -> Waits]
    /\ reap \in [Owners -> Reaps]
    /\ disposed \in BOOLEAN /\ repeated \subseteq Jobs

Current(j) == job[j].born = epoch[job[j].owner]
InQueue(p, j) == \E k \in DOMAIN p.queue : p.queue[k].job = j
InFlight(p, j) == \E d \in p.flight : d.job = j
Yielded(j) == \E o \in Owners : \E e \in yielded[o] : e.job = j
Copied(j) == InQueue(post, j) \/ InFlight(post, j) \/ Yielded(j)
HasRow(j) == row[job[j].id] = j

\* What the fields of a job say of each other.
JobsKnown ==
    \A j \in Jobs :
        /\ job[j].st = "new" =>
              job[j].id = None /\ ~job[j].live /\ ~job[j].fg
        /\ job[j].st # "new" =>
              /\ job[j].id \in Ids /\ job[j].owner \in Owners
              /\ job[j].born <= epoch[job[j].owner]
              /\ ~Over(j) => job[j].owner \in live
        /\ job[j].st = "running" => job[j].live
        /\ job[j].st = "settled" => ~job[j].live

RowsKnown ==
    /\ \A i \in Ids : row[i] # None => job[row[i]].id = i
    /\ \A i \in watched : row[i] # None
    /\ \A o \in Owners : \A j \in hub[o].jobs : job[j].st # "new"
    /\ disposed => MaxEpoch > 0

RunningKnown ==
    Timely => \A j \in Jobs : /\ job[j].st = "running" => HasRow(j) /\ ~Over(j)
                              /\ job[j].told \/ job[j].missed => job[j].st = "settled"

\* A delivery belongs to a finished job, and has its id and its owner.
AddressedIn(p, f) ==
    /\ \A k \in DOMAIN p.queue : LET d == p.queue[k] IN
          f[d.job].st = "settled" /\ d.id = f[d.job].id /\ d.owner = f[d.job].owner
    /\ \A d \in p.flight :
          f[d.job].st = "settled" /\ d.id = f[d.job].id /\ d.owner = f[d.job].owner

Addressed ==
    Timely =>
        /\ AddressedIn(post, job)
        /\ \A o \in Owners : \A e \in yielded[o] :
              job[e.job].st = "settled" /\ e.id = job[e.job].id /\ o = job[e.job].owner

\* A delivery in flight carries the generation of the session its job was born in.
StampedIn(p, f) == \A d \in p.flight : d.epoch = f[d.job].born

Stamped ==
    Tame =>
        /\ StampedIn(post, job)
        /\ \A o \in Owners : \A e \in yielded[o] : e.epoch = epoch[o] /\ Current(e.job)
        /\ \A j \in Jobs : InQueue(post, j) => HasRow(j) /\ Current(j)
        /\ \A j \in Jobs : (InFlight(post, j) \/ Yielded(j)) /\ Current(j) /\ job[j].owner \in live
                           => HasRow(j)

\* No job is delivered twice at the same time.
OneCopyIn(p) ==
    /\ \A k, m \in DOMAIN p.queue : p.queue[k].job = p.queue[m].job => k = m
    /\ \A d, e \in p.flight : d.job = e.job => d = e
    /\ \A j \in Jobs : ~(InQueue(p, j) /\ InFlight(p, j))

OneCopy ==
    Tame => OneCopyIn(post) /\ \A j \in Jobs : Yielded(j) => ~InQueue(post, j) /\ ~InFlight(post, j)

ForegroundKnown ==
    Tame => \A j \in Jobs : job[j].fg =>
        MaxEpoch = 0 /\ HasRow(j) /\ job[j].id \in muted /\ ~Copied(j)

Awaited(j) == /\ job[j].st \in {"running", "settled"} /\ ~Over(j)
              /\ ~job[j].told /\ ~job[j].missed

SuppressedKnown ==
    Tame => \A j \in Jobs : Awaited(j) =>
        /\ job[j].id \in muted => job[j].fg
        /\ job[j].id \in watched => \E o \in Owners : hub[o].pc = "waiting" /\ Owes(o, j)

NothingLost ==
    Tame => \A j \in Jobs : Awaited(j) /\ job[j].st = "settled" =>
        HasRow(j) /\ (Copied(j) \/ job[j].fg \/ \E o \in Owners : Owes(o, j))

ToldKnown ==
    Tame => \A j \in Jobs : job[j].told /\ Copied(j) /\ Current(j) /\ job[j].owner \in live =>
        job[j].id \in muted

NeverRepeated == Tame => repeated = {}

ReapKnown ==
    Timely /\ MaxEpoch = 0 =>
        /\ \A j \in Jobs : job[j].live => HasRow(j)
        /\ \A o \in Owners : reap[o].pc = "waiting" =>
              \A i \in reap[o].ids :
                 row[i] # None /\ (job[row[i]].live => row[i] \in reap[o].jobs)

IInv ==
    /\ Fields /\ JobsKnown /\ RowsKnown /\ RunningKnown /\ Addressed /\ Stamped /\ OneCopy
    /\ ForegroundKnown /\ SuppressedKnown /\ NothingLost /\ ToldKnown /\ NeverRepeated
    /\ ReapKnown

-----------------------------------------------------------------------------
(* The delivery queue and its loop.                                        *)

\* The same result, with the same address.
Like(d, e) == d.job = e.job /\ d.id = e.id /\ d.owner = e.owner

\* What any step of the loop makes of post: it may take deliveries off the queue and
\* into flight, stamped with the generation of the owner's session; none vanishes but
\* the muted ones and those of an owner without a sink.
Moved(p, q, mute) ==
    /\ q \in Posts
    /\ \A k \in DOMAIN q.queue : \E m \in DOMAIN p.queue : Like(q.queue[k], p.queue[m])
    /\ \A d \in q.flight : \/ d \in p.flight
                           \/ /\ \E m \in DOMAIN p.queue : Like(d, p.queue[m])
                              /\ d.epoch = epoch[d.owner]
    /\ p.flight \subseteq q.flight
    /\ \A m \in DOMAIN p.queue :
          \/ \E k \in DOMAIN q.queue : Like(q.queue[k], p.queue[m])
          \/ \E d \in q.flight : Like(d, p.queue[m])
          \/ p.queue[m].id \in mute \/ p.queue[m].owner \notin live
    /\ OneCopyIn(p) => OneCopyIn(q)

Sinks == live \subseteq Owners /\ epoch \in [Owners -> 0 .. MaxEpoch]

LEMMA PostFields ==
    ASSUME NEW p \in Posts
    PROVE  /\ p.queue \in Seq(Deliveries) /\ p.flight \in SUBSET Flights
           /\ \A k \in DOMAIN p.queue : p.queue[k] \in Deliveries
           /\ Len(p.queue) \in Nat /\ DOMAIN p.queue = 1 .. Len(p.queue)
<1>1. p.queue \in Seq(Deliveries) /\ p.flight \in SUBSET Flights
  BY DEF Posts
<1> QED
  BY <1>1

\* A change of what the loop is doing leaves the deliveries alone.
LEMMA SameMoves ==
    ASSUME NEW p \in Posts, NEW q \in Posts, q.queue = p.queue, q.flight = p.flight,
           NEW mute
    PROVE  Moved(p, q, mute)
<1>1. \A m \in DOMAIN p.queue : Like(q.queue[m], p.queue[m])
  BY DEF Like
<1>2. OneCopyIn(p) => OneCopyIn(q)
  BY DEF OneCopyIn, InQueue, InFlight
<1> QED
  BY <1>1, <1>2 DEF Moved

\* Two moves are one.
LEMMA MovesCompose ==
    ASSUME NEW p, NEW q, NEW r, NEW mute, Moved(p, q, mute), Moved(q, r, mute)
    PROVE  Moved(p, r, mute)
<1>1. \A x, y, z : Like(x, y) /\ Like(y, z) => Like(x, z)
  BY DEF Like
<1>2. \A k \in DOMAIN r.queue : \E m \in DOMAIN p.queue : Like(r.queue[k], p.queue[m])
  BY <1>1 DEF Moved
<1>3. \A d \in r.flight : \/ d \in p.flight
                         \/ /\ \E m \in DOMAIN p.queue : Like(d, p.queue[m])
                            /\ d.epoch = epoch[d.owner]
  BY <1>1 DEF Moved
<1>4. \A m \in DOMAIN p.queue :
        \/ \E k \in DOMAIN r.queue : Like(r.queue[k], p.queue[m])
        \/ \E d \in r.flight : Like(d, p.queue[m])
        \/ p.queue[m].id \in mute \/ p.queue[m].owner \notin live
  <2> TAKE m \in DOMAIN p.queue
  <2>1. CASE \E k \in DOMAIN q.queue : Like(q.queue[k], p.queue[m])
    <3>1. PICK k \in DOMAIN q.queue : Like(q.queue[k], p.queue[m])
      BY <2>1
    <3>2. q.queue[k].id = p.queue[m].id /\ q.queue[k].owner = p.queue[m].owner
      BY <3>1 DEF Like
    <3>3. \/ \E l \in DOMAIN r.queue : Like(r.queue[l], q.queue[k])
          \/ \E d \in r.flight : Like(d, q.queue[k])
          \/ q.queue[k].id \in mute \/ q.queue[k].owner \notin live
      BY DEF Moved
    <3> QED
      BY <1>1, <3>1, <3>2, <3>3
  <2>2. CASE \E d \in q.flight : Like(d, p.queue[m])
    BY <2>2 DEF Moved
  <2> QED
    BY <2>1, <2>2 DEF Moved
<1> QED
  BY <1>2, <1>3, <1>4 DEF Moved

\* A queue with fewer entries, none of which was let go but a muted one.
LEMMA ShorterMoves ==
    ASSUME NEW p \in Posts, NEW q \in Posts, NEW mute, NEW at \in [DOMAIN q.queue -> DOMAIN p.queue],
           \A k \in DOMAIN q.queue : q.queue[k] = p.queue[at[k]],
           \A k, l \in DOMAIN q.queue : at[k] = at[l] => k = l,
           \A m \in DOMAIN p.queue : p.queue[m].id \in mute \/ \E k \in DOMAIN q.queue : at[k] = m,
           q.flight = p.flight
    PROVE  Moved(p, q, mute)
<1>1. \A k \in DOMAIN q.queue : Like(q.queue[k], p.queue[at[k]])
  BY DEF Like
<1>2. OneCopyIn(p) => OneCopyIn(q)
  <2> SUFFICES ASSUME OneCopyIn(p) PROVE OneCopyIn(q)
    OBVIOUS
  <2>1. \A k, l \in DOMAIN q.queue : q.queue[k].job = q.queue[l].job => k = l
    BY DEF OneCopyIn
  <2>2. \A j \in Jobs : InQueue(q, j) => InQueue(p, j)
    BY DEF InQueue
  <2>3. \A j \in Jobs : InFlight(q, j) => InFlight(p, j)
    BY DEF InFlight
  <2> QED
    BY <2>1, <2>2, <2>3 DEF OneCopyIn
<1>3. \A m \in DOMAIN p.queue : p.queue[m].id \in mute
        \/ \E k \in DOMAIN q.queue : Like(q.queue[k], p.queue[m])
  BY <1>1
<1> QED
  BY <1>1, <1>2, <1>3 DEF Moved

\* acknowledgeDeliveries drops the muted ones.
LEMMA DropMoves ==
    ASSUME NEW p \in Posts, NEW mute
    PROVE  Moved(p, DropMuted(p, mute), mute) /\ DropMuted(p, mute).flight = p.flight
           /\ \A k \in DOMAIN DropMuted(p, mute).queue : DropMuted(p, mute).queue[k].id \notin mute
<1> DEFINE kept == {k \in DOMAIN p.queue : p.queue[k].id \notin mute}
           q == DropMuted(p, mute)
           at == [k \in DOMAIN q.queue |-> Nth(kept, k)]
<1>1. q = [p EXCEPT !.queue = Only(p.queue, kept)]
  BY DEF DropMuted
<1>2. kept \in SUBSET (DOMAIN p.queue) /\ p.queue \in Seq(Deliveries)
  BY PostFields
<1>3. Only(p.queue, kept) \in Seq(Deliveries)
  BY <1>2, OnlyProperties
<1>4. q \in Posts /\ q.queue = Only(p.queue, kept) /\ q.flight = p.flight
  BY ONLY <1>1, <1>3, p \in Posts DEF Posts
<1>5. /\ \A k \in DOMAIN q.queue : Nth(kept, k) \in kept /\ q.queue[k] = p.queue[Nth(kept, k)]
      /\ \A k, l \in DOMAIN q.queue : k < l => Nth(kept, k) < Nth(kept, l)
      /\ \A m \in kept : \E k \in DOMAIN q.queue : Nth(kept, k) = m
  <2> HIDE DEF q, kept
  <2>1. /\ \A k \in DOMAIN Only(p.queue, kept) :
              Nth(kept, k) \in kept /\ Only(p.queue, kept)[k] = p.queue[Nth(kept, k)]
        /\ \A k, l \in DOMAIN Only(p.queue, kept) : k < l => Nth(kept, k) < Nth(kept, l)
        /\ \A m \in kept : \E k \in DOMAIN Only(p.queue, kept) : Nth(kept, k) = m
    BY <1>2, OnlyProperties
  <2> QED
    BY <1>4, <2>1
<1>6. \A k, l \in DOMAIN q.queue : Nth(kept, k) = Nth(kept, l) => k = l
  <2> TAKE k, l \in DOMAIN q.queue
  <2>1. k \in Int /\ l \in Int
    BY <1>4, PostFields
  <2>2. Nth(kept, k) \in Int /\ Nth(kept, l) \in Int
    <3>1. \A m \in kept : m \in Int
      BY PostFields
    <3> QED
      BY <1>5, <3>1
  <2>3. k < l => Nth(kept, k) < Nth(kept, l)
    BY <1>5
  <2>4. l < k => Nth(kept, l) < Nth(kept, k)
    BY <1>5
  <2> QED
    BY ONLY <2>1, <2>2, <2>3, <2>4
<1> HIDE DEF q, kept
<1>7. at \in [DOMAIN q.queue -> DOMAIN p.queue]
  BY <1>2, <1>5
<1>8. /\ \A k \in DOMAIN q.queue : q.queue[k] = p.queue[at[k]]
      /\ \A k, l \in DOMAIN q.queue : at[k] = at[l] => k = l
  BY <1>5, <1>6
<1>9. \A m \in DOMAIN p.queue : p.queue[m].id \in mute \/ \E k \in DOMAIN q.queue : at[k] = m
  BY <1>5 DEF kept
<1>10. \A k \in DOMAIN q.queue : q.queue[k].id \notin mute
  BY <1>5 DEF kept
<1> HIDE DEF at
<1>11. Moved(p, q, mute)
  BY <1>4, <1>7, <1>8, <1>9, ShorterMoves
<1> QED
  BY <1>4, <1>10, <1>11 DEF q

\* The loop skips muted heads.
LEMMA SkipMoves ==
    ASSUME NEW p \in Posts, NEW q \in Posts, NEW mute, q.queue = SkipMuted(p.queue, mute),
           q.flight = p.flight
    PROVE  Moved(p, q, mute)
<1> DEFINE kept == {k \in DOMAIN p.queue : p.queue[k].id \notin mute}
<1>0. p.queue \in Seq(Deliveries) /\ DOMAIN p.queue = 1 .. Len(p.queue) /\ Len(p.queue) \in Nat
  BY PostFields
<1>1. CASE kept = {}
  <2>1. q.queue = <<>>
    BY <1>1 DEF SkipMuted
  <2> DEFINE at == [k \in DOMAIN q.queue |-> 1]
  <2>2. DOMAIN q.queue = {}
    BY <2>1
  <2>3. at \in [DOMAIN q.queue -> DOMAIN p.queue]
    BY <2>2
  <2>4. \A m \in DOMAIN p.queue : p.queue[m].id \in mute
    BY <1>1
  <2> HIDE DEF at
  <2> QED
    BY <2>2, <2>3, <2>4, ShorterMoves
<1>2. CASE kept # {}
  <2> DEFINE first == Min(kept)
             at == [k \in DOMAIN q.queue |-> k + first - 1]
  <2>1. kept \in SUBSET (1 .. Len(p.queue))
    BY <1>0
  <2>2. \E k \in kept : \A l \in kept : k <= l
    BY ONLY <1>0, <1>2, <2>1, LeastPosition
  <2>3. first \in kept /\ \A l \in kept : first <= l
    BY ONLY <2>2 DEF Min
  <2>4. q.queue = SubSeq(p.queue, first, Len(p.queue))
    BY <1>2 DEF SkipMuted
  <2>5. first \in 1 .. Len(p.queue)
    BY ONLY <2>1, <2>3
  <2> HIDE DEF first
  <2>6. /\ DOMAIN q.queue = 1 .. (Len(p.queue) - first + 1)
        /\ \A k \in DOMAIN q.queue : q.queue[k] = p.queue[k + first - 1]
    BY ONLY <1>0, <2>4, <2>5, SubSeqProperties, Z3
  <2>7. at \in [DOMAIN q.queue -> DOMAIN p.queue]
    <3>1. \A k \in DOMAIN q.queue : k + first - 1 \in DOMAIN p.queue
      BY ONLY <1>0, <2>5, <2>6
    <3> QED
      BY <3>1
  <2>8. /\ \A k \in DOMAIN q.queue : at[k] = k + first - 1 /\ q.queue[k] = p.queue[at[k]]
    BY <2>6
  <2> HIDE DEF at
  <2>9. \A k, l \in DOMAIN q.queue : at[k] = at[l] => k = l
    BY ONLY <1>0, <2>5, <2>6, <2>8
  <2>10. \A m \in DOMAIN p.queue : p.queue[m].id \in mute \/ \E k \in DOMAIN q.queue : at[k] = m
    <3> TAKE m \in DOMAIN p.queue
    <3>1. CASE m \in kept
      <4>1. first <= m /\ m \in 1 .. Len(p.queue)
        BY <1>0, <2>3, <3>1
      <4>2. m - first + 1 \in DOMAIN q.queue /\ (m - first + 1) + first - 1 = m
        BY ONLY <1>0, <2>5, <2>6, <4>1
      <4> QED
        BY <2>8, <4>2
    <3>2. CASE m \notin kept
      BY <3>2
    <3> QED
      BY <3>1, <3>2
  <2> QED
    BY <2>7, <2>8, <2>9, <2>10, ShorterMoves
<1> QED
  BY <1>1, <1>2

\* One delivery goes from the queue to its owner's sink, or to nobody.
LEMMA HandOverMoves ==
    ASSUME NEW p \in Posts, NEW k \in DOMAIN p.queue, NEW mute, Sinks
    PROVE  Moved(p, HandOver(p, k), mute)
<1> DEFINE d == p.queue[k]
           q == HandOver(p, k)
           gone == IF d.owner \in live THEN {Sent(d)} ELSE {}
<1>0. p.queue \in Seq(Deliveries) /\ DOMAIN p.queue = 1 .. Len(p.queue) /\ Len(p.queue) \in Nat
      /\ p.flight \in SUBSET Flights /\ d \in Deliveries
  BY PostFields
<1>1. gone \in SUBSET Flights /\ \A e \in gone : Like(e, d) /\ e.epoch = epoch[e.owner]
  <2>1. CASE d.owner \in live
    <3>1. d.owner \in Owners /\ epoch[d.owner] \in 0 .. MaxEpoch
      BY <2>1 DEF Sinks
    <3>2. Sent(d) \in Flights /\ Like(Sent(d), d) /\ Sent(d).epoch = epoch[Sent(d).owner]
      BY ONLY <1>0, <3>1 DEF Sent, Deliveries, Flights, Like
    <3> QED
      BY <2>1, <3>2
  <2>2. CASE d.owner \notin live
    BY <2>2
  <2> QED
    BY <2>1, <2>2
<1>2. q = [p EXCEPT !.queue = RemoveAt(p.queue, k), !.flight = p.flight \cup gone]
  BY DEF HandOver
<1>3. /\ RemoveAt(p.queue, k) \in Seq(Deliveries)
      /\ DOMAIN RemoveAt(p.queue, k) = 1 .. (Len(p.queue) - 1)
      /\ \A i \in 1 .. (Len(p.queue) - 1) :
            RemoveAt(p.queue, k)[i] = p.queue[IF i < k THEN i ELSE i + 1]
  <2> DEFINE front == SubSeq(p.queue, 1, k - 1)
             back == SubSeq(p.queue, k + 1, Len(p.queue))
  <2>1. k \in 1 .. Len(p.queue)
    BY <1>0
  <2>2. front \in Seq(Deliveries) /\ Len(front) = k - 1 /\ \A i \in 1 .. (k - 1) : front[i] = p.queue[i]
    BY ONLY <1>0, <2>1, SubSeqProperties, Z3T(30)
  <2>3. back \in Seq(Deliveries) /\ Len(back) = Len(p.queue) - k
        /\ \A i \in 1 .. (Len(p.queue) - k) : back[i] = p.queue[k + i]
    BY ONLY <1>0, <2>1, SubSeqProperties, Z3T(30)
  <2> HIDE DEF front, back
  <2>4. RemoveAt(p.queue, k) = front \o back
    BY DEF RemoveAt, front, back
  <2>5. /\ front \o back \in Seq(Deliveries) /\ Len(front \o back) = Len(p.queue) - 1
        /\ \A i \in 1 .. (Len(p.queue) - 1) :
              (front \o back)[i] = IF i <= k - 1 THEN front[i] ELSE back[i - (k - 1)]
    <3>1. /\ front \o back \in Seq(Deliveries) /\ Len(front \o back) = Len(front) + Len(back)
          /\ \A i \in 1 .. (Len(front) + Len(back)) :
                (front \o back)[i] = IF i <= Len(front) THEN front[i] ELSE back[i - Len(front)]
      BY ONLY <2>2, <2>3, ConcatProperties, Zenon
    <3>2. Len(front) + Len(back) = Len(p.queue) - 1
      BY ONLY <1>0, <2>1, <2>2, <2>3
    <3> QED
      BY ONLY <2>2, <3>1, <3>2, Zenon
  <2>6. \A i \in 1 .. (Len(p.queue) - 1) : (front \o back)[i] = p.queue[IF i < k THEN i ELSE i + 1]
    <3> TAKE i \in 1 .. (Len(p.queue) - 1)
    <3>1. CASE i < k
      <4>1. i \in 1 .. (k - 1) /\ i <= k - 1
        BY ONLY <1>0, <2>1, <3>1, i \in 1 .. (Len(p.queue) - 1)
      <4> QED
        BY <2>2, <2>5, <3>1, <4>1
    <3>2. CASE ~(i < k)
      <4>1. i - (k - 1) \in 1 .. (Len(p.queue) - k) /\ ~(i <= k - 1) /\ k + (i - (k - 1)) = i + 1
        BY ONLY <1>0, <2>1, <3>2, i \in 1 .. (Len(p.queue) - 1)
      <4> QED
        BY <2>3, <2>5, <3>2, <4>1
    <3> QED
      BY <3>1, <3>2
  <2>7. DOMAIN (front \o back) = 1 .. (Len(p.queue) - 1)
    BY ONLY <2>5
  <2> QED
    BY <2>4, <2>5, <2>6, <2>7
<1>4. q \in Posts /\ q.queue = RemoveAt(p.queue, k) /\ q.flight = p.flight \cup gone
  <2>1. p.flight \cup gone \in SUBSET Flights
    BY <1>0, <1>1
  <2> HIDE DEF gone
  <2> QED
    BY ONLY <1>2, <1>3, <2>1, p \in Posts DEF Posts
<1> DEFINE at(i) == IF i < k THEN i ELSE i + 1
<1>5. /\ \A i \in DOMAIN q.queue : at(i) \in DOMAIN p.queue /\ at(i) # k
      /\ \A i, l \in DOMAIN q.queue : at(i) = at(l) => i = l
      /\ \A m \in DOMAIN p.queue : m = k \/ \E i \in DOMAIN q.queue : at(i) = m
  <2>1. DOMAIN q.queue = 1 .. (Len(p.queue) - 1) /\ k \in 1 .. Len(p.queue)
    BY <1>0, <1>3, <1>4
  <2>2. /\ \A i \in DOMAIN q.queue : at(i) \in DOMAIN p.queue /\ at(i) # k
        /\ \A i, l \in DOMAIN q.queue : at(i) = at(l) => i = l
    BY ONLY <1>0, <2>1
  <2>3. \A m \in DOMAIN p.queue : m = k \/ \E i \in DOMAIN q.queue : at(i) = m
    <3> TAKE m \in DOMAIN p.queue
    <3>1. CASE m < k
      <4>1. m \in DOMAIN q.queue /\ at(m) = m
        BY ONLY <1>0, <2>1, <3>1, m \in DOMAIN p.queue
      <4> QED
        BY <4>1
    <3>2. CASE m > k
      <4>1. m - 1 \in DOMAIN q.queue /\ at(m - 1) = m
        BY ONLY <1>0, <2>1, <3>2, m \in DOMAIN p.queue
      <4> QED
        BY <4>1
    <3>3. m < k \/ m = k \/ m > k
      BY <1>0, <2>1
    <3> QED
      BY <3>1, <3>2, <3>3
  <2> QED
    BY <2>2, <2>3
<1>6. \A i \in DOMAIN q.queue : q.queue[i] = p.queue[at(i)]
  BY <1>3, <1>4
<1> HIDE DEF at, q, gone
<1>7. \A i \in DOMAIN q.queue : Like(q.queue[i], p.queue[at(i)])
  BY <1>6 DEF Like
<1>8. Like(d, p.queue[k])
  BY DEF Like
<1>9. d.owner \in live => \E e \in q.flight : Like(e, p.queue[k])
  BY <1>1, <1>4 DEF gone
<1>10. OneCopyIn(p) => OneCopyIn(q)
  <2> SUFFICES ASSUME OneCopyIn(p) PROVE OneCopyIn(q)
    OBVIOUS
  <2>1. \A i, l \in DOMAIN q.queue : q.queue[i].job = q.queue[l].job => i = l
    BY <1>5, <1>6 DEF OneCopyIn
  <2>2. \A i \in DOMAIN q.queue : q.queue[i].job # d.job
    BY <1>5, <1>6 DEF OneCopyIn
  <2>3. \A e \in gone : e.job = d.job /\ \A f \in gone : e = f
    BY <1>1 DEF gone, Like
  <2>4. \A e \in p.flight : e.job # d.job
    <3>1. d.job \in Jobs /\ InQueue(p, d.job)
      BY <1>0 DEF Deliveries, InQueue
    <3> QED
      BY <3>1 DEF OneCopyIn, InFlight
  <2>5. \A e, f \in q.flight : e.job = f.job => e = f
    BY <1>4, <2>3, <2>4 DEF OneCopyIn
  <2>6. \A i \in DOMAIN q.queue : \A e \in q.flight : e.job # q.queue[i].job
    <3> TAKE i \in DOMAIN q.queue
    <3>1. q.queue[i].job \in Jobs /\ InQueue(p, q.queue[i].job)
      <4>1. q.queue[i] \in Deliveries
        BY <1>4, PostFields
      <4> QED
        BY <1>5, <1>6, <4>1 DEF Deliveries, InQueue
    <3> QED
      BY <1>4, <2>2, <2>3, <3>1 DEF OneCopyIn, InFlight
  <2>7. \A j \in Jobs : ~(InQueue(q, j) /\ InFlight(q, j))
    BY <2>6 DEF InQueue, InFlight
  <2> QED
    BY <2>1, <2>5, <2>7 DEF OneCopyIn
<1>11. \A e \in q.flight : e \in p.flight \/ (Like(e, p.queue[k]) /\ e.epoch = epoch[e.owner])
  BY <1>1, <1>4
<1>12. \A m \in DOMAIN p.queue :
         \/ \E i \in DOMAIN q.queue : Like(q.queue[i], p.queue[m])
         \/ \E e \in q.flight : Like(e, p.queue[m])
         \/ p.queue[m].owner \notin live
  BY <1>5, <1>7, <1>9
<1>13. Moved(p, q, mute)
  BY <1>4, <1>5, <1>7, <1>10, <1>11, <1>12 DEF Moved
<1> QED
  BY <1>13 DEF q

\* The loop, from the top of its while to its next await, moves deliveries.
LEMMA RunLoopMoves ==
    ASSUME NEW p \in Posts, NEW mute, Sinks
    PROVE  Moved(p, RunLoop(p, mute), mute)
<1> DEFINE q == SkipMuted(p.queue, mute)
           s == [p EXCEPT !.queue = q]
<1>1. s \in Posts /\ s.queue = q /\ s.flight = p.flight /\ Moved(p, s, mute)
  <2>1. q \in Seq(Deliveries)
    <3> DEFINE kept == {k \in DOMAIN p.queue : p.queue[k].id \notin mute}
    <3>0. p.queue \in Seq(Deliveries) /\ DOMAIN p.queue = 1 .. Len(p.queue) /\ Len(p.queue) \in Nat
      BY PostFields
    <3>1. CASE kept = {}
      <4>1. q = <<>>
        BY <3>1 DEF SkipMuted
      <4> HIDE DEF q
      <4> QED
        BY <4>1
    <3>2. CASE kept # {}
      <4>1. kept \in SUBSET (1 .. Len(p.queue))
        BY <3>0
      <4>2. \E k \in kept : \A l \in kept : k <= l
        BY ONLY <3>0, <3>2, <4>1, LeastPosition
      <4>3. Min(kept) \in kept
        BY ONLY <4>2 DEF Min
      <4>4. Min(kept) \in 1 .. Len(p.queue)
        BY ONLY <4>1, <4>3
      <4>5. q = SubSeq(p.queue, Min(kept), Len(p.queue))
        BY <3>2 DEF SkipMuted
      <4> DEFINE m == Min(kept)
      <4> HIDE DEF m, q, kept
      <4>6. m \in 1 .. Len(p.queue) /\ q = SubSeq(p.queue, m, Len(p.queue))
        BY <4>4, <4>5 DEF m
      <4> QED
        BY ONLY <3>0, <4>6, SubSeqProperties, Z3
    <3> QED
      BY <3>1, <3>2
  <2> HIDE DEF q
  <2>2. s \in Posts /\ s.queue = q /\ s.flight = p.flight
    BY ONLY <2>1, p \in Posts DEF Posts
  <2>3. s.queue = SkipMuted(p.queue, mute)
    BY <2>2 DEF q
  <2> HIDE DEF s
  <2> QED
    BY <2>2, <2>3, SkipMoves
<1>2. CASE q = <<>>
  <2>1. RunLoop(p, mute) = [p EXCEPT !.queue = q, !.loop = "ending", !.at = None]
    BY <1>2 DEF RunLoop
  <2> DEFINE r == [p EXCEPT !.queue = q, !.loop = "ending", !.at = None]
  <2> HIDE DEF q
  <2>2. q \in Seq(Deliveries)
    BY <1>1 DEF Posts
  <2>3. r \in Posts /\ r.queue = q /\ r.flight = p.flight
    BY ONLY <2>2, p \in Posts DEF Posts, Loops
  <2> HIDE DEF r, s
  <2>4. Moved(s, r, mute)
    BY <1>1, <2>3, SameMoves
  <2>5. Moved(p, r, mute)
    BY <1>1, <2>4, MovesCompose
  <2> QED
    BY <2>1, <2>5 DEF r
<1>3. CASE q # <<>>
  <2> HIDE DEF q
  <2>1. q \in Seq(Deliveries)
    BY <1>1 DEF Posts
  <2>2. Head(q) = q[1] /\ 1 \in DOMAIN q
    BY <1>3, <2>1
  <2>3. Head(q).job \in Jobs
    <3>1. q[1] \in Deliveries
      BY <2>1, <2>2
    <3> QED
      BY <2>2, <3>1 DEF Deliveries
  <2> DEFINE w == [p EXCEPT !.queue = q, !.loop = "sleeping", !.at = Head(q).job]
             g == [p EXCEPT !.queue = q, !.loop = "sending", !.at = Head(q).job]
  <2>4. w \in Posts /\ w.queue = q /\ w.flight = p.flight
    BY ONLY <2>1, <2>3, p \in Posts DEF Posts, Loops
  <2>5. g \in Posts /\ g.queue = q /\ g.flight = p.flight
    BY ONLY <2>1, <2>3, p \in Posts DEF Posts, Loops
  <2>6. RunLoop(p, mute) = w \/ RunLoop(p, mute) = HandOver(g, 1)
    BY <1>3 DEF RunLoop, q
  <2> HIDE DEF w, g, s
  <2>7. Moved(p, w, mute)
    <3>1. Moved(s, w, mute)
      BY <1>1, <2>4, SameMoves
    <3> QED
      BY <1>1, <3>1, MovesCompose
  <2>8. Moved(p, HandOver(g, 1), mute)
    <3>1. Moved(s, g, mute)
      BY <1>1, <2>5, SameMoves
    <3>2. Moved(p, g, mute)
      BY <1>1, <3>1, MovesCompose
    <3>3. 1 \in DOMAIN g.queue
      BY <2>2, <2>5
    <3>4. Moved(g, HandOver(g, 1), mute)
      BY <2>5, <3>3, HandOverMoves
    <3> QED
      BY <3>2, <3>4, MovesCompose
  <2> QED
    BY <2>6, <2>7, <2>8
<1> QED
  BY <1>2, <1>3

LEMMA EnsureMoves ==
    ASSUME NEW p \in Posts, NEW mute, Sinks
    PROVE  Moved(p, EnsureLoop(p, mute), mute)
<1>1. Moved(p, p, mute)
  BY SameMoves
<1> QED
  BY <1>1, RunLoopMoves DEF EnsureLoop

\* A retry that has become due is the same delivery.
LEMMA WakeMoves ==
    ASSUME NEW p \in Posts, NEW j, NEW mute
    PROVE  LET due == [k \in DOMAIN p.queue |->
                          IF p.queue[k].job = j THEN [p.queue[k] EXCEPT !.due = TRUE]
                                                ELSE p.queue[k]]
               q == [p EXCEPT !.queue = due]
           IN  q \in Posts /\ Moved(p, q, mute)
<1> DEFINE due == [k \in DOMAIN p.queue |->
                      IF p.queue[k].job = j THEN [p.queue[k] EXCEPT !.due = TRUE]
                                            ELSE p.queue[k]]
           q == [p EXCEPT !.queue = due]
<1>0. p.queue \in Seq(Deliveries) /\ DOMAIN p.queue = 1 .. Len(p.queue) /\ Len(p.queue) \in Nat
      /\ \A k \in DOMAIN p.queue : p.queue[k] \in Deliveries
  BY PostFields
<1>1. \A d \in Deliveries : LET e == [d EXCEPT !.due = TRUE] IN e \in Deliveries /\ Like(e, d)
  BY DEF Deliveries, Like
<1>2. DOMAIN due = DOMAIN p.queue
      /\ \A k \in DOMAIN p.queue : due[k] \in Deliveries /\ Like(due[k], p.queue[k])
  <2>1. \A k \in DOMAIN p.queue : due[k] = p.queue[k] \/ due[k] = [p.queue[k] EXCEPT !.due = TRUE]
    OBVIOUS
  <2>2. \A d : Like(d, d)
    BY DEF Like
  <2> HIDE DEF due
  <2>3. \A k \in DOMAIN p.queue : due[k] \in Deliveries /\ Like(due[k], p.queue[k])
    BY <1>0, <1>1, <2>1, <2>2
  <2> QED
    BY <2>3 DEF due
<1>3. due \in Seq(Deliveries)
  <2>1. due \in [1 .. Len(p.queue) -> Deliveries]
    BY <1>0, <1>2
  <2> HIDE DEF due
  <2> QED
    BY <1>0, <2>1
<1> HIDE DEF due
<1>4. q \in Posts /\ q.queue = due /\ q.flight = p.flight
  BY ONLY <1>3, p \in Posts DEF Posts
<1> HIDE DEF q
<1>5. OneCopyIn(p) => OneCopyIn(q)
  <2>1. \A j2 \in Jobs : (InQueue(q, j2) => InQueue(p, j2)) /\ (InFlight(q, j2) => InFlight(p, j2))
    BY <1>2, <1>4 DEF InQueue, InFlight, Like
  <2> QED
    BY <1>2, <1>4, <2>1 DEF OneCopyIn, Like
<1>6. Moved(p, q, mute)
  BY <1>2, <1>4, <1>5 DEF Moved
<1> QED
  BY <1>4, <1>6 DEF q, due

\* One more delivery at the end of the queue.
LEMMA Appended ==
    ASSUME NEW p \in Posts, NEW q, NEW d \in Deliveries, q = [p EXCEPT !.queue = Append(@, d)]
    PROVE  /\ q \in Posts /\ q.flight = p.flight
           /\ Len(p.queue) + 1 \in DOMAIN q.queue /\ q.queue[Len(p.queue) + 1] = d
           /\ DOMAIN p.queue \subseteq DOMAIN q.queue
           /\ \A k \in DOMAIN q.queue :
                 k # Len(p.queue) + 1 => k \in DOMAIN p.queue /\ q.queue[k] = p.queue[k]
<1>0. p.queue \in Seq(Deliveries) /\ DOMAIN p.queue = 1 .. Len(p.queue) /\ Len(p.queue) \in Nat
  BY PostFields
<1>1. /\ Append(p.queue, d) \in Seq(Deliveries)
      /\ DOMAIN Append(p.queue, d) = 1 .. (Len(p.queue) + 1)
      /\ Append(p.queue, d)[Len(p.queue) + 1] = d
      /\ \A k \in 1 .. Len(p.queue) : Append(p.queue, d)[k] = p.queue[k]
  BY ONLY <1>0, d \in Deliveries, AppendProperties
<1> DEFINE a == Append(p.queue, d)
<1> HIDE DEF a
<1>2. a \in Seq(Deliveries) /\ q = [p EXCEPT !.queue = a]
  BY <1>1 DEF a
<1>3. q \in Posts /\ q.queue = a /\ q.flight = p.flight
  BY ONLY <1>2, p \in Posts DEF Posts
<1>4. /\ DOMAIN q.queue = 1 .. (Len(p.queue) + 1) /\ q.queue[Len(p.queue) + 1] = d
      /\ \A k \in 1 .. Len(p.queue) : q.queue[k] = p.queue[k]
  BY <1>1, <1>3 DEF a
<1>5. \A k \in 1 .. (Len(p.queue) + 1) : k # Len(p.queue) + 1 => k \in 1 .. Len(p.queue)
  BY <1>0
<1> QED
  BY <1>0, <1>3, <1>4, <1>5

\* What is known of the deliveries in p when the jobs are f.
PostKnown(p, f) ==
    /\ Timely => AddressedIn(p, f)
    /\ Tame => StampedIn(p, f) /\ OneCopyIn(p)

\* What a move means for each job.
Passed(p, q, f, mute) ==
    \A j \in Jobs :
        /\ InQueue(q, j) => InQueue(p, j)
        /\ InFlight(q, j) => InFlight(p, j) \/ InQueue(p, j)
        /\ InFlight(p, j) => InFlight(q, j)
        /\ Timely /\ InQueue(p, j) => \/ InQueue(q, j) \/ InFlight(q, j)
                                      \/ f[j].id \in mute \/ f[j].owner \notin live

\* What is queued was born in the session that its owner now has.
QueuedNow(p, f) == Tame => \A j \in Jobs : InQueue(p, j) => f[j].born = epoch[f[j].owner]

LEMMA MoveEffects ==
    ASSUME NEW p \in Posts, NEW q, NEW f, NEW mute, Moved(p, q, mute), PostKnown(p, f),
           QueuedNow(p, f)
    PROVE  q \in Posts /\ PostKnown(q, f) /\ Passed(p, q, f, mute)
<1>0. q \in Posts /\ \A k \in DOMAIN p.queue : p.queue[k].job \in Jobs
  BY PostFields DEF Moved, Deliveries
<1>1. Passed(p, q, f, mute)
  <2> SUFFICES ASSUME NEW j \in Jobs
               PROVE  /\ InQueue(q, j) => InQueue(p, j)
                      /\ InFlight(q, j) => InFlight(p, j) \/ InQueue(p, j)
                      /\ InFlight(p, j) => InFlight(q, j)
                      /\ Timely /\ InQueue(p, j) => \/ InQueue(q, j) \/ InFlight(q, j)
                                                    \/ f[j].id \in mute \/ f[j].owner \notin live
    BY DEF Passed
  <2>1. InQueue(q, j) => InQueue(p, j)
    BY DEF Moved, InQueue, Like
  <2>2. InFlight(q, j) => InFlight(p, j) \/ InQueue(p, j)
    BY DEF Moved, InQueue, InFlight, Like
  <2>3. InFlight(p, j) => InFlight(q, j)
    BY DEF Moved, InFlight
  <2>4. ASSUME Timely, InQueue(p, j)
        PROVE  \/ InQueue(q, j) \/ InFlight(q, j)
               \/ f[j].id \in mute \/ f[j].owner \notin live
    <3>1. PICK m \in DOMAIN p.queue : p.queue[m].job = j
      BY <2>4 DEF InQueue
    <3>2. p.queue[m].id = f[j].id /\ p.queue[m].owner = f[j].owner
      BY <2>4, <3>1 DEF PostKnown, AddressedIn
    <3>3. \/ \E k \in DOMAIN q.queue : Like(q.queue[k], p.queue[m])
          \/ \E d \in q.flight : Like(d, p.queue[m])
          \/ p.queue[m].id \in mute \/ p.queue[m].owner \notin live
      BY DEF Moved
    <3> QED
      BY <3>1, <3>2, <3>3 DEF InQueue, InFlight, Like
  <2> QED
    BY <2>1, <2>2, <2>3, <2>4
<1>2. ASSUME Timely PROVE AddressedIn(q, f)
  <2>0. AddressedIn(p, f)
    BY <1>2 DEF PostKnown
  <2>1. \A k \in DOMAIN q.queue :
          /\ f[q.queue[k].job].st = "settled"
          /\ q.queue[k].id = f[q.queue[k].job].id /\ q.queue[k].owner = f[q.queue[k].job].owner
    <3> TAKE k \in DOMAIN q.queue
    <3>1. PICK m \in DOMAIN p.queue : Like(q.queue[k], p.queue[m])
      BY DEF Moved
    <3> QED
      BY <2>0, <3>1 DEF AddressedIn, Like
  <2>2. \A d \in q.flight :
          /\ f[d.job].st = "settled"
          /\ d.id = f[d.job].id /\ d.owner = f[d.job].owner
    <3> TAKE d \in q.flight
    <3>1. CASE d \in p.flight
      BY <2>0, <3>1 DEF AddressedIn
    <3>2. CASE \E m \in DOMAIN p.queue : Like(d, p.queue[m])
      BY <2>0, <3>2 DEF AddressedIn, Like
    <3> QED
      BY <3>1, <3>2 DEF Moved
  <2> QED
    BY <2>1, <2>2 DEF AddressedIn
<1>3. ASSUME Tame PROVE StampedIn(q, f) /\ OneCopyIn(q)
  <2>0. AddressedIn(p, f) /\ StampedIn(p, f) /\ OneCopyIn(p)
    BY <1>3 DEF PostKnown, Tame
  <2>1. \A d \in q.flight : d.epoch = f[d.job].born
    <3> TAKE d \in q.flight
    <3>1. CASE d \in p.flight
      BY <2>0, <3>1 DEF StampedIn
    <3>2. CASE (\E m \in DOMAIN p.queue : Like(d, p.queue[m])) /\ d.epoch = epoch[d.owner]
      <4>1. PICK m \in DOMAIN p.queue : Like(d, p.queue[m])
        BY <3>2
      <4>2. d.job \in Jobs /\ InQueue(p, d.job) /\ d.owner = f[d.job].owner
        BY <1>0, <2>0, <4>1 DEF InQueue, AddressedIn, Like
      <4> QED
        BY <1>3, <3>2, <4>2 DEF QueuedNow
    <3> QED
      BY <3>1, <3>2 DEF Moved
  <2> QED
    BY <2>0, <2>1 DEF StampedIn, Moved
<1> QED
  BY <1>0, <1>1, <1>2, <1>3 DEF PostKnown

\* A job whose result is on its way is settled; it keeps its id, its owner and its session.
Follows(f, g) ==
    \A j \in Jobs : f[j].st = "settled" =>
        /\ g[j].st = "settled" /\ g[j].id = f[j].id
        /\ g[j].owner = f[j].owner /\ g[j].born = f[j].born

LEMMA FollowsKnown ==
    ASSUME NEW p \in Posts, NEW f, NEW g, PostKnown(p, f), Follows(f, g)
    PROVE  PostKnown(p, g)
<1>1. /\ \A k \in DOMAIN p.queue : p.queue[k].job \in Jobs
      /\ \A d \in p.flight : d.job \in Jobs
  BY PostFields DEF Deliveries, Flights
<1> QED
  BY <1>1 DEF PostKnown, Follows, AddressedIn, StampedIn, Tame

\* The parts of the invariant that speak of the deliveries.
LEMMA PostParts ==
    ASSUME IInv
    PROVE  /\ post \in Posts /\ Sinks /\ PostKnown(post, job) /\ QueuedNow(post, job)
<1>1. post \in Posts /\ Sinks
  BY DEF IInv, Fields, Sinks
<1>2. PostKnown(post, job)
  BY DEF IInv, Addressed, Stamped, OneCopy, PostKnown
<1>3. QueuedNow(post, job)
  BY DEF IInv, Stamped, QueuedNow, Current
<1> QED
  BY <1>1, <1>2, <1>3

\* What an awaited job has: its row, its session, and someone who owes a muted result.
LEMMA AwaitedKnown ==
    ASSUME IInv, Tame, NEW j \in Jobs, Awaited(j)
    PROVE  /\ HasRow(j) /\ job[j].id \in Ids /\ job[j].owner \in live
           /\ Current(j) /\ ~disposed /\ job[j].st \in {"running", "settled"} /\ ~Over(j)
           /\ ~job[j].told /\ ~job[j].missed
           /\ job[j].id \in muted => job[j].fg
           /\ job[j].id \in watched => \E o \in Owners : hub[o].pc = "waiting" /\ Owes(o, j)
           /\ job[j].st = "settled" => Copied(j) \/ job[j].fg \/ \E o \in Owners : Owes(o, j)
<1>1. job[j].st \in {"running", "settled"} /\ ~Over(j) /\ ~job[j].told /\ ~job[j].missed
  BY DEF Awaited
<1>2. HasRow(j)
  BY <1>1 DEF IInv, RunningKnown, NothingLost, Tame
<1>3. job[j].id \in Ids /\ job[j].owner \in live
  BY <1>1 DEF IInv, JobsKnown
<1>4. Current(j) /\ ~disposed
  BY <1>1 DEF Over, Current
<1>5. /\ job[j].id \in muted => job[j].fg
      /\ job[j].id \in watched => \E o \in Owners : hub[o].pc = "waiting" /\ Owes(o, j)
  BY DEF IInv, SuppressedKnown
<1>6. job[j].st = "settled" => Copied(j) \/ job[j].fg \/ \E o \in Owners : Owes(o, j)
  BY DEF IInv, NothingLost
<1> QED
  BY <1>1, <1>2, <1>3, <1>4, <1>5, <1>6

\* A job whose result is on its way is finished, and has its row while its session lives.
LEMMA CopiedKnown ==
    ASSUME IInv, Timely, NEW j \in Jobs, Copied(j)
    PROVE  /\ job[j].st = "settled" /\ job[j].id \in Ids
           /\ Tame /\ Current(j) /\ job[j].owner \in live => HasRow(j)
<1>1. job[j].st = "settled"
  BY DEF IInv, Addressed, AddressedIn, Copied, InQueue, InFlight, Yielded
<1>2. job[j].id \in Ids
  BY <1>1 DEF IInv, JobsKnown
<1>3. Tame /\ Current(j) /\ job[j].owner \in live => HasRow(j)
  BY DEF IInv, Stamped, Copied
<1> QED
  BY <1>1, <1>2, <1>3

\* A waiting foreground call mutes its job's result, which is not on its way.
LEMMA ForegroundHas ==
    ASSUME IInv, Tame, NEW j \in Jobs, job[j].fg
    PROVE  /\ MaxEpoch = 0 /\ HasRow(j) /\ job[j].id \in Ids /\ job[j].id \in muted
           /\ ~Copied(j) /\ job[j].st # "new"
BY DEF IInv, ForegroundKnown, JobsKnown

LEMMA JobFields ==
    ASSUME IInv
    PROVE  /\ job \in [Jobs -> JobRecs]
           /\ \A j \in Jobs :
                /\ job[j].st \in {"new", "running", "settled", "cancelled"}
                /\ job[j].id \in Ids \cup {None} /\ job[j].owner \in Owners \cup {None}
                /\ job[j].born \in 0 .. MaxEpoch
                /\ job[j].live \in BOOLEAN /\ job[j].fg \in BOOLEAN
                /\ job[j].told \in BOOLEAN /\ job[j].missed \in BOOLEAN
                /\ job[j].queued \in BOOLEAN
<1>1. job \in [Jobs -> JobRecs]
  BY DEF IInv, Fields
<1>2. \A r \in JobRecs :
        /\ r.st \in {"new", "running", "settled", "cancelled"}
        /\ r.id \in Ids \cup {None} /\ r.owner \in Owners \cup {None}
        /\ r.born \in 0 .. MaxEpoch
        /\ r.live \in BOOLEAN /\ r.fg \in BOOLEAN
        /\ r.told \in BOOLEAN /\ r.missed \in BOOLEAN /\ r.queued \in BOOLEAN
  BY DEF JobRecs
<1> QED
  BY <1>1, <1>2

\* Every row of a job is under its own id.
LEMMA RowFields ==
    ASSUME IInv
    PROVE  /\ row \in [Ids -> Jobs \cup {None}]
           /\ \A i \in Ids : row[i] # None => row[i] \in Jobs /\ job[row[i]].id = i
                                              /\ job[row[i]].st # "new"
           /\ \A j \in Rows : j \in Jobs /\ job[j].id \in Ids /\ HasRow(j) /\ job[j].st # "new"
           /\ \A j \in Jobs : job[j].id \in Ids /\ HasRow(j) => j \in Rows
<1>1. row \in [Ids -> Jobs \cup {None}]
  BY DEF IInv, Fields
<1>2. \A i \in Ids : row[i] # None => row[i] \in Jobs /\ job[row[i]].id = i /\ job[row[i]].st # "new"
  <2>1. \A i \in Ids : row[i] # None => row[i] \in Jobs /\ job[row[i]].id = i
    BY <1>1 DEF IInv, RowsKnown
  <2> QED
    BY <2>1, NoneAssumption DEF IInv, JobsKnown
<1>3. \A j \in Rows : j \in Jobs /\ job[j].id \in Ids /\ HasRow(j) /\ job[j].st # "new"
  BY <1>2 DEF Rows, HasRow
<1>4. \A j \in Jobs : job[j].id \in Ids /\ HasRow(j) => j \in Rows
  BY NoneAssumption DEF Rows, HasRow
<1> QED
  BY <1>1, <1>2, <1>3, <1>4

LEMMA QueuedStill ==
    ASSUME IInv, NEW f, Follows(job, f)
    PROVE  PostKnown(post, f) /\ QueuedNow(post, f)
<1>1. PostKnown(post, f)
  BY PostParts, FollowsKnown
<1>2. ASSUME Tame, NEW j \in Jobs, InQueue(post, j) PROVE f[j].born = epoch[f[j].owner]
  <2>1. job[j].st = "settled"
    BY <1>2, CopiedKnown DEF Copied, Tame
  <2>2. job[j].born = epoch[job[j].owner]
    BY <1>2, PostParts DEF QueuedNow
  <2> QED
    BY <2>1, <2>2 DEF Follows
<1> QED
  BY <1>1, <1>2 DEF QueuedNow

\* What enqueueing the result of j under id i makes of p.
Joined(p, q, f, j, i, mute) ==
    /\ q \in Posts /\ PostKnown(q, f)
    /\ \A k \in Jobs :
          /\ InQueue(q, k) => InQueue(p, k) \/ (k = j /\ i \notin mute)
          /\ InFlight(q, k) => InFlight(p, k) \/ InQueue(p, k) \/ (k = j /\ i \notin mute)
          /\ InFlight(p, k) => InFlight(q, k)
          /\ Timely /\ InQueue(p, k) => \/ InQueue(q, k) \/ InFlight(q, k)
                                        \/ f[k].id \in mute \/ f[k].owner \notin live
    /\ Timely /\ i \notin mute => \/ InQueue(q, j) \/ InFlight(q, j)
                                  \/ f[j].owner \notin live

\* A fresh copy of a result that is not on its way.
LEMMA AppendEffects ==
    ASSUME NEW p \in Posts, Sinks, NEW q, NEW f, NEW mute, NEW d \in Deliveries,
           q = EnsureLoop([p EXCEPT !.queue = Append(@, d)], mute),
           PostKnown(p, f), QueuedNow(p, f), d.id \notin mute,
           Timely => f[d.job].st = "settled" /\ f[d.job].id = d.id /\ f[d.job].owner = d.owner,
           Tame => /\ ~InQueue(p, d.job) /\ ~InFlight(p, d.job)
                   /\ f[d.job].born = epoch[f[d.job].owner]
    PROVE  Joined(p, q, f, d.job, d.id, mute)
<1> DEFINE r == [p EXCEPT !.queue = Append(@, d)]
           n == Len(p.queue) + 1
           j == d.job
<1>0. d.job \in Jobs
  BY DEF Deliveries
<1>1. /\ r \in Posts /\ r.flight = p.flight /\ n \in DOMAIN r.queue /\ r.queue[n] = d
      /\ DOMAIN p.queue \subseteq DOMAIN r.queue
      /\ \A k \in DOMAIN r.queue : k # n => k \in DOMAIN p.queue /\ r.queue[k] = p.queue[k]
  BY Appended
<1>2. n \notin DOMAIN p.queue
  BY PostFields
<1>3. q = EnsureLoop(r, mute)
  OBVIOUS
<1> HIDE DEF r, n
<1>4. \A k \in Jobs : /\ InFlight(r, k) <=> InFlight(p, k)
                      /\ InQueue(r, k) <=> InQueue(p, k) \/ k = d.job
  BY <1>1, <1>2 DEF InFlight, InQueue
<1>5. Timely => AddressedIn(r, f)
  BY <1>1 DEF PostKnown, AddressedIn
<1>6. Tame => StampedIn(r, f) /\ OneCopyIn(r)
  <2> SUFFICES ASSUME Tame PROVE StampedIn(r, f) /\ OneCopyIn(r)
    OBVIOUS
  <2>0. StampedIn(p, f) /\ OneCopyIn(p) /\ ~InQueue(p, d.job) /\ ~InFlight(p, d.job)
    BY DEF PostKnown
  <2>1. StampedIn(r, f)
    BY <1>1, <2>0 DEF StampedIn
  <2>2. \A k \in DOMAIN p.queue : p.queue[k].job # d.job
    BY <2>0 DEF InQueue
  <2>3. \A k, m \in DOMAIN r.queue : r.queue[k].job = r.queue[m].job => k = m
    <3> TAKE k, m \in DOMAIN r.queue
    <3>1. CASE k = n
      BY <1>1, <2>2, <3>1
    <3>2. CASE m = n
      BY <1>1, <2>2, <3>2
    <3>3. CASE k # n /\ m # n
      BY <1>1, <2>0, <3>3 DEF OneCopyIn
    <3> QED
      BY <3>1, <3>2, <3>3
  <2>4. \A k \in Jobs : ~(InQueue(r, k) /\ InFlight(r, k))
    BY <1>4, <2>0 DEF OneCopyIn
  <2>5. \A c, e \in r.flight : c.job = e.job => c = e
    BY <1>1, <2>0 DEF OneCopyIn
  <2> QED
    BY <2>1, <2>3, <2>4, <2>5 DEF OneCopyIn
<1>7. QueuedNow(r, f)
  BY <1>4 DEF QueuedNow
<1>8. Moved(r, q, mute)
  BY <1>1, <1>3, EnsureMoves
<1>9. q \in Posts /\ PostKnown(q, f) /\ Passed(r, q, f, mute)
  BY <1>1, <1>5, <1>6, <1>7, <1>8, MoveEffects DEF PostKnown
<1>10. \A k \in Jobs :
          /\ InQueue(q, k) => InQueue(p, k) \/ (k = d.job /\ d.id \notin mute)
          /\ InFlight(q, k) => InFlight(p, k) \/ InQueue(p, k) \/ (k = d.job /\ d.id \notin mute)
          /\ InFlight(p, k) => InFlight(q, k)
          /\ Timely /\ InQueue(p, k) => \/ InQueue(q, k) \/ InFlight(q, k)
                                        \/ f[k].id \in mute \/ f[k].owner \notin live
  BY <1>4, <1>9 DEF Passed
<1>11. Timely => \/ InQueue(q, d.job) \/ InFlight(q, d.job)
                 \/ f[d.job].owner \notin live
  BY <1>0, <1>4, <1>9 DEF Passed
<1> QED
  BY <1>9, <1>10, <1>11 DEF Joined

LEMMA EnqueueEffects ==
    ASSUME IInv, NEW j \in Jobs, NEW f, NEW i \in Ids, NEW mute, Follows(job, f),
           f[j].st = "settled", f[j].id = i, Timely => OwnerAt(i) = f[j].owner,
           Tame /\ i \notin mute => /\ ~InQueue(post, j) /\ ~InFlight(post, j)
                                    /\ f[j].born = epoch[f[j].owner]
    PROVE  Joined(post, Enqueue(post, j, i, mute), f, j, i, mute)
<1>0. post \in Posts /\ Sinks /\ PostKnown(post, f) /\ QueuedNow(post, f)
  BY PostParts, QueuedStill
<1>1. CASE i \in mute
  <2>1. Enqueue(post, j, i, mute) = post
    BY <1>1 DEF Enqueue
  <2> QED
    BY <1>0, <1>1, <2>1 DEF Joined
<1>2. CASE i \notin mute
  <2> DEFINE d == [job |-> j, id |-> i, owner |-> OwnerAt(i), attempt |-> 0, due |-> TRUE]
             q == Enqueue(post, j, i, mute)
  <2>1. OwnerAt(i) \in Owners \cup {None}
    BY JobFields, RowFields DEF OwnerAt
  <2>2. d \in Deliveries /\ d.job = j /\ d.id = i /\ d.owner = OwnerAt(i)
    BY ONLY <2>1, j \in Jobs, i \in Ids, BoundsAssumption DEF Deliveries
  <2>3. q = EnsureLoop([post EXCEPT !.queue = Append(@, d)], mute)
    BY <1>2 DEF Enqueue
  <2> HIDE DEF d, q
  <2>4. Joined(post, q, f, d.job, d.id, mute)
    BY <1>0, <1>2, <2>2, <2>3, AppendEffects
  <2> QED
    BY <2>2, <2>4 DEF q
<1> QED
  BY <1>1, <1>2

\* Where sessions never change, none is over.
LEMMA NeverOver ==
    ASSUME IInv, MaxEpoch = 0, NEW j \in Jobs, job[j].st # "new"
    PROVE  Current(j) /\ ~Over(j) /\ ~disposed /\ job[j].owner \in live
<1>1. job[j].owner \in Owners
  BY DEF IInv, JobsKnown
<1>2. epoch[job[j].owner] \in 0 .. 0 /\ job[j].born \in 0 .. 0
  BY <1>1, JobFields DEF IInv, Fields
<1>3. ~disposed
  BY DEF IInv, RowsKnown
<1>4. Current(j) /\ ~Over(j)
  BY <1>2, <1>3 DEF Current, Over
<1> QED
  BY <1>3, <1>4 DEF IInv, JobsKnown

\* A sink call is over, and its delivery is not in flight any more.
LEMMA FlightEnds ==
    ASSUME IInv, NEW d \in post.flight, NEW p \in Posts,
           p.queue = post.queue, p.flight = post.flight \ {d}
    PROVE  /\ d \in Flights /\ d.job \in Jobs /\ d.id \in Ids /\ d.owner \in Owners
           /\ d.attempt \in 0 .. MaxAttempts
           /\ \A k \in Jobs :
                 /\ InQueue(p, k) <=> InQueue(post, k)
                 /\ InFlight(p, k) => InFlight(post, k)
                 /\ InFlight(post, k) /\ k # d.job => InFlight(p, k)
           /\ InFlight(post, d.job)
           /\ Tame => d.epoch = job[d.job].born /\ ~InFlight(p, d.job) /\ ~InQueue(p, d.job)
           /\ PostKnown(p, job) /\ QueuedNow(p, job)
           /\ Timely => job[d.job].st = "settled" /\ d.id = job[d.job].id
                        /\ d.owner = job[d.job].owner
<1>1. d \in Flights /\ d.job \in Jobs /\ d.id \in Ids /\ d.owner \in Owners
      /\ d.attempt \in 0 .. MaxAttempts
  <2>1. d \in Flights
    BY PostParts, PostFields
  <2> QED
    BY <2>1 DEF Flights
<1>2. /\ \A k \in Jobs :
            /\ InQueue(p, k) <=> InQueue(post, k)
            /\ InFlight(p, k) => InFlight(post, k)
            /\ InFlight(post, k) /\ k # d.job => InFlight(p, k)
      /\ InFlight(post, d.job)
  BY DEF InQueue, InFlight
<1>3. PostKnown(post, job) /\ QueuedNow(post, job)
  BY PostParts
<1>4. OneCopyIn(post) => OneCopyIn(p) /\ ~InFlight(p, d.job) /\ ~InQueue(p, d.job)
  BY <1>1, <1>2 DEF OneCopyIn, InFlight
<1>5. PostKnown(p, job)
  BY <1>3, <1>4 DEF PostKnown, AddressedIn, StampedIn
<1>6. QueuedNow(p, job)
  BY <1>2, <1>3 DEF QueuedNow
<1>7. Tame => d.epoch = job[d.job].born /\ OneCopyIn(post)
  BY <1>3 DEF PostKnown, StampedIn
<1>8. Timely => job[d.job].st = "settled" /\ d.id = job[d.job].id /\ d.owner = job[d.job].owner
  BY <1>3 DEF PostKnown, AddressedIn
<1> QED
  BY <1>1, <1>2, <1>4, <1>5, <1>6, <1>7, <1>8

\* A move is the simplest way of joining: nothing new.
LEMMA JoinedNothing ==
    ASSUME NEW p \in Posts, NEW q, NEW f, NEW j, NEW i, NEW mute, i \in mute,
           Moved(p, q, mute), PostKnown(p, f), QueuedNow(p, f)
    PROVE  Joined(p, q, f, j, i, mute)
BY MoveEffects DEF Joined, Passed

-----------------------------------------------------------------------------
(* The steps.                                                              *)

\* What a step may do to a job: its session stays over, its status moves forward, and it
\* is told only once it is settled, and only to the session that started it.
JobSteps ==
    Tame => \A j \in Jobs :
        /\ Over(j) => Over(j)'
        /\ job'[j].st # job[j].st =>
              \/ job[j].st = "new" /\ job'[j].st = "running"
              \/ job[j].st = "running" /\ job'[j].st = "cancelled"
              \/ job[j].st = "running" /\ job'[j].st = "settled" /\ ~Over(j)'
        /\ job[j].told => job'[j].told
        /\ job'[j].told /\ ~job[j].told => job[j].st = "settled" /\ ~Over(j)

\* Deliveries that only move disturb nothing: a muted result is owed by whoever muted it.
LEMMA PostStep ==
    ASSUME IInv, Moved(post, post', Suppressed),
           UNCHANGED <<jobVars, muteVars, sessionVars, hub, reap, disposed, repeated>>
    PROVE  IInv' /\ JobSteps
<1>u. UNCHANGED <<job, row, timers, muted, watched, live, epoch, yielded, hub, reap, disposed,
                repeated>>
  BY DEF jobVars, muteVars, sessionVars
<1>p. post' \in Posts /\ PostKnown(post', job) /\ Passed(post, post', job, Suppressed)
  BY PostParts, MoveEffects
<1>1. Fields'
  BY <1>u, <1>p DEF IInv, Fields
<1>2. (JobsKnown /\ RowsKnown /\ RunningKnown /\ NeverRepeated /\ ReapKnown /\ SuppressedKnown)'
  BY <1>u DEF IInv, JobsKnown, RowsKnown, RunningKnown, NeverRepeated, ReapKnown, SuppressedKnown,
     Over, HasRow, Awaited, Owes
<1>3. Addressed'
  BY <1>u, <1>p DEF IInv, Addressed, PostKnown
<1>4. Stamped'
  <2> SUFFICES ASSUME Tame PROVE Stamped'
    BY DEF Stamped
  <2>1. StampedIn(post', job')
    BY <1>u, <1>p DEF PostKnown
  <2>2. \A j \in Jobs : InQueue(post', j) => HasRow(j)' /\ Current(j)'
    BY <1>u, <1>p DEF IInv, Stamped, Passed, HasRow, Current
  <2>3. \A j \in Jobs : (InFlight(post', j) \/ Yielded(j)') /\ Current(j)' /\ job'[j].owner \in live'
                           => HasRow(j)'
    BY <1>u, <1>p DEF IInv, Stamped, Passed, HasRow, Current, Yielded
  <2>4. \A o \in Owners : \A e \in yielded'[o] : e.epoch = epoch'[o] /\ Current(e.job)'
    BY <1>u DEF IInv, Stamped, Current
  <2> QED
    BY <2>1, <2>2, <2>3, <2>4 DEF Stamped
<1>5. OneCopy'
  BY <1>u, <1>p DEF IInv, OneCopy, PostKnown, Passed, Yielded
<1>6. ForegroundKnown'
  BY <1>u, <1>p DEF IInv, ForegroundKnown, Passed, Copied, Yielded, HasRow
<1>7. NothingLost'
  <2> SUFFICES ASSUME Tame, NEW j \in Jobs, Awaited(j)', job'[j].st = "settled"
               PROVE  HasRow(j)' /\ (Copied(j) \/ job[j].fg \/ \E o \in Owners : Owes(o, j))'
    BY DEF NothingLost
  <2>1. Awaited(j) /\ job[j].st = "settled"
    BY <1>u DEF Awaited, Over
  <2>2. HasRow(j) /\ (Copied(j) \/ job[j].fg \/ \E o \in Owners : Owes(o, j))
    BY <2>1 DEF IInv, NothingLost
  <2>3. job[j].owner \in live
    BY <2>1 DEF IInv, JobsKnown, Awaited
  <2>4. job[j].id \in Suppressed => job[j].fg \/ \E o \in Owners : Owes(o, j)
    BY <2>1 DEF IInv, SuppressedKnown, Suppressed
  <2>5. Timely
    BY DEF Tame
  <2> QED
    BY <1>u, <1>p, <2>2, <2>3, <2>4, <2>5 DEF Passed, Copied, Yielded, Owes, HasRow
<1>8. ToldKnown'
  BY <1>u, <1>p DEF IInv, ToldKnown, Passed, Copied, Yielded, Current
<1>9. JobSteps
  BY <1>u DEF JobSteps, Over
<1> QED
  BY <1>1, <1>2, <1>3, <1>4, <1>5, <1>6, <1>7, <1>8, <1>9 DEF IInv

LEMMA LoopKeeps ==
    ASSUME IInv, LoopWakes \/ LoopContinues \/ LoopEnds \/ \E o \in Owners : DeliverFiltered(o)
    PROVE  IInv' /\ JobSteps
<1>0. post \in Posts /\ Sinks
  BY PostParts
<1>1. CASE LoopWakes
  <2> DEFINE due == [k \in DOMAIN post.queue |->
                        IF post.queue[k].job = post.at THEN [post.queue[k] EXCEPT !.due = TRUE]
                                                       ELSE post.queue[k]]
             q == [post EXCEPT !.queue = due]
  <2>1. q \in Posts /\ Moved(post, q, Suppressed)
    BY <1>0, WakeMoves
  <2>2. post' = RunLoop(q, Suppressed)
    BY <1>1 DEF LoopWakes
  <2> HIDE DEF q
  <2>3. Moved(post, post', Suppressed)
    BY <1>0, <2>1, <2>2, RunLoopMoves, MovesCompose
  <2> QED
    BY <1>1, <2>3, PostStep DEF LoopWakes
<1>2. CASE LoopContinues
  <2>1. Moved(post, post', Suppressed)
    BY <1>0, <1>2, RunLoopMoves DEF LoopContinues
  <2> QED
    BY <1>2, <2>1, PostStep DEF LoopContinues
<1>3. CASE LoopEnds
  <2> DEFINE q == [post EXCEPT !.loop = "none"]
  <2>1. q \in Posts /\ q.queue = post.queue /\ q.flight = post.flight
    BY ONLY <1>0 DEF Posts, Loops
  <2>2. post' = EnsureLoop(q, Suppressed)
    BY <1>3 DEF LoopEnds
  <2> HIDE DEF q
  <2>3. Moved(post, post', Suppressed)
    BY <1>0, <2>1, <2>2, SameMoves, EnsureMoves, MovesCompose
  <2> QED
    BY <1>3, <2>3, PostStep DEF LoopEnds
<1>4. CASE \E o \in Owners : DeliverFiltered(o)
  <2>1. PICK k \in DOMAIN post.queue :
           /\ post' = HandOver(post, k)
           /\ UNCHANGED <<jobVars, muteVars, sessionVars, hub, reap, disposed, repeated>>
    BY <1>4 DEF DeliverFiltered
  <2>2. Moved(post, post', Suppressed)
    BY <1>0, <2>1, HandOverMoves
  <2> QED
    BY <2>1, <2>2, PostStep
<1> QED
  BY <1>1, <1>2, <1>3, <1>4

\* The result that leaves the sink is on the yield queue, unless it is muted or the session
\* is not the one that started the job.
LEMMA SinkResolvesKeeps ==
    ASSUME IInv, NEW d \in post.flight, SinkResolves(d)
    PROVE  IInv' /\ JobSteps
<1>u. UNCHANGED <<job, row, timers, muted, watched, live, epoch, hub, reap, disposed, repeated>>
  BY DEF SinkResolves, jobVars, muteVars, sessionVars
<1>c. PICK p \in Posts : /\ p.queue = post.queue /\ p.flight = post.flight \ {d}
                           /\ post' = EnsureLoop(p, Suppressed)
  <2> DEFINE p == [post EXCEPT !.flight = post.flight \ {d}]
  <2>1. post \in Posts
    BY PostParts
  <2>2. p \in Posts /\ p.queue = post.queue /\ p.flight = post.flight \ {d}
    BY ONLY <2>1 DEF Posts
  <2>3. post' = EnsureLoop(p, Suppressed)
    BY DEF SinkResolves
  <2> QED
    BY <2>2, <2>3
<1>d. /\ d \in Flights /\ d.job \in Jobs /\ d.id \in Ids /\ d.owner \in Owners
      /\ \A k \in Jobs :
            /\ InQueue(p, k) <=> InQueue(post, k)
            /\ InFlight(p, k) => InFlight(post, k)
            /\ InFlight(post, k) /\ k # d.job => InFlight(p, k)
      /\ InFlight(post, d.job)
      /\ Tame => d.epoch = job[d.job].born /\ ~InFlight(p, d.job) /\ ~InQueue(p, d.job)
      /\ PostKnown(p, job) /\ QueuedNow(p, job)
      /\ Timely => job[d.job].st = "settled" /\ d.id = job[d.job].id
                   /\ d.owner = job[d.job].owner
  BY <1>c, FlightEnds
<1>b. /\ yielded' \in [Owners -> SUBSET Entries]
      /\ \A o \in Owners : /\ yielded[o] \subseteq yielded'[o]
                           /\ \A e \in yielded'[o] : \/ e \in yielded[o]
                                                     \/ e = Entry(d) /\ o = d.owner /\ Accepted(d)
      /\ Accepted(d) => Entry(d) \in yielded'[d.owner]
  <2>1. Entry(d) \in Entries
    BY <1>d DEF Flights, Entry, Entries
  <2> QED
    BY <1>d, <2>1 DEF SinkResolves, IInv, Fields
<1>f. post' \in Posts /\ PostKnown(post', job) /\ Passed(p, post', job, Suppressed)
  BY <1>c, <1>d, EnsureMoves, MoveEffects, PostParts
<1>g. \A k \in Jobs :
         /\ InQueue(post', k) => InQueue(post, k)
         /\ InFlight(post', k) => InFlight(post, k) \/ InQueue(post, k)
         /\ Yielded(k)' => Yielded(k) \/ InFlight(post, k)
  <2>1. \A k \in Jobs :
           /\ InQueue(post', k) => InQueue(post, k)
           /\ InFlight(post', k) => InFlight(post, k) \/ InQueue(post, k)
    BY <1>d, <1>f DEF Passed
  <2>2. \A k \in Jobs : Yielded(k)' => Yielded(k) \/ InFlight(post, k)
    BY <1>b, <1>d DEF Yielded, Entry
  <2> QED
    BY <2>1, <2>2
<1>1. (JobsKnown /\ RowsKnown /\ RunningKnown /\ SuppressedKnown /\ NeverRepeated /\ ReapKnown)'
  BY <1>u DEF IInv, JobsKnown, Over, RowsKnown, RunningKnown, HasRow, SuppressedKnown, Awaited,
     Owes, NeverRepeated, ReapKnown
<1>2. Fields'
  BY <1>u, <1>b, <1>f DEF IInv, Fields
<1>3. Addressed'
  BY <1>u, <1>b, <1>d, <1>f DEF IInv, Addressed, PostKnown, Entry
<1>4. Stamped'
  <2> SUFFICES ASSUME Tame PROVE Stamped'
    BY DEF Stamped
  <2>0. StampedIn(post', job')
    BY <1>u, <1>f DEF PostKnown
  <2>1. \A o2 \in Owners : \A e \in yielded'[o2] : e.epoch = epoch'[o2] /\ Current(e.job)'
    BY <1>u, <1>b, <1>d DEF IInv, Stamped, Current, Accepted, Entry, Tame
  <2>2. \A k \in Jobs : InQueue(post', k) => HasRow(k)' /\ Current(k)'
    BY <1>u, <1>g DEF IInv, Stamped, HasRow, Current
  <2>3. \A k \in Jobs : (InFlight(post', k) \/ Yielded(k)') /\ Current(k)' /\ job'[k].owner \in live'
                           => HasRow(k)'
    BY <1>u, <1>g DEF IInv, Stamped, HasRow, Current
  <2> QED
    BY <2>0, <2>1, <2>2, <2>3 DEF Stamped
<1>5. OneCopy'
  <2> SUFFICES ASSUME Tame PROVE OneCopyIn(post') /\ \A k \in Jobs : Yielded(k)' => ~InQueue(post', k) /\ ~InFlight(post', k)
    BY DEF OneCopy
  <2>1. OneCopyIn(post')
    BY <1>f DEF PostKnown
  <2>2. ASSUME NEW k \in Jobs, Yielded(k)' PROVE ~InQueue(post', k) /\ ~InFlight(post', k)
    <3>1. CASE k = d.job
      BY <1>d, <1>f, <3>1 DEF Passed
    <3>2. CASE k # d.job
      <4>1. Yielded(k)
        BY <1>b, <2>2, <3>2 DEF Yielded, Entry
      <4> QED
        BY <1>g, <4>1 DEF IInv, OneCopy
    <3> QED
      BY <3>1, <3>2
  <2> QED
    BY <2>1, <2>2
<1>6. ForegroundKnown'
  BY <1>u, <1>g DEF IInv, ForegroundKnown, HasRow, Copied
<1>7. NothingLost'
  <2> SUFFICES ASSUME Tame, NEW k \in Jobs, Awaited(k)', job'[k].st = "settled"
               PROVE  HasRow(k)' /\ (Copied(k) \/ job[k].fg \/ \E o2 \in Owners : Owes(o2, k))'
    BY DEF NothingLost
  <2>1. Awaited(k) /\ job[k].st = "settled"
    BY <1>u DEF Awaited, Over
  <2>2. /\ HasRow(k) /\ Current(k) /\ job[k].owner \in live
        /\ job[k].id \in muted => job[k].fg
        /\ job[k].id \in watched => \E o \in Owners : Owes(o, k)
        /\ Copied(k) \/ job[k].fg \/ \E o \in Owners : Owes(o, k)
    BY <2>1, AwaitedKnown
  <2>3. CASE job[k].fg \/ \E o \in Owners : Owes(o, k)
    BY <1>u, <2>2, <2>3 DEF HasRow, Owes
  <2>4. CASE job[k].id \notin Suppressed /\ Copied(k)
    <3>1. CASE Yielded(k)
      BY <1>u, <1>b, <2>2, <3>1 DEF Yielded, Copied, HasRow
    <3>2. CASE k = d.job
      <4>1. Accepted(d)
        BY <1>d, <2>2, <2>4, <3>2 DEF Accepted, Current, Tame
      <4> QED
        BY <1>u, <1>b, <1>d, <2>2, <3>2, <4>1 DEF Yielded, Copied, HasRow, Entry
    <3>3. CASE k # d.job /\ (InQueue(post, k) \/ InFlight(post, k))
      BY <1>u, <1>d, <1>f, <2>2, <2>4, <3>3 DEF Passed, Copied, HasRow, Tame
    <3> QED
      BY <2>4, <3>1, <3>2, <3>3 DEF Copied
  <2> QED
    BY <2>2, <2>3, <2>4 DEF Suppressed
<1>8. ToldKnown'
  BY <1>u, <1>g DEF IInv, ToldKnown, Copied, Current
<1>9. JobSteps
  BY <1>u DEF JobSteps, Over
<1> QED
  BY <1>1, <1>2, <1>3, <1>4, <1>5, <1>6, <1>7, <1>8, <1>9 DEF IInv

\* The result that a sink refused is queued again, unless it is muted.
LEMMA SinkRejectsKeeps ==
    ASSUME IInv, NEW d \in post.flight, SinkRejects(d)
    PROVE  IInv' /\ JobSteps
<1>u. UNCHANGED <<job, row, timers, muted, watched, live, epoch, yielded, hub, reap, disposed,
                repeated>>
  BY DEF SinkRejects, jobVars, muteVars, sessionVars
<1>a. PICK p \in Posts :
         /\ p.queue = post.queue /\ p.flight = post.flight \ {d}
         /\ d.id \in Suppressed => post' = EnsureLoop(p, Suppressed)
         /\ d.id \notin Suppressed =>
               post' = EnsureLoop([p EXCEPT !.queue = Append(@,
                          [job |-> d.job, id |-> d.id, owner |-> d.owner,
                           attempt |-> d.attempt + 1, due |-> FALSE])], Suppressed)
  <2> DEFINE p == [post EXCEPT !.flight = post.flight \ {d}]
             a == [job |-> d.job, id |-> d.id, owner |-> d.owner,
                   attempt |-> d.attempt + 1, due |-> FALSE]
             s == [post EXCEPT !.flight = post.flight \ {d}, !.queue = post.queue]
  <2>1. post \in Posts
    BY PostParts
  <2>2. p \in Posts /\ p.queue = post.queue /\ p.flight = post.flight \ {d} /\ s = p
    BY ONLY <2>1 DEF Posts
  <2>3. d.id \in Suppressed => post' = EnsureLoop(s, Suppressed)
    BY DEF SinkRejects
  <2>4. d.id \notin Suppressed =>
           post' = EnsureLoop([post EXCEPT !.flight = post.flight \ {d},
                                           !.queue = Append(post.queue, a)], Suppressed)
    BY DEF SinkRejects
  <2> HIDE DEF a
  <2>5. [post EXCEPT !.flight = post.flight \ {d}, !.queue = Append(post.queue, a)]
        = [p EXCEPT !.queue = Append(@, a)]
    BY <2>2
  <2> HIDE DEF p, s
  <2>6. d.id \in Suppressed => post' = EnsureLoop(p, Suppressed)
    BY <2>2, <2>3
  <2>7. d.id \notin Suppressed => post' = EnsureLoop([p EXCEPT !.queue = Append(@, a)], Suppressed)
    BY <2>4, <2>5
  <2> QED
    BY <2>2, <2>6, <2>7 DEF a
<1>b. /\ d \in Flights /\ d.job \in Jobs /\ d.id \in Ids /\ d.owner \in Owners
      /\ d.attempt \in 0 .. MaxAttempts
      /\ \A k \in Jobs :
            /\ InQueue(p, k) <=> InQueue(post, k)
            /\ InFlight(p, k) => InFlight(post, k)
            /\ InFlight(post, k) /\ k # d.job => InFlight(p, k)
      /\ InFlight(post, d.job)
      /\ Tame => d.epoch = job[d.job].born /\ ~InFlight(p, d.job) /\ ~InQueue(p, d.job)
      /\ PostKnown(p, job) /\ QueuedNow(p, job)
      /\ Timely => job[d.job].st = "settled" /\ d.id = job[d.job].id
                   /\ d.owner = job[d.job].owner
  BY <1>a, FlightEnds
<1>c. d.attempt < MaxAttempts /\ (Tame => MaxEpoch = 0)
  BY <1>b, BoundsAssumption DEF SinkRejects, Tame
<1>d. Tame => Current(d.job) /\ ~Over(d.job) /\ HasRow(d.job)
  <2> SUFFICES ASSUME Tame PROVE Current(d.job) /\ ~Over(d.job) /\ HasRow(d.job)
    OBVIOUS
  <2>1. Current(d.job) /\ ~Over(d.job) /\ job[d.job].owner \in live
    BY <1>b, <1>c, NeverOver DEF Tame
  <2> QED
    BY <1>b, <2>1 DEF IInv, Stamped
<1>e. Joined(p, post', job, d.job, d.id, Suppressed)
  <2>1. CASE d.id \in Suppressed
    <3>1. Moved(p, post', Suppressed)
      BY <1>a, <2>1, EnsureMoves, PostParts
    <3> QED
      BY <1>b, <2>1, <3>1, JoinedNothing
  <2>2. CASE d.id \notin Suppressed
    <3> DEFINE a == [job |-> d.job, id |-> d.id, owner |-> d.owner,
                     attempt |-> d.attempt + 1, due |-> FALSE]
    <3>0. d.attempt + 1 \in 0 .. MaxAttempts
      BY <1>b, <1>c, BoundsAssumption
    <3>1. a \in Deliveries /\ a.job = d.job /\ a.id = d.id /\ a.owner = d.owner
      BY <1>b, <3>0 DEF Deliveries
    <3>2. post' = EnsureLoop([p EXCEPT !.queue = Append(@, a)], Suppressed)
      BY <1>a, <2>2
    <3>3. Tame => job[d.job].born = epoch[job[d.job].owner]
      BY <1>d DEF Current
    <3> HIDE DEF a
    <3>4. Joined(p, post', job, a.job, a.id, Suppressed)
      BY <1>b, <2>2, <3>1, <3>2, <3>3, AppendEffects, PostParts
    <3> QED
      BY <3>1, <3>4
  <2> QED
    BY <2>1, <2>2
<1>f. post' \in Posts /\ PostKnown(post', job)
  BY <1>e DEF Joined
<1>g. \A k \in Jobs :
         /\ InQueue(post', k) => InQueue(post, k) \/ k = d.job
         /\ InFlight(post', k) => InFlight(post, k) \/ InQueue(post, k)
  BY <1>b, <1>e DEF Joined
<1>1. (JobsKnown /\ RowsKnown /\ RunningKnown /\ SuppressedKnown /\ NeverRepeated /\ ReapKnown)'
  BY <1>u DEF IInv, JobsKnown, Over, RowsKnown, RunningKnown, HasRow, SuppressedKnown, Awaited,
     Owes, NeverRepeated, ReapKnown
<1>2. Fields'
  BY <1>u, <1>f DEF IInv, Fields
<1>3. Addressed'
  BY <1>u, <1>f DEF IInv, Addressed, PostKnown
<1>4. Stamped'
  <2> SUFFICES ASSUME Tame PROVE Stamped'
    BY DEF Stamped
  <2>0. StampedIn(post', job')
    BY <1>u, <1>f DEF PostKnown
  <2>1. \A o2 \in Owners : \A e \in yielded'[o2] : e.epoch = epoch'[o2] /\ Current(e.job)'
    BY <1>u DEF IInv, Stamped, Current
  <2>2. \A k \in Jobs : InQueue(post', k) => HasRow(k)' /\ Current(k)'
    BY <1>u, <1>d, <1>g DEF IInv, Stamped, HasRow, Current
  <2>3. \A k \in Jobs : (InFlight(post', k) \/ Yielded(k)') /\ Current(k)' /\ job'[k].owner \in live'
                           => HasRow(k)'
    BY <1>u, <1>g DEF IInv, Stamped, HasRow, Current, Yielded
  <2> QED
    BY <2>0, <2>1, <2>2, <2>3 DEF Stamped
<1>5. OneCopy'
  BY <1>u, <1>b, <1>f, <1>g DEF IInv, OneCopy, Yielded, PostKnown
<1>6. ForegroundKnown'
  BY <1>u, <1>b, <1>g DEF IInv, ForegroundKnown, HasRow, Copied, Yielded
<1>7. NothingLost'
  <2> SUFFICES ASSUME Tame, NEW k \in Jobs, Awaited(k)', job'[k].st = "settled"
               PROVE  HasRow(k)' /\ (Copied(k) \/ job[k].fg \/ \E o2 \in Owners : Owes(o2, k))'
    BY DEF NothingLost
  <2>1. Awaited(k) /\ job[k].st = "settled"
    BY <1>u DEF Awaited, Over
  <2>2. /\ HasRow(k) /\ job[k].owner \in live
        /\ job[k].id \in muted => job[k].fg
        /\ job[k].id \in watched => \E o \in Owners : Owes(o, k)
        /\ Copied(k) \/ job[k].fg \/ \E o \in Owners : Owes(o, k)
    BY <2>1, AwaitedKnown
  <2>3. CASE job[k].fg \/ \E o \in Owners : Owes(o, k)
    BY <1>u, <2>2, <2>3 DEF HasRow, Owes
  <2>4. CASE job[k].id \notin Suppressed /\ Copied(k)
    <3>1. CASE Yielded(k)
      BY <1>u, <2>2, <3>1 DEF Yielded, Copied, HasRow
    <3>2. CASE k = d.job
      BY <1>u, <1>b, <1>e, <2>2, <2>4, <3>2 DEF Joined, Copied, HasRow, Tame
    <3>3. CASE k # d.job /\ (InQueue(post, k) \/ InFlight(post, k))
      BY <1>u, <1>b, <1>e, <2>2, <2>4, <3>3 DEF Joined, Copied, HasRow, Tame
    <3> QED
      BY <2>4, <3>1, <3>2, <3>3 DEF Copied
  <2> QED
    BY <2>2, <2>3, <2>4 DEF Suppressed
<1>8. ToldKnown'
  BY <1>u, <1>b, <1>g DEF IInv, ToldKnown, Copied, Current, Yielded
<1>9. JobSteps
  BY <1>u DEF JobSteps, Over
<1> QED
  BY <1>1, <1>2, <1>3, <1>4, <1>5, <1>6, <1>7, <1>8, <1>9 DEF IInv

\* The id is free: no result under it is on its way, and nobody watches it.
LEMMA RegisterKeeps ==
    ASSUME IInv, NEW o \in Owners, NEW j \in Jobs, NEW i \in Ids, NEW kind \in Kinds,
           Register(o, j, i, kind)
    PROVE  IInv' /\ JobSteps
<1>u. UNCHANGED <<timers, watched, live, epoch, yielded, hub, reap, disposed, repeated>>
  BY DEF Register, jobVars, muteVars, sessionVars
<1>a. /\ ~disposed /\ o \in live /\ job[j].st = "new" /\ row[i] = None
      /\ job[j].id = None /\ ~job[j].fg /\ epoch[o] \in 0 .. MaxEpoch
  BY DEF Register, IInv, JobsKnown, Fields
<1>b. /\ job'[j] \in JobRecs /\ job'[j].st = "running" /\ job'[j].id = i /\ job'[j].owner = o
      /\ job'[j].born = epoch[o] /\ job'[j].live = TRUE /\ job'[j].fg = (kind = "foreground")
      /\ job'[j].told = FALSE /\ job'[j].missed = FALSE
  <2> DEFINE qd == kind = "queued"
             wait == kind = "foreground"
             n == [NewJob EXCEPT !.st = "running", !.id = i, !.owner = o, !.queued = qd,
                        !.born = epoch[o], !.live = TRUE, !.fg = wait]
  <2>1. job' = [job EXCEPT ![j] = n]
    BY DEF Register
  <2>2. qd \in BOOLEAN /\ wait \in BOOLEAN
    OBVIOUS
  <2>3. job'[j] = n
    <3> HIDE DEF n
    <3> QED
      BY <2>1, JobFields
  <2> HIDE DEF qd, wait
  <2>4. /\ n.st = "running" /\ n.id = i /\ n.owner = o /\ n.born = epoch[o] /\ n.live = TRUE
        /\ n.fg = wait /\ n.told = FALSE /\ n.missed = FALSE
    BY ONLY DEF NewJob
  <2>5. n \in JobRecs
    BY ONLY <1>a, <2>2, o \in Owners, i \in Ids DEF NewJob, JobRecs
  <2> QED
    BY <2>3, <2>4, <2>5 DEF wait
<1>c. job' \in [Jobs -> JobRecs] /\ \A k \in Jobs : k # j => job'[k] = job[k]
  <2>1. \E n : job' = [job EXCEPT ![j] = n]
    BY DEF Register
  <2> QED
    BY <1>b, <2>1, JobFields
<1>d. row' \in [Ids -> Jobs \cup {None}] /\ row'[i] = j /\ \A x \in Ids : x # i => row'[x] = row[x]
  BY RowFields DEF Register
<1>e. /\ muted' \subseteq Ids /\ (i \in muted' <=> kind = "foreground")
      /\ \A x : x # i => (x \in muted' <=> x \in muted)
  BY DEF Register, IInv, Fields
<1>f. /\ post' \in Posts /\ PostKnown(post', job')
      /\ Passed(post, post', job', Suppressed \cup {i})
  <2>1. Follows(job, job')
    BY <1>a, <1>c DEF Follows
  <2>2. post \in Posts /\ PostKnown(post, job') /\ QueuedNow(post, job')
    BY <2>1, PostParts, QueuedStill
  <2>3. Moved(post, post', Suppressed \cup {i})
    BY <2>2, SameMoves, DropMoves DEF Register
  <2> QED
    BY <2>2, <2>3, MoveEffects
<1>g. \A k \in Jobs : HasRow(k) /\ job[k].id \in Ids => k # j /\ job[k].id # i /\ HasRow(k)'
                                                      /\ job'[k] = job[k]
  BY <1>a, <1>c, <1>d, NoneAssumption DEF HasRow
<1>1. (NeverRepeated)'
  BY <1>u DEF IInv, NeverRepeated
<1>2. Fields'
  BY <1>u, <1>c, <1>d, <1>e, <1>f DEF IInv, Fields
<1>3. JobsKnown'
  BY <1>u, <1>a, <1>b, <1>c DEF IInv, JobsKnown, Over
<1>4. RowsKnown'
  <2>1. \A x \in Ids : row'[x] # None => job'[row'[x]].id = x
    BY <1>a, <1>b, <1>c, <1>d, RowFields
  <2>2. \A x \in watched' : row'[x] # None
    BY <1>u, <1>d, NoneAssumption DEF IInv, Fields, RowsKnown
  <2>3. \A o2 \in Owners : \A k \in hub[o2].jobs : k \in Jobs
    BY DEF IInv, Fields, Waits
  <2>4. \A o2 \in Owners : \A k \in hub'[o2].jobs : job'[k].st # "new"
    BY <1>u, <1>b, <1>c, <2>3 DEF IInv, RowsKnown
  <2> QED
    BY <1>u, <2>1, <2>2, <2>4 DEF IInv, RowsKnown
<1>5. RunningKnown'
  <2> SUFFICES ASSUME Timely, NEW k \in Jobs
               PROVE  /\ job'[k].st = "running" => HasRow(k)' /\ ~Over(k)'
                      /\ job'[k].told \/ job'[k].missed => job'[k].st = "settled"
    BY DEF RunningKnown
  <2>1. CASE k = j
    BY <1>u, <1>a, <1>b, <1>d, <2>1 DEF HasRow, Over
  <2>2. CASE k # j
    <3>1. job'[k] = job[k] /\ (job[k].st = "running" => job[k].id \in Ids)
      BY <1>c, <2>2 DEF IInv, JobsKnown
    <3>2. /\ job[k].st = "running" => HasRow(k) /\ ~Over(k)
          /\ job[k].told \/ job[k].missed => job[k].st = "settled"
      BY DEF IInv, RunningKnown
    <3> QED
      BY <1>u, <1>g, <3>1, <3>2 DEF Over
  <2> QED
    BY <2>1, <2>2
<1>6. Addressed'
  <2> SUFFICES ASSUME Timely, NEW o2 \in Owners, NEW e \in yielded[o2]
               PROVE  /\ job'[e.job].st = "settled" /\ e.id = job'[e.job].id
                      /\ o2 = job'[e.job].owner
    BY <1>u, <1>f DEF Addressed, PostKnown
  <2>1. e.job \in Jobs
    BY DEF IInv, Fields, Entries
  <2>2. /\ job[e.job].st = "settled" /\ e.id = job[e.job].id /\ o2 = job[e.job].owner
    BY DEF IInv, Addressed
  <2> QED
    BY <1>a, <1>c, <2>1, <2>2
<1>7. Stamped'
  <2> SUFFICES ASSUME Tame PROVE Stamped'
    BY DEF Stamped
  <2>0. StampedIn(post', job')
    BY <1>f DEF PostKnown
  <2>1. \A o2 \in Owners : \A e \in yielded'[o2] : e.epoch = epoch'[o2] /\ Current(e.job)'
    <3> SUFFICES ASSUME NEW o2 \in Owners, NEW e \in yielded[o2]
                 PROVE  e.epoch = epoch[o2] /\ Current(e.job)'
      BY <1>u
    <3>1. e.job \in Jobs /\ Copied(e.job) /\ e.epoch = epoch[o2] /\ Current(e.job)
      BY DEF IInv, Fields, Entries, Stamped, Copied, Yielded
    <3>2. job'[e.job] = job[e.job]
      BY <1>a, <1>c, <3>1, CopiedKnown DEF Tame
    <3> QED
      BY <1>u, <3>1, <3>2 DEF Current
  <2>2. \A k \in Jobs : InQueue(post', k) => HasRow(k)' /\ Current(k)'
    <3> SUFFICES ASSUME NEW k \in Jobs, InQueue(post', k) PROVE HasRow(k)' /\ Current(k)'
      OBVIOUS
    <3>1. InQueue(post, k) /\ Copied(k)
      BY <1>f DEF Passed, Copied
    <3>2. HasRow(k) /\ Current(k) /\ job[k].id \in Ids
      BY <3>1, CopiedKnown DEF IInv, Stamped, Tame
    <3> QED
      BY <1>u, <1>g, <3>2 DEF Current
  <2>3. \A k \in Jobs : (InFlight(post', k) \/ Yielded(k)') /\ Current(k)' /\ job'[k].owner \in live'
                           => HasRow(k)'
    <3> SUFFICES ASSUME NEW k \in Jobs, InFlight(post', k) \/ Yielded(k)', Current(k)',
                        job'[k].owner \in live'
                 PROVE  HasRow(k)'
      OBVIOUS
    <3>1. Copied(k)
      BY <1>u, <1>f DEF Passed, Copied, Yielded
    <3>2. job[k].st = "settled" /\ job[k].id \in Ids
      BY <3>1, CopiedKnown DEF Tame
    <3>3. job'[k] = job[k]
      BY <1>a, <1>c, <3>2
    <3>4. HasRow(k)
      BY <1>u, <3>1, <3>3, CopiedKnown DEF Current, Tame
    <3> QED
      BY <1>g, <3>2, <3>4
  <2> QED
    BY <2>0, <2>1, <2>2, <2>3 DEF Stamped
<1>8. OneCopy'
  BY <1>u, <1>f DEF IInv, OneCopy, Yielded, PostKnown, Passed, Tame
<1>9. ForegroundKnown'
  <2> SUFFICES ASSUME Tame, NEW k \in Jobs, job'[k].fg
               PROVE  MaxEpoch = 0 /\ HasRow(k)' /\ job'[k].id \in muted' /\ ~Copied(k)'
    BY DEF ForegroundKnown
  <2>1. CASE k = j
    <3>1. kind = "foreground" /\ MaxEpoch = 0
      BY <1>b, <2>1 DEF Tame
    <3>2. ~Copied(k)
      BY <1>a, <2>1, CopiedKnown DEF Tame
    <3>3. ~Copied(k)'
      BY <1>u, <1>f, <3>2 DEF Passed, Copied, Yielded
    <3> QED
      BY <1>b, <1>d, <1>e, <2>1, <3>1, <3>3 DEF HasRow
  <2>2. CASE k # j
    <3>1. job[k].fg
      BY <1>c, <2>2
    <3>2. MaxEpoch = 0 /\ HasRow(k) /\ job[k].id \in Ids /\ job[k].id \in muted /\ ~Copied(k)
      BY <3>1, ForegroundHas
    <3>3. ~Copied(k)'
      BY <1>u, <1>f, <3>2 DEF Passed, Copied, Yielded
    <3> QED
      BY <1>e, <1>g, <3>2, <3>3
  <2> QED
    BY <2>1, <2>2
<1>10. SuppressedKnown'
  <2> SUFFICES ASSUME Tame, NEW k \in Jobs, Awaited(k)'
               PROVE  /\ job'[k].id \in muted' => job'[k].fg
                      /\ job'[k].id \in watched' =>
                            \E o2 \in Owners : hub'[o2].pc = "waiting" /\ Owes(o2, k)'
    BY DEF SuppressedKnown
  <2>1. CASE k = j
    BY <1>u, <1>a, <1>b, <1>e, <2>1 DEF IInv, RowsKnown
  <2>2. CASE k # j
    <3>1. Awaited(k)
      BY <1>u, <1>c, <2>2 DEF Awaited, Over
    <3>2. /\ HasRow(k) /\ job[k].id \in Ids
          /\ job[k].id \in muted => job[k].fg
          /\ job[k].id \in watched => \E o2 \in Owners : hub[o2].pc = "waiting" /\ Owes(o2, k)
      BY <3>1, AwaitedKnown
    <3>3. job'[k] = job[k] /\ job[k].id # i
      BY <1>g, <3>2
    <3> QED
      BY <1>u, <1>e, <3>2, <3>3 DEF Owes
  <2> QED
    BY <2>1, <2>2
<1>11. NothingLost'
  <2> SUFFICES ASSUME Tame, NEW k \in Jobs, Awaited(k)', job'[k].st = "settled"
               PROVE  HasRow(k)' /\ (Copied(k) \/ job[k].fg \/ \E o2 \in Owners : Owes(o2, k))'
    BY DEF NothingLost
  <2>1. k # j /\ job'[k] = job[k]
    BY <1>b, <1>c
  <2>2. Awaited(k) /\ job[k].st = "settled"
    BY <1>u, <2>1 DEF Awaited, Over
  <2>3. /\ HasRow(k) /\ job[k].id \in Ids /\ job[k].owner \in live
        /\ job[k].id \in muted => job[k].fg
        /\ job[k].id \in watched => \E o2 \in Owners : Owes(o2, k)
        /\ Copied(k) \/ job[k].fg \/ \E o2 \in Owners : Owes(o2, k)
    BY <2>2, AwaitedKnown
  <2>4. job[k].id # i /\ HasRow(k)'
    BY <1>g, <2>3
  <2>5. Copied(k) => Copied(k)' \/ job[k].id \in Suppressed
    BY <1>u, <1>f, <2>1, <2>3, <2>4 DEF Passed, Copied, Yielded, Tame
  <2> QED
    BY <1>u, <2>1, <2>3, <2>4, <2>5 DEF Owes, Suppressed
<1>12. ToldKnown'
  <2> SUFFICES ASSUME Tame, NEW k \in Jobs, job'[k].told, Copied(k)', Current(k)', job'[k].owner \in live'
               PROVE  job'[k].id \in muted'
    BY DEF ToldKnown
  <2>1. k # j /\ job'[k] = job[k]
    BY <1>b, <1>c
  <2>2. Copied(k) /\ Current(k)
    BY <1>u, <1>f, <2>1 DEF Passed, Copied, Yielded, Current
  <2>3. HasRow(k) /\ job[k].id \in Ids /\ job[k].id \in muted
    BY <1>u, <2>1, <2>2, CopiedKnown DEF IInv, ToldKnown, Tame
  <2> QED
    BY <1>e, <1>g, <2>3
<1>13. ReapKnown'
  <2> SUFFICES ASSUME Timely, MaxEpoch = 0 PROVE ReapKnown'
    BY DEF ReapKnown
  <2>1. \A k \in Jobs : job'[k].live => HasRow(k)'
    <3> TAKE k \in Jobs
    <3>1. CASE k = j
      BY <1>b, <1>d, <3>1 DEF HasRow
    <3>2. CASE k # j
      BY <1>c, <1>g, <3>2 DEF IInv, ReapKnown, JobsKnown
    <3> QED
      BY <3>1, <3>2
  <2>2. \A o2 \in Owners : reap'[o2].pc = "waiting" =>
           \A x \in reap'[o2].ids :
              row'[x] # None /\ (job'[row'[x]].live => row'[x] \in reap'[o2].jobs)
    <3> SUFFICES ASSUME NEW o2 \in Owners, reap[o2].pc = "waiting", NEW x \in reap[o2].ids
                 PROVE  row'[x] # None /\ (job'[row'[x]].live => row'[x] \in reap[o2].jobs)
      BY <1>u
    <3>1. x \in Ids
      BY DEF IInv, Fields, Reaps
    <3>2. row[x] # None /\ (job[row[x]].live => row[x] \in reap[o2].jobs)
      BY DEF IInv, ReapKnown
    <3>3. row'[x] = row[x] /\ row[x] \in Jobs /\ row[x] # j
      BY <1>a, <1>d, <3>1, <3>2, RowFields
    <3> QED
      BY <1>c, <3>2, <3>3
  <2> QED
    BY <2>1, <2>2 DEF ReapKnown
<1>14. JobSteps
  <2> SUFFICES ASSUME Tame, NEW k \in Jobs
               PROVE  /\ Over(k) => Over(k)'
                      /\ job'[k].st # job[k].st =>
                            \/ job[k].st = "new" /\ job'[k].st = "running"
                            \/ job[k].st = "running" /\ job'[k].st = "cancelled"
                            \/ job[k].st = "running" /\ job'[k].st = "settled" /\ ~Over(k)'
                      /\ job[k].told => job'[k].told
                      /\ job'[k].told /\ ~job[k].told => job[k].st = "settled" /\ ~Over(k)
    BY DEF JobSteps
  <2>1. CASE k = j
    BY <1>a, <1>b, <2>1 DEF Over, IInv, RunningKnown, Tame
  <2>2. CASE k # j
    BY <1>u, <1>c, <2>2 DEF Over
  <2> QED
    BY <2>1, <2>2
<1> QED
  BY <1>1, <1>2, <1>3, <1>4, <1>5, <1>6, <1>7, <1>8, <1>9, <1>10, <1>11, <1>12, <1>13, <1>14 DEF
     IInv

\* Whether a job counts as running matters to nothing else.
LEMMA MarkRunningKeeps ==
    ASSUME IInv, NEW j \in Jobs, MarkRunning(j)
    PROVE  IInv' /\ JobSteps
<1>u. UNCHANGED <<row, timers, muted, watched, post, live, epoch, yielded, hub, reap, disposed,
                repeated>>
  BY DEF MarkRunning, jobVars, muteVars, sessionVars
<1>a. job' \in [Jobs -> JobRecs] /\ \A k \in Jobs :
         /\ job'[k].st = job[k].st /\ job'[k].id = job[k].id
         /\ job'[k].owner = job[k].owner /\ job'[k].born = job[k].born
         /\ job'[k].live = job[k].live /\ job'[k].fg = job[k].fg
         /\ job'[k].told = job[k].told /\ job'[k].missed = job[k].missed
  <2> DEFINE n == [job[j] EXCEPT !.queued = FALSE]
  <2>1. job' = [job EXCEPT ![j] = n]
    BY DEF MarkRunning
  <2>2. job[j] \in JobRecs
    BY JobFields
  <2>3. n \in JobRecs /\ n.st = job[j].st /\ n.id = job[j].id /\ n.owner = job[j].owner
        /\ n.born = job[j].born /\ n.live = job[j].live /\ n.fg = job[j].fg
        /\ n.told = job[j].told /\ n.missed = job[j].missed
    BY ONLY <2>2 DEF JobRecs
  <2> HIDE DEF n
  <2>4. job'[j] = n /\ \A k \in Jobs : k # j => job'[k] = job[k]
    BY <2>1, JobFields
  <2>5. job' \in [Jobs -> JobRecs]
    BY <2>1, <2>3, JobFields
  <2> QED
    BY <2>3, <2>4, <2>5
<1>b. /\ PostKnown(post, job') /\ \A o \in Owners : \A e \in yielded[o] : e.job \in Jobs
      /\ \A o \in Owners : \A k \in hub[o].jobs : k \in Jobs
  <2>1. Follows(job, job')
    BY <1>a DEF Follows
  <2> QED
    BY <2>1, QueuedStill DEF IInv, Fields, Entries, Waits
<1>c. \A k \in Jobs : /\ Over(k)' <=> Over(k)
                      /\ Current(k)' <=> Current(k)
                      /\ HasRow(k)' <=> HasRow(k)
                      /\ Awaited(k)' <=> Awaited(k)
                      /\ Copied(k)' <=> Copied(k)
                      /\ \A o \in Owners : Owes(o, k)' <=> Owes(o, k)
  BY <1>u, <1>a DEF Over, Current, HasRow, Awaited, Copied, Yielded, Owes
<1>1. (OneCopy /\ NeverRepeated)'
  BY <1>u DEF IInv, OneCopy, Yielded, NeverRepeated
<1>2. Fields'
  BY <1>u, <1>a DEF IInv, Fields
<1>3. JobsKnown'
  BY <1>u, <1>a, <1>c DEF IInv, JobsKnown
<1>4. RowsKnown'
  BY <1>u, <1>a, <1>b, RowFields DEF IInv, RowsKnown
<1>5. RunningKnown'
  BY <1>a, <1>c DEF IInv, RunningKnown
<1>6. Addressed'
  <2> SUFFICES ASSUME Timely, NEW o2 \in Owners, NEW e \in yielded'[o2]
               PROVE  /\ job'[e.job].st = "settled" /\ e.id = job'[e.job].id
                      /\ o2 = job'[e.job].owner
    BY <1>u, <1>b DEF Addressed, PostKnown
  <2> QED
    BY <1>u, <1>a, <1>b DEF IInv, Addressed
<1>7. Stamped'
  <2> SUFFICES ASSUME Tame PROVE Stamped'
    BY DEF Stamped
  <2>0. StampedIn(post', job')
    BY <1>u, <1>b DEF PostKnown
  <2>1. \A o2 \in Owners : \A e \in yielded'[o2] : e.epoch = epoch'[o2] /\ Current(e.job)'
    BY <1>u, <1>b, <1>c DEF IInv, Stamped
  <2>2. \A k \in Jobs : InQueue(post', k) => HasRow(k)' /\ Current(k)'
    BY <1>u, <1>c DEF IInv, Stamped
  <2>3. \A k \in Jobs : (InFlight(post', k) \/ Yielded(k)') /\ Current(k)' /\ job'[k].owner \in live'
                           => HasRow(k)'
    BY <1>u, <1>a, <1>c DEF IInv, Stamped, Yielded
  <2> QED
    BY <2>0, <2>1, <2>2, <2>3 DEF Stamped
<1>8. ForegroundKnown'
  BY <1>u, <1>a, <1>c DEF IInv, ForegroundKnown
<1>9. SuppressedKnown'
  BY <1>u, <1>a, <1>c DEF IInv, SuppressedKnown
<1>10. NothingLost'
  BY <1>u, <1>a, <1>c DEF IInv, NothingLost
<1>11. ToldKnown'
  BY <1>u, <1>a, <1>c DEF IInv, ToldKnown
<1>12. ReapKnown'
  <2>1. \A o \in Owners : reap[o].ids \subseteq Ids
    BY DEF IInv, Fields, Reaps
  <2> QED
    BY <1>u, <1>a, <1>c, <2>1, RowFields DEF IInv, ReapKnown
<1>13. JobSteps
  BY <1>a, <1>c DEF JobSteps
<1> QED
  BY <1>1, <1>2, <1>3, <1>4, <1>5, <1>6, <1>7, <1>8, <1>9, <1>10, <1>11, <1>12, <1>13 DEF IInv

\* The result is queued under the owner that the id still leads to, or muted by its waiter.
LEMMA JobEndsKeeps ==
    ASSUME IInv, NEW j \in Jobs, JobEnds(j)
    PROVE  IInv' /\ JobSteps
<1>u. UNCHANGED <<row, muted, watched, live, epoch, yielded, hub, reap, disposed, repeated>>
  BY DEF JobEnds, jobVars, muteVars, sessionVars
<1>a. /\ job[j].live /\ job[j].st \in {"running", "cancelled"} /\ job[j].id \in Ids
      /\ job[j].owner \in Owners
  BY JobFields DEF JobEnds, IInv, JobsKnown
<1>b. /\ job' \in [Jobs -> JobRecs] /\ \A k \in Jobs : k # j => job'[k] = job[k]
      /\ job'[j].st = (IF job[j].st = "cancelled" THEN "cancelled" ELSE "settled")
      /\ job'[j].id = job[j].id /\ job'[j].owner = job[j].owner /\ job'[j].born = job[j].born
      /\ job'[j].live = FALSE /\ job'[j].fg = job[j].fg
      /\ job'[j].told = job[j].told /\ job'[j].missed = job[j].missed
  <2> DEFINE s == IF job[j].st = "cancelled" THEN "cancelled" ELSE "settled"
             n == [job[j] EXCEPT !.live = FALSE, !.st = s]
  <2>1. job' = [job EXCEPT ![j] = n]
    <3>1. job' = [job EXCEPT ![j].live = FALSE,
                            ![j].st = IF @ = "cancelled" THEN @ ELSE "settled"]
      BY DEF JobEnds
    <3> QED
      BY <3>1, JobFields
  <2>2. job[j] \in JobRecs /\ s \in {"cancelled", "settled"}
    BY JobFields
  <2> HIDE DEF s
  <2>3. n \in JobRecs /\ n.st = s /\ n.id = job[j].id /\ n.owner = job[j].owner
        /\ n.born = job[j].born /\ n.live = FALSE /\ n.fg = job[j].fg
        /\ n.told = job[j].told /\ n.missed = job[j].missed
    BY ONLY <2>2 DEF JobRecs
  <2> HIDE DEF n
  <2>4. job'[j] = n /\ \A k \in Jobs : k # j => job'[k] = job[k]
    BY <2>1, JobFields
  <2>5. job' \in [Jobs -> JobRecs]
    BY <2>1, <2>3, JobFields
  <2> QED
    BY <2>3, <2>4, <2>5 DEF s
<1>c. Timely /\ job[j].st = "running" =>
         HasRow(j) /\ ~Over(j) /\ ~job[j].told /\ ~job[j].missed /\ Current(j) /\ job[j].owner \in live
  BY <1>a DEF IInv, RunningKnown, JobsKnown, Over, Current
<1>d. Timely => ~Copied(j)
  BY <1>a, CopiedKnown
<1>e. /\ post' \in Posts /\ PostKnown(post', job')
      /\ \A k \in Jobs :
            /\ InQueue(post', k) \/ InFlight(post', k) =>
                  \/ InQueue(post, k) \/ InFlight(post, k)
                  \/ k = j /\ job[j].id \notin Suppressed /\ job[j].st = "running"
            /\ Timely /\ (InQueue(post, k) \/ InFlight(post, k)) =>
                  \/ InQueue(post', k) \/ InFlight(post', k)
                  \/ job[k].id \in Suppressed \/ job[k].owner \notin live
            /\ InQueue(post', k) => InQueue(post, k) \/ (k = j /\ job[j].st = "running")
      /\ Timely /\ job[j].st = "running" /\ job[j].id \notin Suppressed =>
            (InQueue(post', j) \/ InFlight(post', j) \/ job[j].owner \notin live)
  <2>1. Follows(job, job')
    BY <1>a, <1>b DEF Follows
  <2>2. post \in Posts /\ PostKnown(post, job')
    BY <2>1, PostParts, QueuedStill
  <2>3. CASE job[j].st = "cancelled"
    <3>1. post' = post
      BY <2>3 DEF JobEnds
    <3> QED
      BY <2>2, <2>3, <3>1
  <2>4. CASE job[j].st = "running"
    <3> DEFINE i == job[j].id
    <3>1. post' = Enqueue(post, j, i, Suppressed)
      BY <2>4 DEF JobEnds
    <3>2. job'[j].st = "settled" /\ job'[j].id = i /\ i \in Ids
      BY <1>a, <1>b, <2>4
    <3>3. Timely => OwnerAt(i) = job'[j].owner
      BY <1>b, <1>c, <2>4, NoneAssumption DEF OwnerAt, HasRow
    <3>4. Tame => /\ ~InQueue(post, j) /\ ~InFlight(post, j)
                  /\ job'[j].born = epoch[job'[j].owner]
      BY <1>b, <1>c, <1>d, <2>4 DEF Tame, Copied, Current
    <3> HIDE DEF i
    <3>5. Joined(post, post', job', j, i, Suppressed)
      BY <2>1, <3>1, <3>2, <3>3, <3>4, EnqueueEffects
    <3>6. \A k \in Jobs : job'[k].id = job[k].id /\ job'[k].owner = job[k].owner
      BY <1>b
    <3>7. i = job[j].id
      BY DEF i
    <3>8. post' \in Posts /\ PostKnown(post', job')
      BY <3>5 DEF Joined
    <3>9. \A k \in Jobs :
            /\ InQueue(post', k) => InQueue(post, k) \/ (k = j /\ i \notin Suppressed)
            /\ InFlight(post', k) => InFlight(post, k) \/ InQueue(post, k) \/ (k = j /\ i \notin Suppressed)
            /\ InFlight(post, k) => InFlight(post', k)
            /\ Timely /\ InQueue(post, k) => \/ InQueue(post', k) \/ InFlight(post', k)
                                             \/ job[k].id \in Suppressed \/ job[k].owner \notin live
      BY <3>5, <3>6 DEF Joined
    <3>10. Timely /\ i \notin Suppressed => \/ InQueue(post', j) \/ InFlight(post', j)
                                           \/ job[j].owner \notin live
      BY <3>5, <3>6 DEF Joined
    <3> QED
      BY <2>4, <3>7, <3>8, <3>9, <3>10
  <2> QED
    BY <1>a, <2>3, <2>4
<1>f. \A k \in Jobs : /\ job'[k].id = job[k].id /\ job'[k].owner = job[k].owner
                      /\ job'[k].born = job[k].born /\ job'[k].fg = job[k].fg
                      /\ job'[k].told = job[k].told /\ job'[k].missed = job[k].missed
                      /\ job'[k].st = "new" <=> job[k].st = "new"
                      /\ job'[k].st = "running" => job[k].st = "running"
                      /\ job[k].st = "settled" => job'[k].st = "settled"
                      /\ job'[k].st = "settled" => job[k].st \in {"running", "settled"}
                      /\ job'[k].live => job[k].live
  BY <1>a, <1>b
<1>g. \A k \in Jobs : /\ Over(k)' <=> Over(k)
                      /\ Current(k)' <=> Current(k)
                      /\ HasRow(k)' <=> HasRow(k)
                      /\ Awaited(k)' => Awaited(k)
                      /\ Yielded(k)' <=> Yielded(k)
                      /\ \A o \in Owners : Owes(o, k)' <=> Owes(o, k)
  BY <1>u, <1>f DEF Over, Current, HasRow, Awaited, Yielded, Owes
<1>h. \A o \in Owners : /\ \A e \in yielded[o] : e.job \in Jobs
                        /\ \A k \in hub[o].jobs : k \in Jobs
                        /\ reap[o].ids \subseteq Ids
  BY DEF IInv, Fields, Entries, Waits, Reaps
<1>1. (NeverRepeated)'
  BY <1>u DEF IInv, NeverRepeated
<1>2. Fields'
  <2>1. timers' \subseteq Ids
    BY <1>a DEF JobEnds, Schedule, IInv, Fields
  <2> QED
    BY <1>u, <1>b, <1>e, <2>1 DEF IInv, Fields
<1>3. JobsKnown'
  <2> SUFFICES ASSUME NEW k \in Jobs
               PROVE  /\ job'[k].st = "new" => job'[k].id = None /\ ~job'[k].live /\ ~job'[k].fg
                      /\ job'[k].st # "new" =>
                            /\ job'[k].id \in Ids /\ job'[k].owner \in Owners
                            /\ job'[k].born <= epoch'[job'[k].owner]
                            /\ ~Over(k)' => job'[k].owner \in live'
                      /\ job'[k].st = "running" => job'[k].live
                      /\ job'[k].st = "settled" => ~job'[k].live
    BY DEF JobsKnown
  <2>1. CASE k = j
    BY <1>u, <1>a, <1>b, <1>g, <2>1 DEF IInv, JobsKnown
  <2>2. CASE k # j
    <3>1. job'[k] = job[k]
      BY <1>b, <2>2
    <3> QED
      BY <1>u, <1>g, <3>1 DEF IInv, JobsKnown
  <2> QED
    BY <2>1, <2>2
<1>4. RowsKnown'
  BY <1>u, <1>f, <1>h, RowFields DEF IInv, RowsKnown
<1>5. RunningKnown'
  <2> SUFFICES ASSUME Timely, NEW k \in Jobs
               PROVE  /\ job'[k].st = "running" => HasRow(k)' /\ ~Over(k)'
                      /\ job'[k].told \/ job'[k].missed => job'[k].st = "settled"
    BY DEF RunningKnown
  <2> QED
    BY <1>f, <1>g DEF IInv, RunningKnown
<1>6. Addressed'
  <2> SUFFICES ASSUME Timely, NEW o2 \in Owners, NEW e \in yielded'[o2]
               PROVE  /\ job'[e.job].st = "settled" /\ e.id = job'[e.job].id
                      /\ o2 = job'[e.job].owner
    BY <1>e DEF Addressed, PostKnown
  <2> QED
    BY <1>u, <1>f, <1>h DEF IInv, Addressed
<1>7. Stamped'
  <2> SUFFICES ASSUME Tame PROVE Stamped'
    BY DEF Stamped
  <2>0. StampedIn(post', job')
    BY <1>e DEF PostKnown
  <2>1. \A o2 \in Owners : \A e \in yielded'[o2] : e.epoch = epoch'[o2] /\ Current(e.job)'
    BY <1>u, <1>g, <1>h DEF IInv, Stamped
  <2>2. \A k \in Jobs : InQueue(post', k) => HasRow(k)' /\ Current(k)'
    BY <1>c, <1>e, <1>g DEF IInv, Stamped, Tame
  <2>3. \A k \in Jobs : (InFlight(post', k) \/ Yielded(k)') /\ Current(k)' /\ job'[k].owner \in live'
                           => HasRow(k)'
    <3> SUFFICES ASSUME NEW k \in Jobs, InFlight(post', k) \/ Yielded(k)', Current(k)',
                        job'[k].owner \in live'
                 PROVE  HasRow(k)'
      OBVIOUS
    <3>1. Copied(k) \/ (k = j /\ job[j].st = "running")
      BY <1>e, <1>g DEF Copied
    <3>2. Current(k) /\ job[k].owner \in live
      BY <1>u, <1>f, <1>g
    <3> QED
      BY <1>c, <1>g, <3>1, <3>2, CopiedKnown DEF Tame
  <2> QED
    BY <2>0, <2>1, <2>2, <2>3 DEF Stamped
<1>8. OneCopy'
  <2> SUFFICES ASSUME Tame, NEW k \in Jobs, Yielded(k)' PROVE ~InQueue(post', k) /\ ~InFlight(post', k)
    BY <1>e DEF OneCopy, PostKnown
  <2>1. Yielded(k) /\ k # j
    BY <1>d, <1>g DEF Tame, Copied
  <2> QED
    BY <1>e, <2>1 DEF IInv, OneCopy
<1>9. ForegroundKnown'
  <2> SUFFICES ASSUME Tame, NEW k \in Jobs, job'[k].fg
               PROVE  MaxEpoch = 0 /\ HasRow(k)' /\ job'[k].id \in muted' /\ ~Copied(k)'
    BY DEF ForegroundKnown
  <2>1. MaxEpoch = 0 /\ HasRow(k) /\ job[k].id \in muted /\ ~Copied(k)
    BY <1>f, ForegroundHas
  <2> QED
    BY <1>u, <1>e, <1>f, <1>g, <2>1 DEF Copied, Suppressed
<1>10. SuppressedKnown'
  <2> SUFFICES ASSUME Tame, NEW k \in Jobs, Awaited(k)'
               PROVE  /\ job'[k].id \in muted' => job'[k].fg
                      /\ job'[k].id \in watched' =>
                            \E o2 \in Owners : hub'[o2].pc = "waiting" /\ Owes(o2, k)'
    BY DEF SuppressedKnown
  <2>1. Awaited(k)
    BY <1>g
  <2> QED
    BY <1>u, <1>f, <1>g, <2>1 DEF IInv, SuppressedKnown
<1>11. NothingLost'
  <2> SUFFICES ASSUME Tame, NEW k \in Jobs, Awaited(k)', job'[k].st = "settled"
               PROVE  HasRow(k)' /\ (Copied(k) \/ job[k].fg \/ \E o2 \in Owners : Owes(o2, k))'
    BY DEF NothingLost
  <2>1. Awaited(k)
    BY <1>g
  <2>2. /\ HasRow(k) /\ job[k].owner \in live
        /\ job[k].id \in muted => job[k].fg
        /\ job[k].id \in watched => \E o \in Owners : Owes(o, k)
        /\ job[k].st = "settled" => Copied(k) \/ job[k].fg \/ \E o \in Owners : Owes(o, k)
    BY <2>1, AwaitedKnown
  <2>3. Copied(k) => Copied(k)' \/ job[k].id \in Suppressed
    BY <1>e, <1>g, <2>2 DEF Copied, Tame
  <2>4. job[k].st = "running" => Copied(k)' \/ job[k].id \in Suppressed
    <3>1. job[k].st = "running" => k = j
      BY <1>b
    <3> QED
      BY <1>e, <2>2, <3>1 DEF Copied, Tame
  <2> QED
    BY <1>f, <1>g, <2>2, <2>3, <2>4 DEF Suppressed
<1>12. ToldKnown'
  <2> SUFFICES ASSUME Tame, NEW k \in Jobs, job'[k].told, Copied(k)', Current(k)', job'[k].owner \in live'
               PROVE  job'[k].id \in muted'
    BY DEF ToldKnown
  <2>1. job[k].told /\ Current(k) /\ job[k].owner \in live /\ job'[k].id = job[k].id
    BY <1>u, <1>f, <1>g
  <2>2. Copied(k)
    BY <1>c, <1>e, <1>g, <2>1 DEF Copied, Tame
  <2> QED
    BY <1>u, <2>1, <2>2 DEF IInv, ToldKnown
<1>13. ReapKnown'
  BY <1>u, <1>f, <1>g, <1>h, RowFields DEF IInv, ReapKnown
<1>14. JobSteps
  <2> SUFFICES ASSUME Tame, NEW k \in Jobs
               PROVE  /\ Over(k) => Over(k)'
                      /\ job'[k].st # job[k].st =>
                            \/ job[k].st = "new" /\ job'[k].st = "running"
                            \/ job[k].st = "running" /\ job'[k].st = "cancelled"
                            \/ job[k].st = "running" /\ job'[k].st = "settled" /\ ~Over(k)'
                      /\ job[k].told => job'[k].told
                      /\ job'[k].told /\ ~job[k].told => job[k].st = "settled" /\ ~Over(k)
    BY DEF JobSteps
  <2>1. CASE k = j
    <3>1. CASE job[j].st = "cancelled"
      <4>1. job'[j].st = job[j].st /\ job'[j].told = job[j].told
        BY <1>b, <3>1
      <4> QED
        BY <1>g, <2>1, <4>1
    <3>2. CASE job[j].st = "running"
      <4>1. job'[j].st = "settled" /\ job'[j].told = job[j].told /\ ~Over(j)
        BY <1>b, <1>c, <3>2 DEF Tame
      <4> QED
        BY <1>g, <2>1, <3>2, <4>1
    <3> QED
      BY <1>a, <3>1, <3>2
  <2>2. CASE k # j
    <3>1. job'[k] = job[k]
      BY <1>b, <2>2
    <3> QED
      BY <1>g, <3>1
  <2> QED
    BY <2>1, <2>2
<1> QED
  BY <1>1, <1>2, <1>3, <1>4, <1>5, <1>6, <1>7, <1>8, <1>9, <1>10, <1>11, <1>12, <1>13, <1>14 DEF
     IInv

\* Nothing that still waits for a result has the row evicted under it.
LEMMA EvictFiresKeeps ==
    ASSUME IInv, NEW i \in Ids, EvictFires(i)
    PROVE  IInv' /\ JobSteps
<1>u. UNCHANGED <<job, post, live, epoch, yielded, hub, reap, disposed, repeated>>
  BY DEF EvictFires, jobVars, muteVars, sessionVars
<1>a. /\ row' \in [Ids -> Jobs \cup {None}] /\ row'[i] = None
      /\ \A x \in Ids : x # i => row'[x] = row[x]
  BY RowFields DEF EvictFires
<1>b. /\ muted' = muted \ {i} /\ watched' = watched \ {i} /\ timers' = timers \ {i}
      /\ Timely => Quiet(i)
  BY DEF EvictFires
<1>c. \A k \in Jobs : HasRow(k) /\ job[k].id = i =>
         /\ row[i] = k /\ k # None
         /\ Timely => /\ ~job[k].live /\ ~job[k].fg /\ ~Copied(k)
                      /\ \A o \in Owners : ~Owes(o, k)
  <2> SUFFICES ASSUME NEW k \in Jobs, HasRow(k), job[k].id = i
               PROVE  /\ row[i] = k /\ k # None
                      /\ Timely => /\ ~job[k].live /\ ~job[k].fg /\ ~Copied(k)
                                   /\ \A o \in Owners : ~Owes(o, k)
    OBVIOUS
  <2>1. row[i] = k /\ k # None
    BY NoneAssumption DEF HasRow
  <2>2. ASSUME Timely PROVE ~job[k].live /\ ~job[k].fg /\ ~Copied(k) /\ \A o \in Owners : ~Owes(o, k)
    <3>1. ~job[k].live /\ ~job[k].fg /\ ~Queued(k)
      BY <1>b, <2>1, <2>2 DEF Quiet
    <3>2. ~Yielded(k)
      BY <1>b, <2>2 DEF Quiet, Yielded, IInv, Addressed
    <3>3. \A o \in Owners : ~Owes(o, k)
      BY <1>b, <2>2 DEF Quiet, Owes
    <3> QED
      BY <3>1, <3>2, <3>3 DEF Queued, Copied, InQueue, InFlight
  <2> QED
    BY <2>1, <2>2
<1>d. \A k \in Jobs : HasRow(k) /\ job[k].id \in Ids /\ job[k].id # i => HasRow(k)' 
  BY <1>u, <1>a DEF HasRow
<1>1. (JobsKnown /\ Addressed /\ OneCopy /\ NeverRepeated)'
  BY <1>u DEF IInv, JobsKnown, Over, Addressed, OneCopy, Yielded, NeverRepeated
<1>2. Fields'
  BY <1>u, <1>a, <1>b DEF IInv, Fields
<1>3. RowsKnown'
  BY <1>u, <1>a, <1>b DEF IInv, RowsKnown, Fields
<1>4. RunningKnown'
  <2> SUFFICES ASSUME Timely, NEW k \in Jobs
               PROVE  /\ job'[k].st = "running" => HasRow(k)' /\ ~Over(k)'
                      /\ job'[k].told \/ job'[k].missed => job'[k].st = "settled"
    BY DEF RunningKnown
  <2>1. job[k].st = "running" => job[k].live /\ job[k].id \in Ids
    BY DEF IInv, JobsKnown
  <2> QED
    BY <1>u, <1>c, <1>d, <2>1 DEF IInv, RunningKnown, Over
<1>5. Stamped'
  <2> SUFFICES ASSUME Tame PROVE Stamped'
    BY DEF Stamped
  <2>0. StampedIn(post', job')
    BY <1>u, PostParts DEF PostKnown
  <2>1. \A o2 \in Owners : \A e \in yielded'[o2] : e.epoch = epoch'[o2] /\ Current(e.job)'
    BY <1>u DEF IInv, Stamped, Current
  <2>2. \A k \in Jobs : InQueue(post', k) => HasRow(k)' /\ Current(k)'
    <3> SUFFICES ASSUME NEW k \in Jobs, InQueue(post, k) PROVE HasRow(k)' /\ Current(k)'
      BY <1>u
    <3>1. Copied(k) /\ HasRow(k) /\ Current(k)
      BY DEF IInv, Stamped, Copied
    <3>2. job[k].id \in Ids
      BY <3>1, CopiedKnown DEF Tame
    <3> QED
      BY <1>u, <1>c, <1>d, <3>1, <3>2 DEF Current, Tame
  <2>3. \A k \in Jobs : (InFlight(post', k) \/ Yielded(k)') /\ Current(k)' /\ job'[k].owner \in live'
                           => HasRow(k)'
    <3> SUFFICES ASSUME NEW k \in Jobs, Copied(k), Current(k), job[k].owner \in live
                 PROVE  HasRow(k)'
      BY <1>u DEF Copied, Yielded, Current
    <3>1. HasRow(k) /\ job[k].id \in Ids
      BY CopiedKnown DEF Tame
    <3> QED
      BY <1>c, <1>d, <3>1 DEF Tame
  <2> QED
    BY <2>0, <2>1, <2>2, <2>3 DEF Stamped
<1>6. ForegroundKnown'
  <2> SUFFICES ASSUME Tame, NEW k \in Jobs, job'[k].fg
               PROVE  MaxEpoch = 0 /\ HasRow(k)' /\ job'[k].id \in muted' /\ ~Copied(k)'
    BY DEF ForegroundKnown
  <2>1. job[k].fg /\ MaxEpoch = 0 /\ HasRow(k) /\ job[k].id \in Ids /\ job[k].id \in muted /\ ~Copied(k)
    BY <1>u, ForegroundHas
  <2>2. job[k].id # i
    BY <1>c, <2>1 DEF Tame
  <2> QED
    BY <1>u, <1>b, <1>d, <2>1, <2>2 DEF Copied, Yielded
<1>7. SuppressedKnown'
  <2> SUFFICES ASSUME Tame, NEW k \in Jobs, Awaited(k)'
               PROVE  /\ job'[k].id \in muted' => job'[k].fg
                      /\ job'[k].id \in watched' =>
                            \E o2 \in Owners : hub'[o2].pc = "waiting" /\ Owes(o2, k)'
    BY DEF SuppressedKnown
  <2>1. Awaited(k)
    BY <1>u DEF Awaited, Over
  <2> QED
    BY <1>u, <1>b, <2>1 DEF IInv, SuppressedKnown, Owes
<1>8. NothingLost'
  <2> SUFFICES ASSUME Tame, NEW k \in Jobs, Awaited(k)', job'[k].st = "settled"
               PROVE  HasRow(k)' /\ (Copied(k) \/ job[k].fg \/ \E o2 \in Owners : Owes(o2, k))'
    BY DEF NothingLost
  <2>1. Awaited(k) /\ job[k].st = "settled"
    BY <1>u DEF Awaited, Over
  <2>2. /\ HasRow(k) /\ job[k].id \in Ids
        /\ Copied(k) \/ job[k].fg \/ \E o \in Owners : Owes(o, k)
    BY <2>1, AwaitedKnown
  <2>3. job[k].id # i
    BY <1>c, <2>2 DEF Tame
  <2> QED
    BY <1>u, <1>d, <2>2, <2>3 DEF Copied, Yielded, Owes
<1>9. ToldKnown'
  <2> SUFFICES ASSUME Tame, NEW k \in Jobs, job'[k].told, Copied(k)', Current(k)', job'[k].owner \in live'
               PROVE  job'[k].id \in muted'
    BY DEF ToldKnown
  <2>1. job[k].told /\ Copied(k) /\ Current(k) /\ job[k].owner \in live
    BY <1>u DEF Copied, Yielded, Current
  <2>2. HasRow(k) /\ job[k].id \in muted
    BY <2>1, CopiedKnown DEF IInv, ToldKnown, Tame
  <2> QED
    BY <1>u, <1>b, <1>c, <2>1, <2>2 DEF Tame
<1>10. ReapKnown'
  <2> SUFFICES ASSUME Timely, MaxEpoch = 0 PROVE ReapKnown'
    BY DEF ReapKnown
  <2>1. \A k \in Jobs : job'[k].live => HasRow(k)'
    <3>1. \A k \in Jobs : job[k].live => HasRow(k) /\ job[k].id \in Ids
      BY JobFields DEF IInv, ReapKnown, JobsKnown
    <3> QED
      BY <1>u, <1>c, <1>d, <3>1
  <2>2. \A o \in Owners : reap[o].ids \subseteq Ids /\ i \notin reap[o].ids
    BY <1>b DEF IInv, Fields, Reaps, Quiet
  <2> QED
    BY <1>u, <1>a, <2>1, <2>2 DEF IInv, ReapKnown
<1>11. JobSteps
  BY <1>u DEF JobSteps, Over
<1> QED
  BY <1>1, <1>2, <1>3, <1>4, <1>5, <1>6, <1>7, <1>8, <1>9, <1>10, <1>11 DEF IInv

\* Cancelling changes nothing but the status of the jobs it hits.
LEMMA CancelFields ==
    ASSUME IInv, NEW f \in [Jobs -> JobRecs], NEW js
    PROVE  /\ Cancelled(f, js) \in [Jobs -> JobRecs]
           /\ \A k \in Jobs : LET n == Cancelled(f, js)[k] IN
                 /\ n.st = (IF k \in js THEN "cancelled" ELSE f[k].st)
                 /\ n.id = f[k].id /\ n.owner = f[k].owner /\ n.born = f[k].born
                 /\ n.live = f[k].live /\ n.fg = f[k].fg
                 /\ n.told = f[k].told /\ n.missed = f[k].missed
<1>1. \A r \in JobRecs : LET n == [r EXCEPT !.st = "cancelled"] IN
         /\ n \in JobRecs /\ n.st = "cancelled"
         /\ n.id = r.id /\ n.owner = r.owner /\ n.born = r.born
         /\ n.live = r.live /\ n.fg = r.fg
         /\ n.told = r.told /\ n.missed = r.missed
  BY DEF JobRecs
<1>2. \A k \in Jobs : f[k] \in JobRecs
  OBVIOUS
<1>3. \A k \in Jobs : Cancelled(f, js)[k] = IF k \in js THEN [f[k] EXCEPT !.st = "cancelled"] ELSE f[k]
  BY DEF Cancelled
<1>4. \A k \in Jobs : LET n == Cancelled(f, js)[k] IN
         /\ n \in JobRecs /\ n.st = (IF k \in js THEN "cancelled" ELSE f[k].st)
         /\ n.id = f[k].id /\ n.owner = f[k].owner /\ n.born = f[k].born
         /\ n.live = f[k].live /\ n.fg = f[k].fg
         /\ n.told = f[k].told /\ n.missed = f[k].missed
  <2> TAKE k \in Jobs
  <2> DEFINE n == Cancelled(f, js)[k]
             c == [f[k] EXCEPT !.st = "cancelled"]
  <2>1. n = IF k \in js THEN c ELSE f[k]
    BY <1>3
  <2>2. /\ c \in JobRecs /\ c.st = "cancelled"
        /\ c.id = f[k].id /\ c.owner = f[k].owner /\ c.born = f[k].born
        /\ c.live = f[k].live /\ c.fg = f[k].fg
        /\ c.told = f[k].told /\ c.missed = f[k].missed
    BY <1>1, <1>2
  <2> HIDE DEF c, n
  <2>3. CASE k \in js
    BY <2>1, <2>2, <2>3 DEF n
  <2>4. CASE k \notin js
    BY <1>2, <2>1, <2>4 DEF n
  <2> QED
    BY <2>3, <2>4
<1>5. Cancelled(f, js) \in [Jobs -> JobRecs]
  BY <1>4 DEF Cancelled
<1> QED
  BY <1>4, <1>5

-----------------------------------------------------------------------------
(* The sessions.                                                           *)

\* What runs is cancelled and what finished loses its row; no result of the old session is
\* left in the queue, and the epoch keeps out what is in flight.
LEMMA ClearKeeps ==
    ASSUME IInv, NEW o \in Owners, o \in live, epoch[o] < MaxEpoch, ClearOwnJobs(o),
           live' \subseteq live, live \ {o} \subseteq live',
           UNCHANGED <<hub, reap, disposed, repeated>>
    PROVE  IInv' /\ JobSteps
<1>u. UNCHANGED <<hub, reap, disposed, repeated>>
  OBVIOUS
<1>a. PICK hit, done :
         /\ hit = {j \in RunningRows : job[j].owner = o}
         /\ done = {job[j].id : j \in {j \in RowsOf(o) : Settled(j)}}
  OBVIOUS
<1>b. /\ job' = Cancelled(job, hit) /\ row' = [i \in Ids |-> IF i \in done THEN None ELSE row[i]]
      /\ timers' = Schedule({job[j].id : j \in hit}) \ done
      /\ muted' = muted \ done /\ watched' = watched \ done
      /\ post' = (IF done = {} THEN post ELSE DropMuted(post, Suppressed \cup done))
      /\ epoch' = [epoch EXCEPT ![o] = @ + 1] /\ yielded' = [yielded EXCEPT ![o] = {}]
  BY <1>a, Zenon DEF ClearOwnJobs
<1>c. /\ \A k \in hit : k \in Jobs /\ job[k].st = "running" /\ job[k].owner = o /\ job[k].id \in Ids
      /\ \A k \in Jobs : job[k].st = "running" /\ HasRow(k) /\ job[k].owner = o => k \in hit
      /\ \A k \in Jobs : HasRow(k) /\ job[k].id \in done => job[k].owner = o /\ job[k].st = "settled"
      /\ \A k \in Jobs : HasRow(k) /\ job[k].st = "settled" /\ job[k].owner = o => job[k].id \in done
  <2>1. \A k \in hit : k \in Jobs /\ job[k].st = "running" /\ job[k].owner = o /\ job[k].id \in Ids
    BY <1>a, RowFields DEF RunningRows
  <2>2. \A k \in Jobs : k \in Rows <=> HasRow(k) /\ job[k].id \in Ids
    BY RowFields
  <2>3. \A k \in Jobs : job[k].st \in {"running", "settled"} => job[k].id \in Ids
    BY DEF IInv, JobsKnown
  <2>4. ASSUME NEW k \in Jobs, HasRow(k), job[k].id \in done
        PROVE  job[k].owner = o /\ job[k].st = "settled"
    <3>1. PICK j \in Rows : job[j].owner = o /\ job[j].st = "settled" /\ job[j].id = job[k].id
      BY <1>a, <2>4 DEF RowsOf, Settled
    <3>2. HasRow(j)
      BY <3>1, RowFields
    <3> QED
      BY <2>4, <3>1, <3>2 DEF HasRow
  <2> QED
    BY <1>a, <2>1, <2>2, <2>3, <2>4 DEF RunningRows, RowsOf, Settled
<1>d. /\ job' \in [Jobs -> JobRecs]
      /\ \A k \in Jobs :
            /\ job'[k].st = (IF k \in hit THEN "cancelled" ELSE job[k].st)
            /\ job'[k].id = job[k].id /\ job'[k].owner = job[k].owner
            /\ job'[k].born = job[k].born /\ job'[k].live = job[k].live
            /\ job'[k].fg = job[k].fg /\ job'[k].told = job[k].told
            /\ job'[k].missed = job[k].missed
  BY <1>b, CancelFields, JobFields
<1>e. /\ row' \in [Ids -> Jobs \cup {None}]
      /\ \A x \in Ids : row'[x] = IF x \in done THEN None ELSE row[x]
      /\ \A k \in Jobs : HasRow(k) /\ job[k].id \in Ids /\ job[k].id \notin done => HasRow(k)' 
  BY <1>b, <1>d, RowFields DEF HasRow
<1>f. /\ epoch' \in [Owners -> 0 .. MaxEpoch] /\ epoch'[o] > epoch[o]
      /\ \A x \in Owners : x # o => epoch'[x] = epoch[x]
      /\ \A x \in Owners : epoch[x] \in Nat /\ epoch'[x] \in Nat /\ epoch'[x] >= epoch[x]
      /\ yielded' \in [Owners -> SUBSET Entries] /\ yielded'[o] = {}
      /\ \A x \in Owners : x # o => yielded'[x] = yielded[x]
      /\ MaxEpoch > 0
  <2>1. epoch \in [Owners -> 0 .. MaxEpoch] /\ yielded \in [Owners -> SUBSET Entries]
    BY DEF IInv, Fields
  <2>2. epoch[o] \in 0 .. MaxEpoch /\ epoch[o] + 1 \in 0 .. MaxEpoch /\ MaxEpoch > 0
    BY <2>1, BoundsAssumption
  <2> QED
    BY <1>b, <2>1, <2>2
<1>g. /\ \A k \in Jobs : Over(k) => Over(k)'
      /\ \A k \in Jobs : job[k].st # "new" /\ job[k].owner = o => Over(k)' /\ ~Current(k)'
      /\ \A k \in Jobs : job[k].st # "new" /\ job[k].owner # o =>
            (Over(k)' <=> Over(k)) /\ (Current(k)' <=> Current(k)) /\ job'[k].st = job[k].st
      /\ \A k \in Jobs : job'[k].st = "new" <=> job[k].st = "new"
      /\ \A k \in Jobs : Awaited(k)' => Awaited(k) /\ job[k].owner # o /\ job'[k].st = job[k].st
  <2>1. \A k \in Jobs : job'[k].st = "new" <=> job[k].st = "new"
    BY <1>c, <1>d
  <2>2. \A k \in Jobs : job[k].st # "new" =>
           job[k].owner \in Owners /\ job[k].born \in Nat /\ job[k].born <= epoch[job[k].owner]
    BY JobFields, BoundsAssumption DEF IInv, JobsKnown
  <2>3. \A k \in Jobs : Over(k) => Over(k)'
    BY <1>u, <1>d, <1>f, <2>1, <2>2 DEF Over
  <2>4. \A k \in Jobs : job[k].st # "new" /\ job[k].owner = o => Over(k)' /\ ~Current(k)'
    BY <1>d, <1>f, <2>1, <2>2 DEF Over, Current
  <2>5. \A k \in Jobs : job[k].st # "new" /\ job[k].owner # o =>
            (Over(k)' <=> Over(k)) /\ (Current(k)' <=> Current(k)) /\ job'[k].st = job[k].st
    BY <1>u, <1>c, <1>d, <1>f, <2>2 DEF Over, Current
  <2>6. \A k \in Jobs : Awaited(k)' => Awaited(k) /\ job[k].owner # o /\ job'[k].st = job[k].st
    BY <1>d, <2>1, <2>4, <2>5 DEF Awaited
  <2> QED
    BY <2>1, <2>3, <2>4, <2>5, <2>6
<1>h. Tame => \A k \in Jobs : ~job[k].fg
  BY <1>f, ForegroundHas
<1>i. /\ post' \in Posts /\ PostKnown(post', job') /\ Passed(post, post', job', Suppressed \cup done)
      /\ Tame => \A k \in Jobs : InQueue(post', k) => job[k].owner # o
  <2>1. Follows(job, job')
    BY <1>c, <1>d DEF Follows
  <2>2. post \in Posts /\ PostKnown(post, job') /\ QueuedNow(post, job')
    BY <2>1, PostParts, QueuedStill
  <2>3. Moved(post, post', Suppressed \cup done)
    BY <1>b, <2>2, SameMoves, DropMoves
  <2>4. post' \in Posts /\ PostKnown(post', job') /\ Passed(post, post', job', Suppressed \cup done)
    BY <2>2, <2>3, MoveEffects
  <2>5. ASSUME Tame, NEW k \in Jobs, InQueue(post', k) PROVE job[k].owner # o
    <3> SUFFICES ASSUME job[k].owner = o PROVE FALSE
      OBVIOUS
    <3>1. InQueue(post, k) /\ Copied(k)
      BY <2>4, <2>5 DEF Passed, Copied
    <3>2. job[k].st = "settled" /\ HasRow(k)
      BY <2>5, <3>1, CopiedKnown DEF IInv, Stamped, Tame
    <3>3. job[k].id \in done /\ post' = DropMuted(post, Suppressed \cup done)
      BY <1>b, <1>c, <3>2
    <3>4. PICK m \in DOMAIN post'.queue : post'.queue[m].job = k
      BY <2>5 DEF InQueue
    <3>5. post'.queue[m].id = job[k].id
      BY <1>d, <2>4, <2>5, <3>4 DEF PostKnown, AddressedIn, Tame
    <3>6. post'.queue[m].id \notin Suppressed \cup done
      BY <2>2, <3>3, DropMoves
    <3> QED
      BY <3>3, <3>5, <3>6
  <2> QED
    BY <2>4, <2>5
<1>j. \A x \in Owners : /\ \A e \in yielded[x] : e.job \in Jobs
                        /\ \A k \in hub[x].jobs : k \in Jobs
  BY DEF IInv, Fields, Entries, Waits
<1>k. Timely => \A k \in Jobs : Copied(k)' =>
         /\ Copied(k) /\ (Yielded(k)' => Yielded(k)) /\ job[k].st = "settled" /\ job[k].id \in Ids
  <2>1. \A k \in Jobs : Yielded(k)' => Yielded(k)
    BY <1>f DEF Yielded
  <2> QED
    BY <1>i, <2>1, CopiedKnown DEF Passed, Copied
<1>1. (NeverRepeated)'
  BY <1>u DEF IInv, NeverRepeated
<1>2. Fields'
  <2>1. timers' \subseteq Ids
    BY <1>b, <1>c DEF Schedule, IInv, Fields
  <2>2. live' \subseteq Owners /\ muted' \subseteq Ids /\ watched' \subseteq Ids
    BY <1>b DEF IInv, Fields
  <2> QED
    BY <1>u, <1>d, <1>e, <1>f, <1>i, <2>1, <2>2 DEF IInv, Fields
<1>3. JobsKnown'
  <2> SUFFICES ASSUME NEW k \in Jobs
               PROVE  /\ job'[k].st = "new" => job'[k].id = None /\ ~job'[k].live /\ ~job'[k].fg
                      /\ job'[k].st # "new" =>
                            /\ job'[k].id \in Ids /\ job'[k].owner \in Owners
                            /\ job'[k].born <= epoch'[job'[k].owner]
                            /\ ~Over(k)' => job'[k].owner \in live'
                      /\ job'[k].st = "running" => job'[k].live
                      /\ job'[k].st = "settled" => ~job'[k].live
    BY DEF JobsKnown
  <2>1. job[k].st # "new" => job[k].born \in Nat /\ job[k].owner \in Owners
                             /\ job[k].born <= epoch[job[k].owner]
    BY JobFields, BoundsAssumption DEF IInv, JobsKnown
  <2>2. job[k].st # "new" => job[k].born <= epoch'[job[k].owner]
    BY <1>f, <2>1
  <2>3. job[k].st # "new" /\ ~Over(k)' => job[k].owner \in live'
    BY <1>g, <2>1 DEF IInv, JobsKnown
  <2> QED
    BY <1>c, <1>d, <1>g, <2>1, <2>2, <2>3 DEF IInv, JobsKnown
<1>4. RowsKnown'
  <2>1. \A x \in Ids : row'[x] # None => job'[row'[x]].id = x
    BY <1>d, <1>e, RowFields
  <2>2. \A x \in watched' : row'[x] # None
    BY <1>b, <1>e DEF IInv, RowsKnown, Fields
  <2> QED
    BY <1>u, <1>g, <1>j, <2>1, <2>2 DEF IInv, RowsKnown
<1>5. RunningKnown'
  <2> SUFFICES ASSUME Timely, NEW k \in Jobs
               PROVE  /\ job'[k].st = "running" => HasRow(k)' /\ ~Over(k)'
                      /\ job'[k].told \/ job'[k].missed => job'[k].st = "settled"
    BY DEF RunningKnown
  <2>1. ASSUME job'[k].st = "running" PROVE HasRow(k)' /\ ~Over(k)'
    <3>1. job[k].st = "running" /\ k \notin hit /\ job[k].id \in Ids /\ HasRow(k) /\ ~Over(k)
      BY <1>d, <2>1 DEF IInv, JobsKnown, RunningKnown
    <3>2. job[k].owner # o /\ job[k].id \notin done
      BY <1>c, <3>1
    <3> QED
      BY <1>e, <1>g, <3>1, <3>2
  <2> QED
    BY <1>c, <1>d, <2>1 DEF IInv, RunningKnown
<1>6. Addressed'
  <2> SUFFICES ASSUME Timely, NEW o2 \in Owners, NEW e \in yielded'[o2]
               PROVE  /\ job'[e.job].st = "settled" /\ e.id = job'[e.job].id
                      /\ o2 = job'[e.job].owner
    BY <1>i DEF Addressed, PostKnown
  <2>1. e \in yielded[o2] /\ e.job \in Jobs
    BY <1>f, <1>j
  <2>2. job[e.job].st = "settled" /\ e.id = job[e.job].id /\ o2 = job[e.job].owner
    BY <2>1 DEF IInv, Addressed
  <2> QED
    BY <1>c, <1>d, <2>1, <2>2
<1>7. Stamped'
  <2> SUFFICES ASSUME Tame PROVE Stamped'
    BY DEF Stamped
  <2>0. StampedIn(post', job')
    BY <1>i DEF PostKnown
  <2>1. \A o2 \in Owners : \A e \in yielded'[o2] : e.epoch = epoch'[o2] /\ Current(e.job)'
    <3> SUFFICES ASSUME NEW o2 \in Owners, NEW e \in yielded'[o2]
                 PROVE  e.epoch = epoch'[o2] /\ Current(e.job)'
      OBVIOUS
    <3>1. o2 # o /\ e \in yielded[o2] /\ e.job \in Jobs
      BY <1>f, <1>j
    <3>2. job[e.job].owner = o2 /\ job[e.job].st = "settled" /\ e.epoch = epoch[o2] /\ Current(e.job)
      BY <3>1 DEF IInv, Addressed, Stamped, Tame
    <3> QED
      BY <1>f, <1>g, <3>1, <3>2
  <2>2. \A k \in Jobs : InQueue(post', k) => HasRow(k)' /\ Current(k)'
    <3> SUFFICES ASSUME NEW k \in Jobs, InQueue(post', k) PROVE HasRow(k)' /\ Current(k)'
      OBVIOUS
    <3>1. InQueue(post, k) /\ Copied(k) /\ job[k].owner # o
      BY <1>i DEF Passed, Copied
    <3>2. HasRow(k) /\ Current(k) /\ job[k].st = "settled" /\ job[k].id \in Ids
      BY <3>1, CopiedKnown DEF IInv, Stamped, Tame
    <3> QED
      BY <1>c, <1>e, <1>g, <3>1, <3>2
  <2>3. \A k \in Jobs : (InFlight(post', k) \/ Yielded(k)') /\ Current(k)' /\ job'[k].owner \in live'
                           => HasRow(k)'
    <3> SUFFICES ASSUME NEW k \in Jobs, Copied(k)', Current(k)', job'[k].owner \in live'
                 PROVE  HasRow(k)'
      BY DEF Copied
    <3>1. Copied(k) /\ job[k].st = "settled" /\ job[k].id \in Ids
      BY <1>k DEF Tame
    <3>2. job[k].owner # o /\ Current(k) /\ job[k].owner \in live
      BY <1>d, <1>g, <3>1
    <3>3. HasRow(k)
      BY <3>1, <3>2, CopiedKnown DEF Tame
    <3> QED
      BY <1>c, <1>e, <3>1, <3>2, <3>3
  <2> QED
    BY <2>0, <2>1, <2>2, <2>3 DEF Stamped
<1>8. OneCopy'
  <2> SUFFICES ASSUME Tame, NEW k \in Jobs, Yielded(k)' PROVE ~InQueue(post', k) /\ ~InFlight(post', k)
    BY <1>i DEF OneCopy, PostKnown
  <2>1. Yielded(k)
    BY <1>f DEF Yielded
  <2> QED
    BY <1>i, <2>1 DEF Passed, IInv, OneCopy
<1>9. ForegroundKnown'
  BY <1>d, <1>h DEF ForegroundKnown
<1>10. SuppressedKnown'
  <2> SUFFICES ASSUME Tame, NEW k \in Jobs, Awaited(k)'
               PROVE  /\ job'[k].id \in muted' => job'[k].fg
                      /\ job'[k].id \in watched' =>
                            \E o2 \in Owners : hub'[o2].pc = "waiting" /\ Owes(o2, k)'
    BY DEF SuppressedKnown
  <2>1. Awaited(k)
    BY <1>g
  <2> QED
    BY <1>u, <1>b, <1>d, <2>1 DEF IInv, SuppressedKnown, Owes
<1>11. NothingLost'
  <2> SUFFICES ASSUME Tame, NEW k \in Jobs, Awaited(k)', job'[k].st = "settled"
               PROVE  HasRow(k)' /\ (Copied(k) \/ job[k].fg \/ \E o2 \in Owners : Owes(o2, k))'
    BY DEF NothingLost
  <2>1. Awaited(k) /\ job[k].st = "settled" /\ job[k].owner # o
    BY <1>g
  <2>2. /\ HasRow(k) /\ job[k].id \in Ids /\ job[k].owner \in live
        /\ job[k].id \in muted => job[k].fg
        /\ job[k].id \in watched => \E o2 \in Owners : Owes(o2, k)
        /\ Copied(k) \/ job[k].fg \/ \E o2 \in Owners : Owes(o2, k)
    BY <2>1, AwaitedKnown
  <2>3. HasRow(k)' /\ job[k].id \notin done
    BY <1>c, <1>e, <2>1, <2>2
  <2>4. Yielded(k) => Yielded(k)'
    <3> SUFFICES ASSUME NEW o2 \in Owners, NEW e \in yielded[o2], e.job = k PROVE Yielded(k)'
      BY DEF Yielded
    <3>1. o2 # o
      BY <2>1 DEF IInv, Addressed, Tame
    <3> QED
      BY <1>f, <3>1 DEF Yielded
  <2>5. Copied(k) => Copied(k)' \/ job[k].id \in Suppressed
    BY <1>d, <1>i, <2>2, <2>3, <2>4 DEF Passed, Copied, Tame
  <2> QED
    BY <1>u, <1>d, <2>2, <2>3, <2>5 DEF Owes, Suppressed
<1>12. ToldKnown'
  <2> SUFFICES ASSUME Tame, NEW k \in Jobs, job'[k].told, Copied(k)', Current(k)', job'[k].owner \in live'
               PROVE  job'[k].id \in muted'
    BY DEF ToldKnown
  <2>1. Copied(k) /\ job[k].st = "settled" /\ job[k].id \in Ids
    BY <1>k DEF Tame
  <2>2. job[k].owner # o /\ Current(k) /\ job[k].owner \in live /\ job[k].told
    BY <1>d, <1>g, <2>1
  <2>3. HasRow(k) /\ job[k].id \in muted
    BY <2>1, <2>2, CopiedKnown DEF IInv, ToldKnown, Tame
  <2> QED
    BY <1>b, <1>c, <1>d, <2>2, <2>3
<1>13. ReapKnown'
  BY <1>f DEF ReapKnown
<1>14. JobSteps
  <2> SUFFICES ASSUME Tame, NEW k \in Jobs
               PROVE  /\ Over(k) => Over(k)'
                      /\ job'[k].st # job[k].st =>
                            \/ job[k].st = "new" /\ job'[k].st = "running"
                            \/ job[k].st = "running" /\ job'[k].st = "cancelled"
                            \/ job[k].st = "running" /\ job'[k].st = "settled" /\ ~Over(k)'
                      /\ job[k].told => job'[k].told
                      /\ job'[k].told /\ ~job[k].told => job[k].st = "settled" /\ ~Over(k)
    BY DEF JobSteps
  <2> QED
    BY <1>c, <1>d, <1>g
<1> QED
  BY <1>1, <1>2, <1>3, <1>4, <1>5, <1>6, <1>7, <1>8, <1>9, <1>10, <1>11, <1>12, <1>13, <1>14 DEF
     IInv

LEMMA SessionEndsKeeps ==
    ASSUME IInv, NEW o \in Owners, SessionMoves(o) \/ SessionEnds(o)
    PROVE  IInv' /\ JobSteps
BY ClearKeeps DEF SessionMoves, SessionEnds

\* What was on its way to the session that ended is over.
LEMMA SessionRevivedKeeps ==
    ASSUME IInv, NEW o \in Owners, SessionRevived(o)
    PROVE  IInv' /\ JobSteps
<1>u. UNCHANGED <<job, row, timers, muted, watched, post, epoch, yielded, hub, reap, disposed,
                repeated>>
  BY DEF SessionRevived, jobVars, muteVars, sessionVars
<1>a. o \notin live /\ ~disposed /\ live' = live \cup {o}
  BY DEF SessionRevived
<1>b. Timely => \A k \in Jobs : Copied(k) /\ Current(k) => job[k].owner \in live
  <2> SUFFICES ASSUME Timely, NEW k \in Jobs, Copied(k), Current(k) PROVE job[k].owner \in live
    OBVIOUS
  <2>1. job[k].st = "settled"
    BY CopiedKnown
  <2>2. ~Over(k)
    BY <1>a DEF Over, Current
  <2> QED
    BY <2>1, <2>2 DEF IInv, JobsKnown
<1>1. (RowsKnown /\ RunningKnown /\ Addressed /\ OneCopy /\ ForegroundKnown /\ SuppressedKnown /\
       NothingLost /\ NeverRepeated /\ ReapKnown)'
  BY <1>u DEF IInv, RowsKnown, RunningKnown, Over, HasRow, Addressed, OneCopy, Yielded,
     ForegroundKnown, Copied, SuppressedKnown, Awaited, Owes, NothingLost, NeverRepeated,
     ReapKnown
<1>2. Fields'
  BY <1>u, <1>a DEF IInv, Fields
<1>3. JobsKnown'
  BY <1>u, <1>a DEF IInv, JobsKnown, Over
<1>4. Stamped'
  <2> SUFFICES ASSUME Tame PROVE Stamped'
    BY DEF Stamped
  <2>0. StampedIn(post', job')
    BY <1>u, PostParts DEF PostKnown
  <2>1. \A o2 \in Owners : \A e \in yielded'[o2] : e.epoch = epoch'[o2] /\ Current(e.job)'
    BY <1>u DEF IInv, Stamped, Current
  <2>2. \A k \in Jobs : InQueue(post', k) => HasRow(k)' /\ Current(k)'
    BY <1>u DEF IInv, Stamped, HasRow, Current
  <2>3. \A k \in Jobs : (InFlight(post', k) \/ Yielded(k)') /\ Current(k)' /\ job'[k].owner \in live'
                           => HasRow(k)'
    <3> SUFFICES ASSUME NEW k \in Jobs, Copied(k), Current(k) PROVE HasRow(k)
      BY <1>u DEF Copied, Yielded, Current, HasRow
    <3> QED
      BY <1>b, CopiedKnown DEF Tame
  <2> QED
    BY <2>0, <2>1, <2>2, <2>3 DEF Stamped
<1>5. ToldKnown'
  <2> SUFFICES ASSUME Tame, NEW k \in Jobs, job'[k].told, Copied(k)', Current(k)', job'[k].owner \in live'
               PROVE  job'[k].id \in muted'
    BY DEF ToldKnown
  <2>1. job[k].told /\ Copied(k) /\ Current(k)
    BY <1>u DEF Copied, Yielded, Current
  <2> QED
    BY <1>u, <1>b, <2>1 DEF IInv, ToldKnown, Tame
<1>6. JobSteps
  BY <1>u DEF JobSteps, Over
<1> QED
  BY <1>1, <1>2, <1>3, <1>4, <1>5, <1>6 DEF IInv

\* What the yield queue gives up is no longer on its way: its agent reads it, and was told
\* none of it before, or it is dropped.
GivesUp(o, read, heard, dropped) ==
    /\ o \in live /\ read = {e.job : e \in Fresh(o)}
    /\ heard \subseteq read /\ dropped \subseteq read
    /\ IF disposed THEN heard = {} ELSE read = heard \cup dropped
    /\ job' \in [Jobs -> JobRecs]
    /\ \A k \in Jobs :
          /\ job'[k].st = job[k].st /\ job'[k].id = job[k].id
          /\ job'[k].owner = job[k].owner /\ job'[k].born = job[k].born
          /\ job'[k].live = job[k].live /\ job'[k].fg = job[k].fg
          /\ job'[k].told = (job[k].told \/ k \in heard)
          /\ job'[k].missed = (job[k].missed \/ k \in dropped)
    /\ repeated' = repeated \/ repeated' = repeated \cup {j \in read : job[j].told}
    /\ yielded' = [yielded EXCEPT ![o] = {}]
    /\ UNCHANGED <<row, timers, muted, watched, post, live, epoch, hub, reap, disposed>>

LEMMA GivenUp ==
    ASSUME IInv, NEW o \in Owners, NEW read \in SUBSET Jobs, NEW heard, NEW dropped,
           GivesUp(o, read, heard, dropped)
    PROVE  IInv' /\ JobSteps
<1> USE DEF GivesUp
<1>c. /\ yielded' \in [Owners -> SUBSET Entries] /\ yielded'[o] = {}
      /\ \A x \in Owners : yielded'[x] \subseteq yielded[x] /\ (x # o => yielded'[x] = yielded[x])
      /\ \A x \in Owners : \A e \in yielded[x] : e.job \in Jobs
      /\ \A x \in Owners : \A k \in hub[x].jobs : k \in Jobs
      /\ \A x \in Owners : reap[x].ids \subseteq Ids
      /\ o \in live
  BY DEF IInv, Fields, Entries, Waits, Reaps
<1>d. Timely => \A k \in read : Yielded(k) /\ job[k].st = "settled" /\ job[k].owner = o
  BY DEF Fresh, Yielded, IInv, Addressed
<1>e. Tame => \A k \in read : Current(k) /\ job[k].id \notin Suppressed
  BY DEF Fresh, IInv, Addressed, Stamped, Tame
<1>f. /\ \A k \in Jobs : /\ Over(k)' <=> Over(k)
                         /\ Current(k)' <=> Current(k)
                         /\ HasRow(k)' <=> HasRow(k)
                         /\ Awaited(k)' => Awaited(k) /\ k \notin read
                         /\ Yielded(k)' => Yielded(k)
                         /\ Copied(k)' => Copied(k)
                         /\ \A x \in Owners : Owes(x, k)' <=> Owes(x, k)
  <2>1. \A k \in Jobs : Yielded(k)' => Yielded(k)
    BY <1>c DEF Yielded
  <2>2. \A k \in Jobs : Awaited(k)' => Awaited(k) /\ k \notin read
    BY DEF Awaited, Over
  <2>3. \A k \in Jobs : /\ Over(k)' <=> Over(k)
                        /\ Current(k)' <=> Current(k)
                        /\ HasRow(k)' <=> HasRow(k)
                        /\ \A x \in Owners : Owes(x, k)' <=> Owes(x, k)
    BY DEF Over, Current, HasRow, Owes
  <2> QED
    BY <2>1, <2>2, <2>3 DEF Copied
<1>g. PostKnown(post, job')
  <2>1. Follows(job, job')
    BY DEF Follows
  <2> QED
    BY <2>1, QueuedStill
<1>2. Fields'
  BY <1>c DEF IInv, Fields
<1>3. JobsKnown'
  BY <1>f DEF IInv, JobsKnown
<1>4. RowsKnown'
  BY <1>c, RowFields DEF IInv, RowsKnown
<1>5. RunningKnown'
  BY <1>d, <1>f DEF IInv, RunningKnown
<1>6. Addressed'
  <2> SUFFICES ASSUME Timely, NEW o2 \in Owners, NEW e \in yielded'[o2]
               PROVE  /\ job'[e.job].st = "settled" /\ e.id = job'[e.job].id
                      /\ o2 = job'[e.job].owner
    BY <1>g DEF Addressed, PostKnown
  <2>1. e \in yielded[o2] /\ e.job \in Jobs
    BY <1>c
  <2> QED
    BY <2>1 DEF IInv, Addressed
<1>7. Stamped'
  <2> SUFFICES ASSUME Tame PROVE Stamped'
    BY DEF Stamped
  <2>0. StampedIn(post', job')
    BY <1>g DEF PostKnown
  <2>1. \A o2 \in Owners : \A e \in yielded'[o2] : e.epoch = epoch'[o2] /\ Current(e.job)'
    BY <1>c, <1>f DEF IInv, Stamped
  <2>2. \A k \in Jobs : InQueue(post', k) => HasRow(k)' /\ Current(k)'
    BY <1>f DEF IInv, Stamped
  <2>3. \A k \in Jobs : (InFlight(post', k) \/ Yielded(k)') /\ Current(k)' /\ job'[k].owner \in live'
                           => HasRow(k)'
    BY <1>f DEF IInv, Stamped
  <2> QED
    BY <2>0, <2>1, <2>2, <2>3 DEF Stamped
<1>8. OneCopy'
  BY <1>f DEF IInv, OneCopy
<1>9. ForegroundKnown'
  BY <1>f DEF IInv, ForegroundKnown
<1>10. SuppressedKnown'
  BY <1>f DEF IInv, SuppressedKnown
<1>11. NothingLost'
  <2> SUFFICES ASSUME Tame, NEW k \in Jobs, Awaited(k)', job'[k].st = "settled"
               PROVE  HasRow(k)' /\ (Copied(k) \/ job[k].fg \/ \E o2 \in Owners : Owes(o2, k))'
    BY DEF NothingLost
  <2>1. Awaited(k) /\ job[k].st = "settled" /\ k \notin read
    BY <1>f
  <2>2. /\ HasRow(k)
        /\ job[k].id \in muted => job[k].fg
        /\ job[k].id \in watched => \E o2 \in Owners : Owes(o2, k)
        /\ Copied(k) \/ job[k].fg \/ \E o2 \in Owners : Owes(o2, k)
    BY <2>1, AwaitedKnown
  <2>3. Yielded(k) => Yielded(k)' \/ job[k].id \in Suppressed
    <3> SUFFICES ASSUME NEW o2 \in Owners, NEW e \in yielded[o2], e.job = k
                 PROVE  Yielded(k)' \/ job[k].id \in Suppressed
      BY DEF Yielded
    <3>1. e.epoch = epoch[o2] /\ e.id = job[k].id
      BY DEF IInv, Addressed, Stamped, Tame
    <3>2. CASE o2 = o
      BY <2>1, <3>1, <3>2 DEF Fresh
    <3>3. CASE o2 # o
      BY <1>c, <3>3 DEF Yielded
    <3> QED
      BY <3>2, <3>3
  <2> QED
    BY <1>f, <2>2, <2>3 DEF Copied, Suppressed
<1>12. ToldKnown'
  <2> SUFFICES ASSUME Tame, NEW k \in Jobs, job'[k].told, Copied(k)', Current(k)', job'[k].owner \in live'
               PROVE  job'[k].id \in muted'
    BY DEF ToldKnown
  <2>1. Copied(k) /\ Current(k) /\ job[k].owner \in live /\ job'[k].id = job[k].id
    BY <1>f
  <2>2. CASE k \in read
    <3>1. ~InQueue(post, k) /\ ~InFlight(post, k) /\ job[k].owner = o
      BY <1>d, <2>2 DEF IInv, OneCopy, Tame
    <3>2. ~Yielded(k)'
      BY <1>c, <3>1 DEF Yielded, IInv, Addressed, Tame
    <3> QED
      BY <3>1, <3>2 DEF Copied
  <2>3. CASE k \notin read
    BY <2>1, <2>3 DEF IInv, ToldKnown
  <2> QED
    BY <2>2, <2>3
<1>13. NeverRepeated'
  <2> SUFFICES ASSUME Tame PROVE repeated' = {}
    BY DEF NeverRepeated
  <2>1. \A k \in read : ~job[k].told
    BY <1>c, <1>d, <1>e DEF IInv, ToldKnown, Copied, Suppressed, Tame
  <2> QED
    BY <2>1 DEF IInv, NeverRepeated
<1>14. ReapKnown'
  BY <1>c, <1>f, RowFields DEF IInv, ReapKnown
<1>15. JobSteps
  <2> SUFFICES ASSUME Tame, NEW k \in Jobs
               PROVE  /\ Over(k) => Over(k)'
                      /\ job'[k].st # job[k].st =>
                            \/ job[k].st = "new" /\ job'[k].st = "running"
                            \/ job[k].st = "running" /\ job'[k].st = "cancelled"
                            \/ job[k].st = "running" /\ job'[k].st = "settled" /\ ~Over(k)'
                      /\ job[k].told => job'[k].told
                      /\ job'[k].told /\ ~job[k].told => job[k].st = "settled" /\ ~Over(k)
    BY DEF JobSteps
  <2>1. k \in heard => job[k].st = "settled" /\ ~Over(k)
    BY <1>d, <1>e DEF Over, Current, Tame
  <2> QED
    BY <1>f, <2>1
<1> QED
  BY <1>2, <1>3, <1>4, <1>5, <1>6, <1>7, <1>8, <1>9, <1>10, <1>11, <1>12, <1>13, <1>14, <1>15
     DEF IInv

LEMMA InjectKeeps ==
    ASSUME IInv, NEW o \in Owners, Inject(o)
    PROVE  IInv' /\ JobSteps
<1> DEFINE read == {e.job : e \in Fresh(o)}
<1>u. UNCHANGED <<row, timers, muted, watched, post, live, epoch, hub, reap, disposed>>
  BY DEF Inject, jobVars, muteVars, sessionVars
<1>1. read \in SUBSET Jobs
  BY DEF Fresh, IInv, Fields, Entries
<1>2. /\ o \in live /\ yielded' = [yielded EXCEPT ![o] = {}]
      /\ job' = [j \in Jobs |-> [job[j] EXCEPT !.told = @ \/ (j \in read /\ ~disposed)]]
      /\ repeated' = repeated \cup {j \in read : job[j].told}
  BY DEF Inject
<1> DEFINE heard == {k \in read : ~disposed}
<1> HIDE DEF read
<1>4. \A k \in Jobs :
         /\ job'[k] \in JobRecs
         /\ job'[k].st = job[k].st /\ job'[k].id = job[k].id /\ job'[k].owner = job[k].owner
         /\ job'[k].born = job[k].born /\ job'[k].live = job[k].live
         /\ job'[k].fg = job[k].fg /\ job'[k].missed = job[k].missed
         /\ job'[k].told = (job[k].told \/ (k \in read /\ ~disposed))
  <2> TAKE k \in Jobs
  <2> DEFINE b == job[k].told \/ (k \in read /\ ~disposed)
             n == [job[k] EXCEPT !.told = b]
  <2>1. job'[k] = n
    BY <1>2
  <2>2. b \in BOOLEAN /\ job[k] \in JobRecs
    BY JobFields
  <2> HIDE DEF b
  <2>3. /\ n \in JobRecs /\ n.st = job[k].st /\ n.id = job[k].id /\ n.owner = job[k].owner
        /\ n.born = job[k].born /\ n.live = job[k].live /\ n.fg = job[k].fg
        /\ n.missed = job[k].missed /\ n.told = b
    BY ONLY <2>2 DEF JobRecs
  <2> HIDE DEF n
  <2> QED
    BY <2>1, <2>3 DEF b
<1>5. job' \in [Jobs -> JobRecs]
  BY <1>2, <1>4
<1>6. \A k \in Jobs : job[k].missed \in BOOLEAN
  BY JobFields
<1>7. \A k \in Jobs : /\ job'[k].told = (job[k].told \/ k \in heard)
                      /\ job'[k].missed = (job[k].missed \/ k \in {})
  BY <1>4, <1>6
<1> HIDE DEF heard
<1>8. heard \subseteq read /\ IF disposed THEN heard = {} ELSE read = heard \cup {}
  BY DEF heard
<1>9. read = {e.job : e \in Fresh(o)}
  BY DEF read
<1>10. GivesUp(o, read, heard, {})
  BY <1>u, <1>2, <1>4, <1>5, <1>7, <1>8, <1>9 DEF GivesUp
<1> QED
  BY <1>1, <1>10, GivenUp, Zenon

LEMMA InjectFailsKeeps ==
    ASSUME IInv, NEW o \in Owners, InjectFails(o)
    PROVE  IInv' /\ JobSteps
<1> DEFINE taken == {e.job : e \in Fresh(o)}
<1>u. UNCHANGED <<row, timers, muted, watched, post, live, epoch, hub, reap, disposed, repeated>>
  BY DEF InjectFails, jobVars, muteVars, sessionVars
<1>1. taken \in SUBSET Jobs
  BY DEF Fresh, IInv, Fields, Entries
<1>2. /\ o \in live /\ yielded' = [yielded EXCEPT ![o] = {}]
      /\ job' = [j \in Jobs |-> [job[j] EXCEPT !.missed = @ \/ j \in taken]]
  BY DEF InjectFails
<1> HIDE DEF taken
<1>4. \A k \in Jobs :
         /\ job'[k] \in JobRecs
         /\ job'[k].st = job[k].st /\ job'[k].id = job[k].id /\ job'[k].owner = job[k].owner
         /\ job'[k].born = job[k].born /\ job'[k].live = job[k].live
         /\ job'[k].fg = job[k].fg /\ job'[k].told = job[k].told
         /\ job'[k].missed = (job[k].missed \/ k \in taken)
  <2> TAKE k \in Jobs
  <2> DEFINE b == job[k].missed \/ k \in taken
             n == [job[k] EXCEPT !.missed = b]
  <2>1. job'[k] = n
    BY <1>2
  <2>2. b \in BOOLEAN /\ job[k] \in JobRecs
    BY JobFields
  <2> HIDE DEF b
  <2>3. /\ n \in JobRecs /\ n.st = job[k].st /\ n.id = job[k].id /\ n.owner = job[k].owner
        /\ n.born = job[k].born /\ n.live = job[k].live /\ n.fg = job[k].fg
        /\ n.told = job[k].told /\ n.missed = b
    BY ONLY <2>2 DEF JobRecs
  <2> HIDE DEF n
  <2> QED
    BY <2>1, <2>3 DEF b
<1>5. job' \in [Jobs -> JobRecs]
  BY <1>2, <1>4
<1>6. \A k \in Jobs : job[k].told \in BOOLEAN
  BY JobFields
<1>7. \A k \in Jobs : /\ job'[k].told = (job[k].told \/ k \in {})
                      /\ job'[k].missed = (job[k].missed \/ k \in taken)
  BY <1>4, <1>6
<1>8. taken = {e.job : e \in Fresh(o)}
  BY DEF taken
<1>9. GivesUp(o, taken, {}, taken)
  BY <1>u, <1>2, <1>4, <1>5, <1>7, <1>8 DEF GivesUp
<1> QED
  BY <1>1, <1>9, GivenUp, Zenon

-----------------------------------------------------------------------------
(* The hub tool.                                                           *)

\* Telling changes nothing else of a job.
LEMMA TellFields ==
    ASSUME IInv, NEW js
    PROVE  /\ Tell(js) \in [Jobs -> JobRecs]
           /\ \A k \in Jobs : LET n == Tell(js)[k] IN
                 /\ n.st = job[k].st /\ n.id = job[k].id /\ n.owner = job[k].owner
                 /\ n.born = job[k].born /\ n.live = job[k].live
                 /\ n.fg = job[k].fg /\ n.missed = job[k].missed
                 /\ n.told = (job[k].told \/ (k \in js /\ Settled(k) /\ ~Over(k)))
<1>1. \A k \in Jobs : LET n == Tell(js)[k] IN
         /\ n \in JobRecs
         /\ n.st = job[k].st /\ n.id = job[k].id /\ n.owner = job[k].owner
         /\ n.born = job[k].born /\ n.live = job[k].live
         /\ n.fg = job[k].fg /\ n.missed = job[k].missed
         /\ n.told = (job[k].told \/ (k \in js /\ Settled(k) /\ ~Over(k)))
  <2> TAKE k \in Jobs
  <2> DEFINE b == job[k].told \/ (k \in js /\ Settled(k) /\ ~Over(k))
             n == [job[k] EXCEPT !.told = b]
             t == Tell(js)[k]
  <2>1. t = n
    BY DEF Tell
  <2>2. b \in BOOLEAN /\ job[k] \in JobRecs
    BY JobFields
  <2> HIDE DEF b
  <2>3. /\ n \in JobRecs /\ n.st = job[k].st /\ n.id = job[k].id /\ n.owner = job[k].owner
        /\ n.born = job[k].born /\ n.live = job[k].live /\ n.fg = job[k].fg
        /\ n.missed = job[k].missed /\ n.told = b
    BY ONLY <2>2 DEF JobRecs
  <2> HIDE DEF n, t
  <2>4. /\ t \in JobRecs
        /\ t.st = job[k].st /\ t.id = job[k].id /\ t.owner = job[k].owner
        /\ t.born = job[k].born /\ t.live = job[k].live
        /\ t.fg = job[k].fg /\ t.missed = job[k].missed /\ t.told = b
    BY <2>1, <2>3
  <2> QED
    BY <2>4 DEF b, t
<1>2. Tell(js) \in [Jobs -> JobRecs]
  BY <1>1 DEF Tell
<1> QED
  BY <1>1, <1>2


\* A snapshot tells what has settled, and mutes just that; the wait it ends owes no more.
LEMMA ReportKeeps ==
    ASSUME IInv, NEW js \in SUBSET Jobs, \A k \in js : job[k].st # "new", Report(js),
           hub' \in [Owners -> Waits],
           \A o \in Owners : \/ hub'[o] = hub[o]
                             \/ /\ hub[o].pc = "unwatched" /\ hub[o].jobs \subseteq js
                                /\ hub'[o] = NoWait,
           UNCHANGED <<row, timers, watched, live, epoch, yielded, reap, disposed, repeated>>
    PROVE  IInv' /\ JobSteps
<1>u. UNCHANGED <<row, timers, watched, live, epoch, yielded, reap, disposed, repeated>>
  OBVIOUS
<1>a. PICK shown, ids :
         /\ shown = {Latest(k) : k \in js}
         /\ ids = {job[k].id : k \in {k \in shown : job[k].st # "running"}}
         /\ job' = Tell(shown)
         /\ muted' = muted \cup ids
         /\ post' = IF ids = {} THEN post ELSE DropMuted(post, muted \cup ids \cup watched)
  BY DEF Report, Acknowledge
<1>b. /\ \A s \in shown : /\ s \in Jobs /\ job[s].st # "new" /\ job[s].id \in Ids
                          /\ HasRow(s) \/ row[job[s].id] = None
      /\ \A k \in js : HasRow(k) => k \in shown
      /\ ids \subseteq Ids
  <2>1. \A k \in js : k \in Jobs /\ job[k].st # "new" /\ job[k].id \in Ids
    BY DEF IInv, JobsKnown
  <2>2. \A k \in js : /\ Latest(k) \in Jobs /\ job[Latest(k)].st # "new" /\ job[Latest(k)].id \in Ids
                      /\ HasRow(Latest(k)) \/ row[job[Latest(k)].id] = None
                      /\ HasRow(k) => Latest(k) = k
    BY <2>1, RowFields, NoneAssumption DEF Latest, HasRow
  <2>3. \A s \in shown : /\ s \in Jobs /\ job[s].st # "new" /\ job[s].id \in Ids
                         /\ HasRow(s) \/ row[job[s].id] = None
    BY <1>a, <2>2
  <2> QED
    BY <1>a, <2>2, <2>3
<1>c. \A k \in Jobs : HasRow(k) /\ job[k].id \in ids => k \in shown /\ job[k].st # "running"
  BY <1>a, <1>b, NoneAssumption DEF HasRow
<1>d. /\ job' \in [Jobs -> JobRecs]
      /\ \A k \in Jobs :
            /\ job'[k].st = job[k].st /\ job'[k].id = job[k].id /\ job'[k].owner = job[k].owner
            /\ job'[k].born = job[k].born /\ job'[k].live = job[k].live
            /\ job'[k].fg = job[k].fg /\ job'[k].missed = job[k].missed
            /\ job'[k].told = (job[k].told \/ (k \in shown /\ job[k].st = "settled" /\ ~Over(k)))
  BY <1>a, TellFields DEF Settled
<1>e. /\ post' \in Posts /\ PostKnown(post', job')
      /\ Passed(post, post', job', muted \cup ids \cup watched)
  <2>1. Follows(job, job')
    BY <1>d DEF Follows
  <2>2. post \in Posts /\ PostKnown(post, job') /\ QueuedNow(post, job')
    BY <2>1, PostParts, QueuedStill
  <2>3. Moved(post, post', muted \cup ids \cup watched)
    BY <1>a, <2>2, SameMoves, DropMoves
  <2> QED
    BY <2>2, <2>3, MoveEffects
<1>f. \A k \in Jobs :
         /\ Over(k)' <=> Over(k)
         /\ Current(k)' <=> Current(k)
         /\ HasRow(k)' <=> HasRow(k)
         /\ Awaited(k)' => Awaited(k) /\ ~(k \in shown /\ job[k].st = "settled")
         /\ Yielded(k)' <=> Yielded(k)
         /\ Copied(k)' => Copied(k)
  <2>0. UNCHANGED <<row, watched, live, epoch, yielded, disposed>>
    BY <1>u DEF sessionVars
  <2>1. \A k \in Jobs :
           /\ Over(k)' <=> Over(k)
           /\ Current(k)' <=> Current(k)
           /\ HasRow(k)' <=> HasRow(k)
           /\ Yielded(k)' <=> Yielded(k)
    BY <1>d, <2>0 DEF Over, Current, HasRow, Yielded
  <2>2. \A k \in Jobs : Awaited(k)' => Awaited(k) /\ ~(k \in shown /\ job[k].st = "settled")
    BY <1>d, <2>1 DEF Awaited
  <2>3. \A k \in Jobs : Copied(k)' => Copied(k)
    BY <1>e, <2>1 DEF Copied, Passed
  <2> QED
    BY <2>1, <2>2, <2>3
<1>g. Tame => \A k \in Jobs : Awaited(k)' => job[k].id \notin ids
  BY <1>c, <1>f, AwaitedKnown
<1>h. \A o \in Owners, k \in Jobs :
         /\ Owes(o, k) => Owes(o, k)' \/ k \in js
         /\ hub[o].pc = "waiting" /\ Owes(o, k) => hub'[o].pc = "waiting" /\ Owes(o, k)' 
  BY <1>d DEF Owes
<1>i. \A o \in Owners : /\ \A e \in yielded[o] : e.job \in Jobs
                        /\ \A k \in hub[o].jobs : k \in Jobs
                        /\ reap[o].ids \subseteq Ids
  BY DEF IInv, Fields, Entries, Waits, Reaps
<1>1. (NeverRepeated)'
  BY <1>u DEF IInv, NeverRepeated
<1>2. Fields'
  BY <1>u, <1>a, <1>b, <1>d, <1>e DEF IInv, Fields, sessionVars
<1>3. JobsKnown'
  BY <1>u, <1>d, <1>f DEF IInv, JobsKnown, sessionVars
<1>4. RowsKnown'
  <2>1. \A o \in Owners : \A k \in hub'[o].jobs : k \in Jobs /\ job[k].st # "new"
    BY <1>i DEF IInv, RowsKnown, NoWait
  <2> QED
    BY <1>u, <1>d, <2>1, RowFields DEF IInv, RowsKnown
<1>5. RunningKnown'
  BY <1>d, <1>f DEF IInv, RunningKnown
<1>6. Addressed'
  <2> SUFFICES ASSUME Timely, NEW o2 \in Owners, NEW e \in yielded'[o2]
               PROVE  /\ job'[e.job].st = "settled" /\ e.id = job'[e.job].id
                      /\ o2 = job'[e.job].owner
    BY <1>e DEF Addressed, PostKnown
  <2>1. e \in yielded[o2] /\ e.job \in Jobs
    BY <1>u, <1>i DEF sessionVars
  <2> QED
    BY <1>d, <2>1 DEF IInv, Addressed
<1>7. Stamped'
  <2> SUFFICES ASSUME Tame PROVE Stamped'
    BY DEF Stamped
  <2>0. StampedIn(post', job')
    BY <1>e DEF PostKnown
  <2>1. \A o2 \in Owners : \A e \in yielded'[o2] : e.epoch = epoch'[o2] /\ Current(e.job)'
    BY <1>u, <1>f, <1>i DEF IInv, Stamped, sessionVars
  <2>2. \A k \in Jobs : InQueue(post', k) => HasRow(k)' /\ Current(k)'
    BY <1>e, <1>f DEF IInv, Stamped, Passed
  <2>3. \A k \in Jobs : (InFlight(post', k) \/ Yielded(k)') /\ Current(k)' /\ job'[k].owner \in live'
                           => HasRow(k)'
    BY <1>u, <1>d, <1>e, <1>f DEF IInv, Stamped, Passed, sessionVars
  <2> QED
    BY <2>0, <2>1, <2>2, <2>3 DEF Stamped
<1>8. OneCopy'
  BY <1>e, <1>f DEF IInv, OneCopy, PostKnown, Passed
<1>9. ForegroundKnown'
  <2> SUFFICES ASSUME Tame, NEW k \in Jobs, job'[k].fg
               PROVE  MaxEpoch = 0 /\ HasRow(k)' /\ job'[k].id \in muted' /\ ~Copied(k)'
    BY DEF ForegroundKnown
  <2>1. MaxEpoch = 0 /\ HasRow(k) /\ job[k].id \in muted /\ ~Copied(k)
    BY <1>d, ForegroundHas
  <2> QED
    BY <1>a, <1>d, <1>f, <2>1
<1>10. SuppressedKnown'
  <2> SUFFICES ASSUME Tame, NEW k \in Jobs, Awaited(k)'
               PROVE  /\ job'[k].id \in muted' => job'[k].fg
                      /\ job'[k].id \in watched' =>
                            \E o2 \in Owners : hub'[o2].pc = "waiting" /\ Owes(o2, k)'
    BY DEF SuppressedKnown
  <2>1. Awaited(k) /\ job[k].id \notin ids
    BY <1>f, <1>g
  <2>2. /\ job[k].id \in muted => job[k].fg
        /\ job[k].id \in watched => \E o2 \in Owners : hub[o2].pc = "waiting" /\ Owes(o2, k)
    BY <2>1, AwaitedKnown
  <2> QED
    BY <1>u, <1>a, <1>d, <1>h, <2>1, <2>2
<1>11. NothingLost'
  <2> SUFFICES ASSUME Tame, NEW k \in Jobs, Awaited(k)', job'[k].st = "settled"
               PROVE  HasRow(k)' /\ (Copied(k) \/ job[k].fg \/ \E o2 \in Owners : Owes(o2, k))'
    BY DEF NothingLost
  <2>1. Awaited(k) /\ job[k].st = "settled" /\ job[k].id \notin ids /\ k \notin shown
    BY <1>d, <1>f, <1>g
  <2>2. /\ HasRow(k) /\ job[k].owner \in live
        /\ job[k].id \in muted => job[k].fg
        /\ job[k].id \in watched => \E o2 \in Owners : Owes(o2, k)
        /\ Copied(k) \/ job[k].fg \/ \E o2 \in Owners : Owes(o2, k)
    BY <2>1, AwaitedKnown
  <2>3. \A o2 \in Owners : Owes(o2, k) => Owes(o2, k)'
    BY <1>b, <1>h, <2>1, <2>2
  <2>4. Copied(k) => Copied(k)' \/ job[k].id \in muted \cup watched
    BY <1>d, <1>e, <1>f, <2>1, <2>2 DEF Passed, Copied, Tame
  <2> QED
    BY <1>d, <1>f, <2>2, <2>3, <2>4
<1>12. ToldKnown'
  <2> SUFFICES ASSUME Tame, NEW k \in Jobs, job'[k].told, Copied(k)', Current(k)', job'[k].owner \in live'
               PROVE  job'[k].id \in muted'
    BY DEF ToldKnown
  <2>1. Copied(k) /\ Current(k) /\ job[k].owner \in live /\ job'[k].id = job[k].id
    BY <1>u, <1>d, <1>f DEF sessionVars
  <2>2. CASE job[k].told
    BY <1>a, <2>1, <2>2 DEF IInv, ToldKnown
  <2>3. CASE ~job[k].told
    <3>1. k \in shown /\ job[k].st = "settled"
      BY <1>d, <2>3
    <3>2. job[k].id \in ids
      BY <1>a, <3>1
    <3> QED
      BY <1>a, <2>1, <3>2
  <2> QED
    BY <2>2, <2>3
<1>13. ReapKnown'
  BY <1>u, <1>d, <1>f, <1>i, RowFields DEF IInv, ReapKnown
<1>14. JobSteps
  <2> SUFFICES ASSUME Tame, NEW k \in Jobs
               PROVE  /\ Over(k) => Over(k)'
                      /\ job'[k].st # job[k].st =>
                            \/ job[k].st = "new" /\ job'[k].st = "running"
                            \/ job[k].st = "running" /\ job'[k].st = "cancelled"
                            \/ job[k].st = "running" /\ job'[k].st = "settled" /\ ~Over(k)'
                      /\ job[k].told => job'[k].told
                      /\ job'[k].told /\ ~job[k].told => job[k].st = "settled" /\ ~Over(k)
    BY DEF JobSteps
  <2> QED
    BY <1>d, <1>f
<1> QED
  BY <1>1, <1>2, <1>3, <1>4, <1>5, <1>6, <1>7, <1>8, <1>9, <1>10, <1>11, <1>12, <1>13, <1>14 DEF
     IInv

LEMMA HubJobsKeeps ==
    ASSUME IInv, NEW o \in Owners, HubJobs(o)
    PROVE  IInv' /\ JobSteps
<1>1. RowsOf(o) \in SUBSET Jobs /\ \A k \in RowsOf(o) : job[k].st # "new"
  BY RowFields DEF RowsOf
<1>2. hub' \in [Owners -> Waits] /\ \A x \in Owners : hub'[x] = hub[x]
  BY DEF HubJobs, IInv, Fields
<1>3. Report(RowsOf(o)) /\ UNCHANGED <<row, timers, watched, live, epoch, yielded, reap, disposed, repeated>>
  BY DEF HubJobs, sessionVars
<1> QED
  BY <1>1, <1>2, <1>3, ReportKeeps

LEMMA NoWaits == NoWait \in Waits
BY DEF NoWait, Waits

LEMMA HubReportKeeps ==
    ASSUME IInv, NEW o \in Owners, HubReport(o), ~hub[o].message
    PROVE  IInv' /\ JobSteps
<1>1. hub[o].jobs \in SUBSET Jobs /\ \A k \in hub[o].jobs : job[k].st # "new"
  BY DEF IInv, Fields, Waits, RowsKnown
<1>2. /\ hub' \in [Owners -> Waits] /\ hub'[o] = NoWait /\ \A x \in Owners : x # o => hub'[x] = hub[x]
      /\ hub[o].pc = "unwatched"
  BY NoWaits DEF HubReport, IInv, Fields
<1>3. Report(hub[o].jobs) /\ UNCHANGED <<row, timers, watched, live, epoch, yielded, reap, disposed, repeated>>
  BY DEF HubReport, sessionVars
<1> QED
  BY <1>1, <1>2, <1>3, ReportKeeps

\* A wait that a message ends marks the results it alone owed as missed.
LEMMA HubMissedKeeps ==
    ASSUME IInv, NEW o \in Owners, HubReport(o), hub[o].message
    PROVE  IInv' /\ JobSteps
<1>u. UNCHANGED <<row, timers, muted, watched, post, live, epoch, yielded, reap, disposed,
                repeated>>
  BY DEF HubReport, jobVars, muteVars, sessionVars
<1>a. /\ hub' \in [Owners -> Waits] /\ hub'[o] = NoWait /\ \A x \in Owners : x # o => hub'[x] = hub[x]
      /\ hub[o].pc = "unwatched"
  BY NoWaits DEF HubReport, IInv, Fields
<1>b. /\ job' \in [Jobs -> JobRecs]
      /\ \A k \in Jobs :
            /\ job'[k].st = job[k].st /\ job'[k].id = job[k].id /\ job'[k].owner = job[k].owner
            /\ job'[k].born = job[k].born /\ job'[k].live = job[k].live
            /\ job'[k].fg = job[k].fg /\ job'[k].told = job[k].told
            /\ job'[k].missed = (job[k].missed \/ (Owes(o, k) /\ Settled(k) /\ ~Carried(k)))
  <2>1. job' = [j \in Jobs |-> [job[j] EXCEPT !.missed =
                     job[j].missed \/ (Owes(o, j) /\ Settled(j) /\ ~Carried(j))]]
    BY DEF HubReport
  <2>2. \A k \in Jobs :
            /\ job'[k] \in JobRecs
            /\ job'[k].st = job[k].st /\ job'[k].id = job[k].id /\ job'[k].owner = job[k].owner
            /\ job'[k].born = job[k].born /\ job'[k].live = job[k].live
            /\ job'[k].fg = job[k].fg /\ job'[k].told = job[k].told
            /\ job'[k].missed = (job[k].missed \/ (Owes(o, k) /\ Settled(k) /\ ~Carried(k)))
    <3> TAKE k \in Jobs
    <3> DEFINE b == job[k].missed \/ (Owes(o, k) /\ Settled(k) /\ ~Carried(k))
               n == [job[k] EXCEPT !.missed = b]
    <3>1. job'[k] = n
      BY <2>1
    <3>2. b \in BOOLEAN /\ job[k] \in JobRecs
      BY JobFields
    <3> HIDE DEF b
    <3>3. /\ n \in JobRecs /\ n.st = job[k].st /\ n.id = job[k].id /\ n.owner = job[k].owner
          /\ n.born = job[k].born /\ n.live = job[k].live /\ n.fg = job[k].fg
          /\ n.told = job[k].told /\ n.missed = b
      BY ONLY <3>2 DEF JobRecs
    <3> HIDE DEF n
    <3> QED
      BY <3>1, <3>3 DEF b
  <2>3. job' \in [Jobs -> JobRecs]
    BY <2>1, <2>2
  <2> QED
    BY <2>2, <2>3
<1>c. \A k \in Jobs :
         /\ Over(k)' <=> Over(k)
         /\ Current(k)' <=> Current(k)
         /\ HasRow(k)' <=> HasRow(k)
         /\ Awaited(k)' => Awaited(k) /\ ~(Owes(o, k) /\ Settled(k) /\ ~Carried(k))
         /\ Copied(k)' <=> Copied(k)
         /\ Yielded(k)' <=> Yielded(k)
  BY <1>u, <1>b DEF Over, Current, HasRow, Awaited, Copied, Yielded
<1>d. \A k \in Jobs, x \in Owners : x # o /\ Owes(x, k) => hub'[x].pc = hub[x].pc /\ Owes(x, k)' 
  BY <1>a, <1>b DEF Owes
<1>e. /\ PostKnown(post, job') /\ \A x \in Owners : \A e \in yielded[x] : e.job \in Jobs
      /\ \A x \in Owners : \A k \in hub[x].jobs : k \in Jobs
      /\ \A x \in Owners : reap[x].ids \subseteq Ids
  <2>1. Follows(job, job')
    BY <1>b DEF Follows
  <2> QED
    BY <2>1, QueuedStill DEF IInv, Fields, Entries, Waits, Reaps
<1>f. \A k \in Jobs : Carried(k) => Copied(k) \/ job[k].fg
  BY DEF Carried, Queued, Copied, InQueue, InFlight, Yielded
<1>1. (OneCopy /\ NeverRepeated)'
  BY <1>u DEF IInv, OneCopy, Yielded, NeverRepeated
<1>2. Fields'
  BY <1>u, <1>a, <1>b DEF IInv, Fields
<1>3. JobsKnown'
  BY <1>u, <1>b, <1>c DEF IInv, JobsKnown
<1>4. RowsKnown'
  <2>1. \A x \in Owners : \A k \in hub'[x].jobs : k \in Jobs /\ job[k].st # "new"
    BY <1>a, <1>e DEF IInv, RowsKnown, NoWait
  <2> QED
    BY <1>u, <1>b, <2>1, RowFields DEF IInv, RowsKnown
<1>5. RunningKnown'
  BY <1>b, <1>c, ZenonT(60) DEF IInv, RunningKnown, Settled
<1>6. Addressed'
  <2> SUFFICES ASSUME Timely, NEW o2 \in Owners, NEW e \in yielded'[o2]
               PROVE  /\ job'[e.job].st = "settled" /\ e.id = job'[e.job].id
                      /\ o2 = job'[e.job].owner
    BY <1>u, <1>e DEF Addressed, PostKnown
  <2> QED
    BY <1>u, <1>b, <1>e DEF IInv, Addressed
<1>7. Stamped'
  <2> SUFFICES ASSUME Tame PROVE Stamped'
    BY DEF Stamped
  <2>0. StampedIn(post', job')
    BY <1>u, <1>e DEF PostKnown
  <2>1. \A o2 \in Owners : \A e \in yielded'[o2] : e.epoch = epoch'[o2] /\ Current(e.job)'
    BY <1>u, <1>c, <1>e DEF IInv, Stamped
  <2>2. \A k \in Jobs : InQueue(post', k) => HasRow(k)' /\ Current(k)'
    BY <1>u, <1>c DEF IInv, Stamped
  <2>3. \A k \in Jobs : (InFlight(post', k) \/ Yielded(k)') /\ Current(k)' /\ job'[k].owner \in live'
                           => HasRow(k)'
    BY <1>u, <1>b, <1>c DEF IInv, Stamped
  <2> QED
    BY <2>0, <2>1, <2>2, <2>3 DEF Stamped
<1>8. ForegroundKnown'
  BY <1>u, <1>b, <1>c DEF IInv, ForegroundKnown
<1>9. SuppressedKnown'
  <2> SUFFICES ASSUME Tame, NEW k \in Jobs, Awaited(k)'
               PROVE  /\ job'[k].id \in muted' => job'[k].fg
                      /\ job'[k].id \in watched' =>
                            \E o2 \in Owners : hub'[o2].pc = "waiting" /\ Owes(o2, k)'
    BY DEF SuppressedKnown
  <2>1. Awaited(k)
    BY <1>c
  <2>2. /\ job[k].id \in muted => job[k].fg
        /\ job[k].id \in watched => \E o2 \in Owners : hub[o2].pc = "waiting" /\ Owes(o2, k)
    BY <2>1, AwaitedKnown
  <2> QED
    BY <1>u, <1>a, <1>b, <1>d, <2>2
<1>10. NothingLost'
  <2> SUFFICES ASSUME Tame, NEW k \in Jobs, Awaited(k)', job'[k].st = "settled"
               PROVE  HasRow(k)' /\ (Copied(k) \/ job[k].fg \/ \E o2 \in Owners : Owes(o2, k))'
    BY DEF NothingLost
  <2>1. Awaited(k) /\ job[k].st = "settled"
    BY <1>b, <1>c
  <2>2. HasRow(k) /\ (Copied(k) \/ job[k].fg \/ \E x \in Owners : Owes(x, k))
    BY <2>1, AwaitedKnown
  <2>3. Owes(o, k) => Copied(k) \/ job[k].fg
    BY <1>c, <1>f, <2>1 DEF Settled
  <2> QED
    BY <1>b, <1>c, <1>d, <2>2, <2>3
<1>11. ToldKnown'
  BY <1>u, <1>b, <1>c DEF IInv, ToldKnown
<1>12. ReapKnown'
  BY <1>u, <1>b, <1>c, <1>e, RowFields DEF IInv, ReapKnown
<1>13. JobSteps
  BY <1>b, <1>c DEF JobSteps
<1> QED
  BY <1>1, <1>2, <1>3, <1>4, <1>5, <1>6, <1>7, <1>8, <1>9, <1>10, <1>11, <1>12, <1>13 DEF IInv

\* The id that a cancel mutes is the cancelled job's own.
LEMMA HubCancelKeeps ==
    ASSUME IInv, NEW j \in Jobs, HubCancel(job[j].owner, j)
    PROVE  IInv' /\ JobSteps
<1>u. UNCHANGED <<row, watched, live, epoch, yielded, hub, reap, disposed, repeated>>
  BY DEF HubCancel, jobVars, muteVars, sessionVars
<1>a. /\ job[j].st = "running" /\ HasRow(j) /\ job[j].id \in Ids
      /\ job' = Cancelled(job, {j}) /\ muted' = muted \cup {job[j].id}
      /\ post' = DropMuted(post, muted \cup {job[j].id} \cup watched)
  BY RowFields DEF HubCancel, Acknowledge, RunningRows
<1>b. /\ job' \in [Jobs -> JobRecs]
      /\ \A k \in Jobs :
            /\ job'[k].st = (IF k \in {j} THEN "cancelled" ELSE job[k].st)
            /\ job'[k].id = job[k].id /\ job'[k].owner = job[k].owner
            /\ job'[k].born = job[k].born /\ job'[k].live = job[k].live
            /\ job'[k].fg = job[k].fg /\ job'[k].told = job[k].told
            /\ job'[k].missed = job[k].missed
  BY <1>a, CancelFields, JobFields
<1>c. \A k \in Jobs : HasRow(k) /\ k # j => job[k].id # job[j].id
  BY <1>a DEF HasRow
<1>e. /\ post' \in Posts /\ PostKnown(post', job')
      /\ Passed(post, post', job', muted \cup {job[j].id} \cup watched)
  <2>1. Follows(job, job')
    BY <1>a, <1>b DEF Follows
  <2>2. post \in Posts /\ PostKnown(post, job') /\ QueuedNow(post, job')
    BY <2>1, PostParts, QueuedStill
  <2>3. Moved(post, post', muted \cup {job[j].id} \cup watched)
    BY <1>a, <2>2, DropMoves
  <2> QED
    BY <2>2, <2>3, MoveEffects
<1>f. \A k \in Jobs :
         /\ Over(k)' <=> Over(k)
         /\ Current(k)' <=> Current(k)
         /\ HasRow(k)' <=> HasRow(k)
         /\ Awaited(k)' => Awaited(k) /\ k # j
         /\ Yielded(k)' <=> Yielded(k)
         /\ Copied(k)' => Copied(k)
         /\ \A x \in Owners : Owes(x, k)' <=> Owes(x, k)
         /\ job'[k].st = "new" <=> job[k].st = "new"
         /\ k # j => job'[k].st = job[k].st
  <2>1. \A k \in Jobs :
           /\ Over(k)' <=> Over(k)
           /\ Current(k)' <=> Current(k)
           /\ HasRow(k)' <=> HasRow(k)
           /\ Yielded(k)' <=> Yielded(k)
           /\ \A x \in Owners : Owes(x, k)' <=> Owes(x, k)
           /\ job'[k].st = "new" <=> job[k].st = "new"
           /\ k # j => job'[k].st = job[k].st
    BY <1>u, <1>a, <1>b DEF Over, Current, HasRow, Yielded, Owes
  <2>2. \A k \in Jobs : Awaited(k)' => Awaited(k) /\ k # j
    BY <1>b, <2>1 DEF Awaited
  <2>3. \A k \in Jobs : Copied(k)' => Copied(k)
    BY <1>e, <2>1 DEF Copied, Passed
  <2> QED
    BY <2>1, <2>2, <2>3
<1>g. \A k \in Jobs : /\ job'[k].st \in {"running", "settled"} => job'[k].st = job[k].st
                      /\ job[k].st = "settled" => job'[k].st = "settled"
  <2> TAKE k \in Jobs
  <2>1. CASE k = j
    <3>1. job'[k].st = "cancelled"
      BY <1>b, <2>1
    <3> QED
      BY <1>a, <2>1, <3>1
  <2>2. CASE k # j
    BY <1>f, <2>2
  <2> QED
    BY <2>1, <2>2
<1>i. \A o \in Owners : /\ \A e \in yielded[o] : e.job \in Jobs
                        /\ \A k \in hub[o].jobs : k \in Jobs
                        /\ reap[o].ids \subseteq Ids
  BY DEF IInv, Fields, Entries, Waits, Reaps
<1>1. (NeverRepeated)'
  BY <1>u DEF IInv, NeverRepeated
<1>2. Fields'
  <2>1. timers' \subseteq Ids
    BY <1>a DEF HubCancel, Schedule, IInv, Fields
  <2> QED
    BY <1>u, <1>a, <1>b, <1>e, <2>1 DEF IInv, Fields
<1>3. JobsKnown'
  <2> SUFFICES ASSUME NEW k \in Jobs
               PROVE  /\ job'[k].st = "new" => job'[k].id = None /\ ~job'[k].live /\ ~job'[k].fg
                      /\ job'[k].st # "new" =>
                            /\ job'[k].id \in Ids /\ job'[k].owner \in Owners
                            /\ job'[k].born <= epoch'[job'[k].owner]
                            /\ ~Over(k)' => job'[k].owner \in live'
                      /\ job'[k].st = "running" => job'[k].live
                      /\ job'[k].st = "settled" => ~job'[k].live
    BY DEF JobsKnown
  <2>1. job'[k].st = "running" => job[k].st = "running"
    BY <1>g
  <2>2. job'[k].st = "settled" => job[k].st = "settled"
    BY <1>g
  <2> QED
    BY <1>u, <1>b, <1>f, <2>1, <2>2 DEF IInv, JobsKnown
<1>4. RowsKnown'
  BY <1>u, <1>b, <1>f, <1>i, RowFields DEF IInv, RowsKnown
<1>5. RunningKnown'
  <2> SUFFICES ASSUME Timely, NEW k \in Jobs
               PROVE  /\ job'[k].st = "running" => HasRow(k)' /\ ~Over(k)'
                      /\ job'[k].told \/ job'[k].missed => job'[k].st = "settled"
    BY DEF RunningKnown
  <2>1. job[k].st = "settled" => job'[k].st = "settled"
    BY <1>g
  <2>2. job'[k].st = "running" => job[k].st = "running"
    BY <1>g
  <2> QED
    BY <1>b, <1>f, <2>1, <2>2 DEF IInv, RunningKnown
<1>6. Addressed'
  <2> SUFFICES ASSUME Timely, NEW o2 \in Owners, NEW e \in yielded'[o2]
               PROVE  /\ job'[e.job].st = "settled" /\ e.id = job'[e.job].id
                      /\ o2 = job'[e.job].owner
    BY <1>e DEF Addressed, PostKnown
  <2>1. e \in yielded[o2] /\ e.job \in Jobs
    BY <1>u, <1>i
  <2>2. job[e.job].st = "settled" /\ e.id = job[e.job].id /\ o2 = job[e.job].owner
    BY <2>1 DEF IInv, Addressed
  <2> QED
    BY <1>b, <1>g, <2>1, <2>2
<1>7. Stamped'
  <2> SUFFICES ASSUME Tame PROVE Stamped'
    BY DEF Stamped
  <2>0. StampedIn(post', job')
    BY <1>e DEF PostKnown
  <2>1. \A o2 \in Owners : \A e \in yielded'[o2] : e.epoch = epoch'[o2] /\ Current(e.job)'
    BY <1>u, <1>f, <1>i DEF IInv, Stamped
  <2>2. \A k \in Jobs : InQueue(post', k) => HasRow(k)' /\ Current(k)'
    BY <1>e, <1>f DEF IInv, Stamped, Passed
  <2>3. \A k \in Jobs : (InFlight(post', k) \/ Yielded(k)') /\ Current(k)' /\ job'[k].owner \in live'
                           => HasRow(k)'
    BY <1>u, <1>b, <1>e, <1>f DEF IInv, Stamped, Passed
  <2> QED
    BY <2>0, <2>1, <2>2, <2>3 DEF Stamped
<1>8. OneCopy'
  BY <1>e, <1>f DEF IInv, OneCopy, PostKnown, Passed
<1>9. ForegroundKnown'
  <2> SUFFICES ASSUME Tame, NEW k \in Jobs, job'[k].fg
               PROVE  MaxEpoch = 0 /\ HasRow(k)' /\ job'[k].id \in muted' /\ ~Copied(k)'
    BY DEF ForegroundKnown
  <2>1. MaxEpoch = 0 /\ HasRow(k) /\ job[k].id \in muted /\ ~Copied(k)
    BY <1>b, ForegroundHas
  <2> QED
    BY <1>a, <1>b, <1>f, <2>1
<1>10. SuppressedKnown'
  <2> SUFFICES ASSUME Tame, NEW k \in Jobs, Awaited(k)'
               PROVE  /\ job'[k].id \in muted' => job'[k].fg
                      /\ job'[k].id \in watched' =>
                            \E o2 \in Owners : hub'[o2].pc = "waiting" /\ Owes(o2, k)'
    BY DEF SuppressedKnown
  <2>1. Awaited(k) /\ k # j
    BY <1>f
  <2>2. /\ HasRow(k)
        /\ job[k].id \in muted => job[k].fg
        /\ job[k].id \in watched => \E o2 \in Owners : hub[o2].pc = "waiting" /\ Owes(o2, k)
    BY <2>1, AwaitedKnown
  <2> QED
    BY <1>u, <1>a, <1>b, <1>c, <1>f, <2>1, <2>2, ZenonT(60)
<1>11. NothingLost'
  <2> SUFFICES ASSUME Tame, NEW k \in Jobs, Awaited(k)', job'[k].st = "settled"
               PROVE  HasRow(k)' /\ (Copied(k) \/ job[k].fg \/ \E o2 \in Owners : Owes(o2, k))'
    BY DEF NothingLost
  <2>1. Awaited(k) /\ job[k].st = "settled" /\ k # j
    BY <1>f
  <2>2. /\ HasRow(k) /\ job[k].owner \in live
        /\ job[k].id \in muted => job[k].fg
        /\ job[k].id \in watched => \E o2 \in Owners : Owes(o2, k)
        /\ Copied(k) \/ job[k].fg \/ \E o2 \in Owners : Owes(o2, k)
    BY <2>1, AwaitedKnown
  <2>3. job[k].id # job[j].id
    BY <1>c, <2>1, <2>2
  <2>4. Copied(k) => Copied(k)' \/ job[k].id \in muted \cup watched
    BY <1>b, <1>e, <1>f, <2>2, <2>3 DEF Passed, Copied, Tame
  <2> QED
    BY <1>b, <1>f, <2>2, <2>4
<1>12. ToldKnown'
  BY <1>u, <1>a, <1>b, <1>f DEF IInv, ToldKnown
<1>13. ReapKnown'
  BY <1>u, <1>b, <1>f, <1>i, RowFields DEF IInv, ReapKnown
<1>14. JobSteps
  <2> SUFFICES ASSUME Tame, NEW k \in Jobs
               PROVE  /\ Over(k) => Over(k)'
                      /\ job'[k].st # job[k].st =>
                            \/ job[k].st = "new" /\ job'[k].st = "running"
                            \/ job[k].st = "running" /\ job'[k].st = "cancelled"
                            \/ job[k].st = "running" /\ job'[k].st = "settled" /\ ~Over(k)'
                      /\ job[k].told => job'[k].told
                      /\ job'[k].told /\ ~job[k].told => job[k].st = "settled" /\ ~Over(k)
    BY DEF JobSteps
  <2> QED
    BY <1>a, <1>b, <1>f
<1> QED
  BY <1>1, <1>2, <1>3, <1>4, <1>5, <1>6, <1>7, <1>8, <1>9, <1>10, <1>11, <1>12, <1>13, <1>14 DEF
     IInv

\* Whatever a wait watches it owes.
LEMMA HubWaitKeeps ==
    ASSUME IInv, NEW o \in Owners, NEW js \in SUBSET RowsOf(o), HubWait(o, js)
    PROVE  IInv' /\ JobSteps
<1>u. UNCHANGED <<job, row, timers, muted, post, live, epoch, yielded, reap, disposed, repeated>>
  BY DEF HubWait, jobVars, muteVars, sessionVars
<1>a. PICK ids :
         /\ ids = {job[j].id : j \in js \cap RunningRows}
         /\ hub[o].pc = "idle"
         /\ hub' = [hub EXCEPT ![o] = [pc |-> "waiting", jobs |-> js, message |-> FALSE, ids |-> ids]]
         /\ watched' = watched \cup ids
  BY DEF HubWait
<1>b. /\ js \subseteq Jobs /\ ids \subseteq Ids
      /\ \A k \in js : job[k].st # "new"
      /\ \A k \in Jobs : HasRow(k) /\ job[k].id \in ids => k \in js
      /\ \A i \in ids : row[i] # None
  <2>1. \A j \in js : j \in Jobs /\ job[j].id \in Ids /\ HasRow(j) /\ job[j].st # "new" /\ j # None
    BY RowFields, NoneAssumption DEF RowsOf
  <2> QED
    BY <1>a, <2>1 DEF HasRow
<1>c. /\ hub' \in [Owners -> Waits] /\ hub'[o].pc = "waiting" /\ hub'[o].jobs = js /\ hub'[o].ids = ids
      /\ \A x \in Owners : x # o => hub'[x] = hub[x]
  <2> DEFINE w == [pc |-> "waiting", jobs |-> js, message |-> FALSE, ids |-> ids]
  <2>1. w \in Waits /\ w.pc = "waiting" /\ w.jobs = js /\ w.ids = ids
    BY <1>b DEF Waits
  <2>2. hub' = [hub EXCEPT ![o] = w] /\ hub \in [Owners -> Waits]
    BY <1>a DEF IInv, Fields
  <2> HIDE DEF w
  <2> QED
    BY <2>1, <2>2
<1>d. \A x \in Owners, k \in Jobs :
         /\ Owes(x, k) => Owes(x, k)' /\ hub'[x] = hub[x]
         /\ x = o /\ k \in js /\ job[k].id \in ids => Owes(x, k)' 
  BY <1>u, <1>a, <1>c DEF Owes
<1>1. (JobsKnown /\ RunningKnown /\ Addressed /\ Stamped /\ OneCopy /\ ForegroundKnown /\
       ToldKnown /\ NeverRepeated /\ ReapKnown)'
  BY <1>u DEF IInv, JobsKnown, Over, RunningKnown, HasRow, Addressed, Stamped, Current, Yielded,
     OneCopy, ForegroundKnown, Copied, ToldKnown, NeverRepeated, ReapKnown
<1>2. Fields'
  BY <1>u, <1>a, <1>b, <1>c DEF IInv, Fields
<1>3. RowsKnown'
  BY <1>u, <1>a, <1>b, <1>c DEF IInv, RowsKnown
<1>4. SuppressedKnown'
  <2> SUFFICES ASSUME Tame, NEW k \in Jobs, Awaited(k)'
               PROVE  /\ job'[k].id \in muted' => job'[k].fg
                      /\ job'[k].id \in watched' =>
                            \E o2 \in Owners : hub'[o2].pc = "waiting" /\ Owes(o2, k)'
    BY DEF SuppressedKnown
  <2>1. Awaited(k)
    BY <1>u DEF Awaited, Over
  <2>2. /\ HasRow(k)
        /\ job[k].id \in muted => job[k].fg
        /\ job[k].id \in watched => \E o2 \in Owners : hub[o2].pc = "waiting" /\ Owes(o2, k)
    BY <2>1, AwaitedKnown
  <2> QED
    BY <1>u, <1>a, <1>b, <1>c, <1>d, <2>2
<1>5. NothingLost'
  <2> SUFFICES ASSUME Tame, NEW k \in Jobs, Awaited(k)', job'[k].st = "settled"
               PROVE  HasRow(k)' /\ (Copied(k) \/ job[k].fg \/ \E o2 \in Owners : Owes(o2, k))'
    BY DEF NothingLost
  <2>1. Awaited(k)
    BY <1>u DEF Awaited, Over
  <2> QED
    BY <1>u, <1>d, <2>1 DEF IInv, NothingLost, HasRow, Copied, Yielded
<1>6. JobSteps
  BY <1>u DEF JobSteps, Over
<1> QED
  BY <1>1, <1>2, <1>3, <1>4, <1>5, <1>6 DEF IInv

LEMMA HubMessageKeeps ==
    ASSUME IInv, NEW o \in Owners, HubMessage(o)
    PROVE  IInv' /\ JobSteps
<1>u. UNCHANGED <<job, row, timers, muted, watched, post, live, epoch, yielded, reap, disposed,
                repeated>>
  BY DEF HubMessage, jobVars, muteVars, sessionVars
<1>a. /\ hub' \in [Owners -> Waits]
      /\ \A x \in Owners : hub'[x].pc = hub[x].pc /\ hub'[x].jobs = hub[x].jobs /\ hub'[x].ids = hub[x].ids
  <2> DEFINE w == [hub[o] EXCEPT !.message = TRUE]
  <2>1. hub \in [Owners -> Waits] /\ hub[o] \in Waits
    BY DEF IInv, Fields
  <2>2. w \in Waits /\ w.pc = hub[o].pc /\ w.jobs = hub[o].jobs /\ w.ids = hub[o].ids
    BY ONLY <2>1 DEF Waits
  <2>3. hub' = [hub EXCEPT ![o] = w]
    BY DEF HubMessage
  <2> HIDE DEF w
  <2> QED
    BY <2>1, <2>2, <2>3
<1>d. \A x \in Owners, k \in Jobs : Owes(x, k)' <=> Owes(x, k)
  BY <1>u, <1>a DEF Owes
<1>1. (JobsKnown /\ RunningKnown /\ Addressed /\ Stamped /\ OneCopy /\ ForegroundKnown /\
       ToldKnown /\ NeverRepeated /\ ReapKnown)'
  BY <1>u DEF IInv, JobsKnown, Over, RunningKnown, HasRow, Addressed, Stamped, Current, Yielded,
     OneCopy, ForegroundKnown, Copied, ToldKnown, NeverRepeated, ReapKnown
<1>2. Fields'
  BY <1>u, <1>a DEF IInv, Fields
<1>3. RowsKnown'
  BY <1>u, <1>a DEF IInv, RowsKnown
<1>4. SuppressedKnown'
  BY <1>u, <1>a, <1>d DEF IInv, SuppressedKnown, Awaited, Over
<1>5. NothingLost'
  BY <1>u, <1>d DEF IInv, NothingLost, HasRow, Copied, Yielded, Awaited, Over
<1>6. JobSteps
  BY <1>u DEF JobSteps, Over
<1> QED
  BY <1>1, <1>2, <1>3, <1>4, <1>5, <1>6 DEF IInv

\* A wait that stops watching still owes what it watched.
LEMMA HubUnwatchKeeps ==
    ASSUME IInv, NEW o \in Owners, HubUnwatch(o)
    PROVE  IInv' /\ JobSteps
<1>u. UNCHANGED <<job, row, timers, muted, post, live, epoch, yielded, reap, disposed, repeated>>
  BY DEF HubUnwatch, jobVars, muteVars, sessionVars
<1>a. /\ hub' \in [Owners -> Waits] /\ hub[o].pc = "waiting" /\ hub'[o].pc = "unwatched"
      /\ watched' = watched \ hub[o].ids
      /\ \A x \in Owners : /\ hub'[x].jobs = hub[x].jobs /\ hub'[x].ids = hub[x].ids
                           /\ x # o => hub'[x].pc = hub[x].pc
  <2> DEFINE w == [hub[o] EXCEPT !.pc = "unwatched"]
  <2>1. hub \in [Owners -> Waits] /\ hub[o] \in Waits
    BY DEF IInv, Fields
  <2>2. w \in Waits /\ w.pc = "unwatched" /\ w.jobs = hub[o].jobs /\ w.ids = hub[o].ids
    BY ONLY <2>1 DEF Waits
  <2>3. hub' = [hub EXCEPT ![o] = w] /\ watched' = watched \ hub[o].ids /\ hub[o].pc = "waiting"
    BY DEF HubUnwatch
  <2> HIDE DEF w
  <2> QED
    BY <2>1, <2>2, <2>3
<1>d. \A x \in Owners, k \in Jobs : Owes(x, k)' <=> Owes(x, k)
  BY <1>u, <1>a DEF Owes
<1>1. (JobsKnown /\ RunningKnown /\ Addressed /\ Stamped /\ OneCopy /\ ForegroundKnown /\
       ToldKnown /\ NeverRepeated /\ ReapKnown)'
  BY <1>u DEF IInv, JobsKnown, Over, RunningKnown, HasRow, Addressed, Stamped, Current, Yielded,
     OneCopy, ForegroundKnown, Copied, ToldKnown, NeverRepeated, ReapKnown
<1>2. Fields'
  BY <1>u, <1>a DEF IInv, Fields
<1>3. RowsKnown'
  BY <1>u, <1>a DEF IInv, RowsKnown
<1>4. SuppressedKnown'
  <2> SUFFICES ASSUME Tame, NEW k \in Jobs, Awaited(k)'
               PROVE  /\ job'[k].id \in muted' => job'[k].fg
                      /\ job'[k].id \in watched' =>
                            \E o2 \in Owners : hub'[o2].pc = "waiting" /\ Owes(o2, k)'
    BY DEF SuppressedKnown
  <2>1. Awaited(k)
    BY <1>u DEF Awaited, Over
  <2>2. /\ job[k].id \in muted => job[k].fg
        /\ job[k].id \in watched => \E o2 \in Owners : hub[o2].pc = "waiting" /\ Owes(o2, k)
    BY <2>1, AwaitedKnown
  <2> QED
    BY <1>u, <1>a, <1>d, <2>2 DEF Owes
<1>5. NothingLost'
  BY <1>u, <1>d DEF IInv, NothingLost, HasRow, Copied, Yielded, Awaited, Over
<1>6. JobSteps
  BY <1>u DEF JobSteps, Over
<1> QED
  BY <1>1, <1>2, <1>3, <1>4, <1>5, <1>6 DEF IInv

-----------------------------------------------------------------------------
(* The foreground wait.                                                    *)

\* A foreground call returns; its job is told if it is settled, and those in hit are cancelled.
CallEnds(j, hit) == job' = [Cancelled(Tell({j}), hit) EXCEPT ![j].fg = FALSE]

\* A call that ends has its result, or has cancelled its job.
LEMMA ForegroundEndsKeeps ==
    ASSUME IInv, NEW j \in Jobs, job[j].fg, NEW hit \in SUBSET RunningRows,
           CallEnds(j, hit), timers' \subseteq Ids,
           Tame /\ job[j].st = "running" => j \in hit,
           UNCHANGED <<row, muted, watched, post, live, epoch, yielded, hub, reap, disposed,
                       repeated>>
    PROVE  IInv' /\ JobSteps
<1>u. UNCHANGED <<row, muted, watched, post, live, epoch, yielded, hub, reap, disposed, repeated>>
  OBVIOUS
<1>a. /\ \A k \in hit : k \in Jobs /\ job[k].st = "running"
      /\ job[j].st # "new" 
  BY RowFields DEF RunningRows, IInv, JobsKnown
<1>b. /\ job' \in [Jobs -> JobRecs]
      /\ \A k \in Jobs :
            /\ job'[k].st = (IF k \in hit THEN "cancelled" ELSE job[k].st)
            /\ job'[k].id = job[k].id /\ job'[k].owner = job[k].owner
            /\ job'[k].born = job[k].born /\ job'[k].live = job[k].live
            /\ (job'[k].fg <=> k # j /\ job[k].fg) /\ job'[k].missed = job[k].missed
            /\ (job'[k].told <=> job[k].told \/ (k = j /\ job[k].st = "settled" /\ ~Over(k)))
  <2> DEFINE f == Tell({j})
             c == Cancelled(f, hit)
             n == [c[j] EXCEPT !.fg = FALSE]
  <2>1. f \in [Jobs -> JobRecs] /\ \A k \in Jobs :
            /\ f[k].st = job[k].st /\ f[k].id = job[k].id /\ f[k].owner = job[k].owner
            /\ f[k].born = job[k].born /\ f[k].live = job[k].live
            /\ f[k].fg = job[k].fg /\ f[k].missed = job[k].missed
            /\ (f[k].told <=> job[k].told \/ (k = j /\ job[k].st = "settled" /\ ~Over(k)))
    <3>1. f \in [Jobs -> JobRecs] /\ \A k \in Jobs :
            /\ f[k].st = job[k].st /\ f[k].id = job[k].id /\ f[k].owner = job[k].owner
            /\ f[k].born = job[k].born /\ f[k].live = job[k].live
            /\ f[k].fg = job[k].fg /\ f[k].missed = job[k].missed
            /\ f[k].told = (job[k].told \/ (k \in {j} /\ Settled(k) /\ ~Over(k)))
      BY TellFields
    <3> HIDE DEF f
    <3> QED
      BY <3>1 DEF Settled
  <2> HIDE DEF f
  <2>2. c \in [Jobs -> JobRecs] /\ \A k \in Jobs :
            /\ c[k].st = (IF k \in hit THEN "cancelled" ELSE f[k].st)
            /\ c[k].id = f[k].id /\ c[k].owner = f[k].owner
            /\ c[k].born = f[k].born /\ c[k].live = f[k].live
            /\ c[k].fg = f[k].fg /\ c[k].told = f[k].told /\ c[k].missed = f[k].missed
    BY <2>1, CancelFields
  <2>3. job' = [c EXCEPT ![j] = n]
    BY DEF f, CallEnds
  <2> HIDE DEF c
  <2>4. c[j] \in JobRecs
    BY <2>2
  <2>5. /\ n \in JobRecs /\ n.st = c[j].st /\ n.id = c[j].id /\ n.owner = c[j].owner
        /\ n.born = c[j].born /\ n.live = c[j].live /\ n.fg = FALSE
        /\ n.told = c[j].told /\ n.missed = c[j].missed
    BY ONLY <2>4 DEF JobRecs
  <2> HIDE DEF n
  <2>6. job'[j] = n /\ \A k \in Jobs : k # j => job'[k] = c[k]
    BY <2>2, <2>3
  <2>7. job' \in [Jobs -> JobRecs]
    BY <2>2, <2>3, <2>5
  <2>9. ASSUME NEW k \in Jobs
        PROVE  /\ job'[k].st = (IF k \in hit THEN "cancelled" ELSE job[k].st)
               /\ job'[k].id = job[k].id /\ job'[k].owner = job[k].owner
               /\ job'[k].born = job[k].born /\ job'[k].live = job[k].live
               /\ (job'[k].fg <=> k # j /\ job[k].fg) /\ job'[k].missed = job[k].missed
               /\ (job'[k].told <=> job[k].told \/ (k = j /\ job[k].st = "settled" /\ ~Over(k)))
    <3>1. /\ job'[k].st = c[k].st /\ job'[k].id = c[k].id /\ job'[k].owner = c[k].owner
          /\ job'[k].born = c[k].born /\ job'[k].live = c[k].live
          /\ (job'[k].fg <=> k # j /\ c[k].fg)
          /\ job'[k].told = c[k].told /\ job'[k].missed = c[k].missed
      BY <2>5, <2>6
    <3>2. /\ c[k].st = (IF k \in hit THEN "cancelled" ELSE f[k].st)
          /\ c[k].id = f[k].id /\ c[k].owner = f[k].owner
          /\ c[k].born = f[k].born /\ c[k].live = f[k].live
          /\ c[k].fg = f[k].fg /\ c[k].told = f[k].told /\ c[k].missed = f[k].missed
      BY <2>2
    <3> QED
      BY <2>1, <3>1, <3>2
  <2> QED
    BY <2>7, <2>9
<1>c. \A k \in Jobs :
         /\ job[k].st = "settled" => job'[k].st = "settled"
         /\ job'[k].st \in {"running", "settled"} => job'[k].st = job[k].st
         /\ job'[k].st = "new" <=> job[k].st = "new"
         /\ job'[k].st # job[k].st => job[k].st = "running" /\ job'[k].st = "cancelled"
         /\ job'[k].id = job[k].id /\ job'[k].owner = job[k].owner
         /\ job'[k].born = job[k].born /\ job'[k].live = job[k].live
         /\ job'[k].missed = job[k].missed
         /\ job'[k].fg => k # j /\ job[k].fg
         /\ job[k].told => job'[k].told
         /\ k # j /\ job[k].fg => job'[k].fg
         /\ job'[k].told /\ ~job[k].told => k = j /\ job[k].st = "settled" /\ ~Over(k)
  <2> TAKE k \in Jobs
  <2>1. job'[k].st = (IF k \in hit THEN "cancelled" ELSE job[k].st)
    BY <1>b
  <2>2. /\ job'[k].id = job[k].id /\ job'[k].owner = job[k].owner
        /\ job'[k].born = job[k].born /\ job'[k].live = job[k].live
        /\ job'[k].missed = job[k].missed
        /\ job'[k].fg => k # j /\ job[k].fg
        /\ job[k].told => job'[k].told
        /\ k # j /\ job[k].fg => job'[k].fg
        /\ job'[k].told /\ ~job[k].told => k = j /\ job[k].st = "settled" /\ ~Over(k)
    BY <1>b
  <2>3. CASE k \in hit
    BY <1>a, <2>1, <2>2, <2>3
  <2>4. CASE k \notin hit
    BY <2>1, <2>2, <2>4
  <2> QED
    BY <2>3, <2>4
<1>d. /\ PostKnown(post, job') /\ \A o \in Owners : \A e \in yielded[o] : e.job \in Jobs
      /\ \A o \in Owners : /\ \A k \in hub[o].jobs : k \in Jobs
                           /\ reap[o].ids \subseteq Ids
  <2>1. Follows(job, job')
    BY <1>c DEF Follows
  <2> QED
    BY <2>1, QueuedStill DEF IInv, Fields, Entries, Waits, Reaps
<1>e. \A k \in Jobs : /\ Over(k)' <=> Over(k)
                      /\ Current(k)' <=> Current(k)
                      /\ HasRow(k)' <=> HasRow(k)
                      /\ Copied(k)' <=> Copied(k)
                      /\ \A o \in Owners : Owes(o, k)' <=> Owes(o, k)
  BY <1>c DEF Over, Current, HasRow, Copied, Yielded, Owes
<1>f. Tame => \A k \in Jobs : Awaited(k)' => Awaited(k) /\ k # j
  <2> SUFFICES ASSUME Tame, NEW k \in Jobs, Awaited(k)' PROVE Awaited(k) /\ k # j
    OBVIOUS
  <2>1. /\ job'[k].st \in {"running", "settled"} /\ job'[k].st = job[k].st
        /\ ~Over(k) /\ ~job'[k].told /\ ~job'[k].missed
    BY <1>c, <1>e DEF Awaited
  <2>2. Awaited(k)
    BY <1>b, <2>1 DEF Awaited
  <2>3. k # j
    <3> SUFFICES ASSUME k = j PROVE FALSE
      OBVIOUS
    <3>1. job[j].st = "running" => job'[j].st = "cancelled"
      BY <1>b
    <3>2. job[j].st = "settled" => job'[j].told
      BY <1>b, <2>1
    <3> QED
      BY <2>1, <3>1, <3>2
  <2> QED
    BY <2>2, <2>3
<1>1. (OneCopy /\ NeverRepeated)'
  BY <1>u DEF IInv, OneCopy, Yielded, NeverRepeated
<1>2. Fields'
  BY <1>u, <1>b DEF IInv, Fields
<1>3. JobsKnown'
  BY <1>u, <1>c, <1>e DEF IInv, JobsKnown
<1>4. RowsKnown'
  BY <1>u, <1>c, <1>d, RowFields DEF IInv, RowsKnown
<1>5. RunningKnown'
  BY <1>c, <1>e DEF IInv, RunningKnown
<1>6. Addressed'
  <2> SUFFICES ASSUME Timely, NEW o2 \in Owners, NEW e \in yielded'[o2]
               PROVE  /\ job'[e.job].st = "settled" /\ e.id = job'[e.job].id
                      /\ o2 = job'[e.job].owner
    BY <1>u, <1>d DEF Addressed, PostKnown
  <2>1. job[e.job].st = "settled" /\ e.id = job[e.job].id /\ o2 = job[e.job].owner
    BY <1>u DEF IInv, Addressed
  <2> QED
    BY <1>u, <1>c, <1>d, <2>1
<1>7. Stamped'
  <2> SUFFICES ASSUME Tame PROVE Stamped'
    BY DEF Stamped
  <2>0. StampedIn(post', job')
    BY <1>u, <1>d DEF PostKnown
  <2>1. \A o2 \in Owners : \A e \in yielded'[o2] : e.epoch = epoch'[o2] /\ Current(e.job)'
    BY <1>u, <1>d, <1>e DEF IInv, Stamped
  <2>2. \A k \in Jobs : InQueue(post', k) => HasRow(k)' /\ Current(k)'
    BY <1>u, <1>e DEF IInv, Stamped
  <2>3. \A k \in Jobs : (InFlight(post', k) \/ Yielded(k)') /\ Current(k)' /\ job'[k].owner \in live'
                           => HasRow(k)'
    BY <1>u, <1>c, <1>e DEF IInv, Stamped, Yielded
  <2> QED
    BY <2>0, <2>1, <2>2, <2>3 DEF Stamped
<1>8. ForegroundKnown'
  BY <1>u, <1>c, <1>e DEF IInv, ForegroundKnown
<1>9. SuppressedKnown'
  BY <1>u, <1>c, <1>e, <1>f DEF IInv, SuppressedKnown
<1>10. NothingLost'
  BY <1>u, <1>c, <1>e, <1>f DEF IInv, NothingLost
<1>11. ToldKnown'
  <2> SUFFICES ASSUME Tame, NEW k \in Jobs, job'[k].told, Copied(k)', Current(k)', job'[k].owner \in live'
               PROVE  job'[k].id \in muted'
    BY DEF ToldKnown
  <2>1. Copied(k) /\ Current(k) /\ job[k].owner \in live /\ job'[k].id = job[k].id
    BY <1>u, <1>c, <1>e
  <2>2. k # j
    BY <2>1, ForegroundHas
  <2>3. job[k].told
    BY <1>c, <2>2
  <2> QED
    BY <1>u, <2>1, <2>3 DEF IInv, ToldKnown
<1>12. ReapKnown'
  BY <1>u, <1>c, <1>d, <1>e, RowFields DEF IInv, ReapKnown
<1>13. JobSteps
  <2> SUFFICES ASSUME Tame, NEW k \in Jobs
               PROVE  /\ Over(k) => Over(k)'
                      /\ job'[k].st # job[k].st =>
                            \/ job[k].st = "new" /\ job'[k].st = "running"
                            \/ job[k].st = "running" /\ job'[k].st = "cancelled"
                            \/ job[k].st = "running" /\ job'[k].st = "settled" /\ ~Over(k)'
                      /\ job[k].told => job'[k].told
                      /\ job'[k].told /\ ~job[k].told => job[k].st = "settled" /\ ~Over(k)
    BY DEF JobSteps
  <2> QED
    BY <1>c, <1>e
<1> QED
  BY <1>1, <1>2, <1>3, <1>4, <1>5, <1>6, <1>7, <1>8, <1>9, <1>10, <1>11, <1>12, <1>13 DEF IInv

LEMMA ForegroundReturns ==
    ASSUME IInv, NEW j \in Jobs, ForegroundDone(j) \/ ForegroundAborted(j)
    PROVE  IInv' /\ JobSteps
<1>1. CASE ForegroundDone(j)
  <2>1. Cancelled(Tell({j}), {}) = Tell({j})
    BY DEF Cancelled, Tell
  <2>2. job' = [Cancelled(Tell({j}), {}) EXCEPT ![j].fg = FALSE] /\ timers' \subseteq Ids
    BY <1>1, <2>1 DEF ForegroundDone, IInv, Fields
  <2>3. ~(job[j].st = "running")
    BY <1>1 DEF ForegroundDone, IInv, JobsKnown
  <2>4. /\ job[j].fg
        /\ UNCHANGED <<row, muted, watched, post, live, epoch, yielded, hub, reap, disposed,
                       repeated>>
    BY <1>1 DEF ForegroundDone, muteVars, sessionVars
  <2>5. {} \in SUBSET RunningRows
    OBVIOUS
  <2> QED
    BY <2>2, <2>3, <2>4, <2>5, ForegroundEndsKeeps DEF CallEnds
<1>2. CASE ForegroundAborted(j)
  <2> DEFINE hit == {Latest(j)} \cap RunningRows
  <2>1. /\ job[j].fg /\ job' = [Cancelled(Tell({j}), hit) EXCEPT ![j].fg = FALSE]
        /\ timers' = IF hit = {} THEN timers ELSE Schedule({job[j].id})
        /\ UNCHANGED <<row, muted, watched, post, live, epoch, yielded, hub, reap, disposed,
                       repeated>>
    BY <1>2 DEF ForegroundAborted, muteVars, sessionVars
  <2>2. timers' \subseteq Ids
    BY <2>1 DEF Schedule, IInv, Fields, JobsKnown
  <2>3. Tame /\ job[j].st = "running" => j \in hit
    BY <2>1, ForegroundHas, RowFields, NoneAssumption DEF Latest, HasRow, RunningRows
  <2>4. hit \in SUBSET RunningRows
    OBVIOUS
  <2> HIDE DEF hit
  <2> QED
    BY <2>1, <2>2, <2>3, <2>4, ForegroundEndsKeeps DEF CallEnds
<1> QED
  BY <1>1, <1>2

\* A call that leaves its job in the background hands the result over, if there is one yet.
LEMMA BackgroundedKeeps ==
    ASSUME IInv, NEW j \in Jobs, Backgrounded(j)
    PROVE  IInv' /\ JobSteps
<1>u. UNCHANGED <<row, timers, watched, live, epoch, yielded, hub, reap, disposed, repeated>>
  BY DEF Backgrounded, jobVars, muteVars, sessionVars
<1>a. PICK i : /\ i = job[j].id /\ job[j].fg /\ ~job[j].told
               /\ job' = [job EXCEPT ![j].fg = FALSE] /\ muted' = muted \ {i}
               /\ post' = IF i \in muted /\ row[i] # None /\ ~QueuedId(i) /\ job[row[i]].st = "settled"
                          THEN Enqueue(post, row[i], i, (muted \ {i}) \cup watched) ELSE post
  BY DEF Backgrounded, Settled
<1>b. job' \in [Jobs -> JobRecs] /\ \A k \in Jobs :
         /\ job'[k].st = job[k].st /\ job'[k].id = job[k].id
         /\ job'[k].owner = job[k].owner /\ job'[k].born = job[k].born
         /\ job'[k].live = job[k].live /\ (job'[k].fg <=> k # j /\ job[k].fg)
         /\ job'[k].told = job[k].told /\ job'[k].missed = job[k].missed
  <2> DEFINE n == [job[j] EXCEPT !.fg = FALSE]
  <2>1. job' = [job EXCEPT ![j] = n]
    BY <1>a
  <2>2. job[j] \in JobRecs
    BY JobFields
  <2>3. n \in JobRecs /\ n.st = job[j].st /\ n.id = job[j].id /\ n.owner = job[j].owner
        /\ n.born = job[j].born /\ n.live = job[j].live /\ n.fg = FALSE
        /\ n.told = job[j].told /\ n.missed = job[j].missed
    BY ONLY <2>2 DEF JobRecs
  <2> HIDE DEF n
  <2>4. job'[j] = n /\ \A k \in Jobs : k # j => job'[k] = job[k]
    BY <2>1, JobFields
  <2>5. job' \in [Jobs -> JobRecs]
    BY <2>1, <2>3, JobFields
  <2> QED
    BY <2>3, <2>4, <2>5, JobFields
<1>c. /\ i \in Ids /\ job[j].st # "new"
      /\ Tame => /\ MaxEpoch = 0 /\ HasRow(j) /\ row[i] = j /\ i \in muted /\ ~Copied(j)
                 /\ Current(j) /\ ~Over(j) /\ ~disposed /\ job[j].owner \in live
                 /\ \A k \in Jobs : HasRow(k) /\ job[k].id = i => k = j
  <2>1. i \in Ids /\ job[j].st # "new"
    BY <1>a DEF IInv, JobsKnown
  <2> QED
    BY <1>a, <2>1, ForegroundHas, NeverOver DEF HasRow
<1>d. Tame => ~QueuedId(i)
  <2> SUFFICES ASSUME Tame, QueuedId(i) PROVE FALSE
    OBVIOUS
  <2>1. PICK k \in Jobs : (InQueue(post, k) \/ InFlight(post, k)) /\ job[k].id = i
    <3>1. AddressedIn(post, job) /\ post \in Posts
      BY PostParts DEF PostKnown, Tame
    <3>2. /\ \A m \in DOMAIN post.queue : post.queue[m].job \in Jobs
          /\ \A d \in post.flight : d.job \in Jobs
      BY <3>1, PostFields DEF Deliveries, Flights
    <3> QED
      BY <3>1, <3>2 DEF QueuedId, AddressedIn, InQueue, InFlight
  <2>2. Copied(k) /\ job[k].st = "settled"
    BY <2>1, CopiedKnown DEF Copied, Tame
  <2>3. HasRow(k)
    BY <1>c, <2>2, NeverOver, CopiedKnown DEF Tame
  <2> QED
    BY <1>c, <2>1, <2>2, <2>3
<1>e. /\ post' \in Posts /\ PostKnown(post', job')
      /\ Tame => \A k \in Jobs :
            /\ InQueue(post', k) => InQueue(post, k) \/ k = j
            /\ InFlight(post', k) => InQueue(post, k) \/ InFlight(post, k) \/ k = j
            /\ InQueue(post, k) \/ InFlight(post, k) =>
                  \/ InQueue(post', k) \/ InFlight(post', k)
                  \/ job[k].id \in muted' \cup watched \/ job[k].owner \notin live
      /\ Tame /\ job[j].st = "settled" /\ i \notin watched =>
            (InQueue(post', j) \/ InFlight(post', j))
  <2>1. Follows(job, job')
    BY <1>b DEF Follows
  <2>2. post \in Posts /\ PostKnown(post, job')
    BY <2>1, PostParts, QueuedStill
  <2>3. CASE ~(i \in muted /\ row[i] # None /\ ~QueuedId(i) /\ job[row[i]].st = "settled")
    <3>1. post' = post
      BY <1>a, <2>3
    <3>2. Tame => job[j].st # "settled"
      BY <1>c, <1>d, <2>3, NoneAssumption
    <3> QED
      BY <2>2, <3>1, <3>2
  <2>4. CASE i \in muted /\ row[i] # None /\ ~QueuedId(i) /\ job[row[i]].st = "settled"
    <3> DEFINE r == row[i]
               mute == (muted \ {i}) \cup watched
    <3>1. r \in Jobs /\ job'[r].st = "settled" /\ job'[r].id = i
      BY <1>b, <1>c, <2>4, RowFields
    <3>2. Timely => OwnerAt(i) = job'[r].owner
      BY <1>b, <2>4, <3>1 DEF OwnerAt
    <3>3. Tame => r = j /\ ~InQueue(post, r) /\ ~InFlight(post, r) /\ job'[r].born = epoch[job'[r].owner]
      BY <1>b, <1>c DEF Copied, Current
    <3>4. post' = Enqueue(post, r, i, mute)
      BY <1>a, <2>4
    <3> HIDE DEF r, mute
    <3>5. Joined(post, post', job', r, i, mute)
      BY <1>c, <2>1, <3>1, <3>2, <3>3, <3>4, EnqueueEffects
    <3>6. post' \in Posts /\ PostKnown(post', job')
      BY <3>5 DEF Joined
    <3>7. mute = muted' \cup watched /\ (i \in mute <=> i \in watched)
      BY <1>a DEF mute
    <3>8. Tame => \A k \in Jobs :
            /\ InQueue(post', k) => InQueue(post, k) \/ k = j
            /\ InFlight(post', k) => InQueue(post, k) \/ InFlight(post, k) \/ k = j
            /\ InQueue(post, k) \/ InFlight(post, k) =>
                  \/ InQueue(post', k) \/ InFlight(post', k)
                  \/ job[k].id \in mute \/ job[k].owner \notin live
      BY <1>b, <3>3, <3>5 DEF Joined, Tame
    <3>9. Tame /\ i \notin mute => InQueue(post', j) \/ InFlight(post', j)
      BY <1>b, <1>c, <3>3, <3>5 DEF Joined, Tame
    <3> QED
      BY <3>6, <3>7, <3>8, <3>9
  <2> QED
    BY <2>3, <2>4
<1>f. \A k \in Jobs : /\ Over(k)' <=> Over(k)
                      /\ Current(k)' <=> Current(k)
                      /\ HasRow(k)' <=> HasRow(k)
                      /\ Awaited(k)' <=> Awaited(k)
                      /\ Yielded(k)' <=> Yielded(k)
                      /\ \A o \in Owners : Owes(o, k)' <=> Owes(o, k)
                      /\ Tame /\ Copied(k)' => Copied(k) \/ k = j
  <2>1. \A k \in Jobs :
           /\ Over(k)' <=> Over(k)
           /\ Current(k)' <=> Current(k)
           /\ HasRow(k)' <=> HasRow(k)
           /\ Yielded(k)' <=> Yielded(k)
           /\ \A o \in Owners : Owes(o, k)' <=> Owes(o, k)
    BY <1>u, <1>b DEF Over, Current, HasRow, Yielded, Owes
  <2>2. \A k \in Jobs : Awaited(k)' <=> Awaited(k)
    BY <1>b, <2>1 DEF Awaited
  <2>3. \A k \in Jobs : Tame /\ Copied(k)' => Copied(k) \/ k = j
    BY <1>e, <2>1 DEF Copied
  <2> QED
    BY <2>1, <2>2, <2>3
<1>g. \A o \in Owners : /\ \A e \in yielded[o] : e.job \in Jobs
                        /\ \A k \in hub[o].jobs : k \in Jobs
                        /\ reap[o].ids \subseteq Ids
  BY DEF IInv, Fields, Entries, Waits, Reaps
<1>1. (NeverRepeated)'
  BY <1>u DEF IInv, NeverRepeated
<1>2. Fields'
  BY <1>u, <1>a, <1>b, <1>e DEF IInv, Fields
<1>3. JobsKnown'
  BY <1>u, <1>b, <1>f DEF IInv, JobsKnown
<1>4. RowsKnown'
  BY <1>u, <1>b, <1>g, RowFields DEF IInv, RowsKnown
<1>5. RunningKnown'
  BY <1>b, <1>f DEF IInv, RunningKnown
<1>6. Addressed'
  <2> SUFFICES ASSUME Timely, NEW o2 \in Owners, NEW e \in yielded'[o2]
               PROVE  /\ job'[e.job].st = "settled" /\ e.id = job'[e.job].id
                      /\ o2 = job'[e.job].owner
    BY <1>e DEF Addressed, PostKnown
  <2>1. e \in yielded[o2] /\ e.job \in Jobs
    BY <1>u, <1>g
  <2> QED
    BY <1>b, <2>1 DEF IInv, Addressed
<1>7. Stamped'
  <2> SUFFICES ASSUME Tame PROVE Stamped'
    BY DEF Stamped
  <2>0. StampedIn(post', job')
    BY <1>e DEF PostKnown
  <2>1. \A o2 \in Owners : \A e \in yielded'[o2] : e.epoch = epoch'[o2] /\ Current(e.job)'
    BY <1>u, <1>f, <1>g DEF IInv, Stamped
  <2>2. \A k \in Jobs : InQueue(post', k) => HasRow(k)' /\ Current(k)'
    BY <1>c, <1>e, <1>f DEF IInv, Stamped
  <2>3. \A k \in Jobs : (InFlight(post', k) \/ Yielded(k)') /\ Current(k)' /\ job'[k].owner \in live'
                           => HasRow(k)'
    <3> SUFFICES ASSUME NEW k \in Jobs, Copied(k)', Current(k)', job'[k].owner \in live'
                 PROVE  HasRow(k)'
      BY DEF Copied
    <3>1. Copied(k) \/ k = j
      BY <1>f
    <3>2. Current(k) /\ job[k].owner \in live
      BY <1>u, <1>b, <1>f
    <3> QED
      BY <1>c, <1>f, <3>1, <3>2, CopiedKnown DEF Tame
  <2> QED
    BY <2>0, <2>1, <2>2, <2>3 DEF Stamped
<1>8. OneCopy'
  <2> SUFFICES ASSUME Tame, NEW k \in Jobs, Yielded(k)' PROVE ~InQueue(post', k) /\ ~InFlight(post', k)
    BY <1>e DEF OneCopy, PostKnown
  <2>1. Yielded(k) /\ k # j
    BY <1>c, <1>f DEF Copied
  <2> QED
    BY <1>e, <2>1 DEF IInv, OneCopy
<1>9. ForegroundKnown'
  <2> SUFFICES ASSUME Tame, NEW k \in Jobs, job'[k].fg
               PROVE  MaxEpoch = 0 /\ HasRow(k)' /\ job'[k].id \in muted' /\ ~Copied(k)'
    BY DEF ForegroundKnown
  <2>1. k # j /\ job[k].fg
    BY <1>b
  <2>2. MaxEpoch = 0 /\ HasRow(k) /\ job[k].id \in muted /\ ~Copied(k)
    BY <2>1, ForegroundHas
  <2> QED
    BY <1>a, <1>b, <1>c, <1>f, <2>1, <2>2
<1>10. SuppressedKnown'
  <2> SUFFICES ASSUME Tame, NEW k \in Jobs, Awaited(k)'
               PROVE  /\ job'[k].id \in muted' => job'[k].fg
                      /\ job'[k].id \in watched' =>
                            \E o2 \in Owners : hub'[o2].pc = "waiting" /\ Owes(o2, k)'
    BY DEF SuppressedKnown
  <2>1. Awaited(k)
    BY <1>f
  <2>2. /\ job[k].id \in muted => job[k].fg
        /\ job[k].id \in watched => \E o2 \in Owners : hub[o2].pc = "waiting" /\ Owes(o2, k)
    BY <2>1, AwaitedKnown
  <2> QED
    BY <1>u, <1>a, <1>b, <1>f, <2>2
<1>11. NothingLost'
  <2> SUFFICES ASSUME Tame, NEW k \in Jobs, Awaited(k)', job'[k].st = "settled"
               PROVE  HasRow(k)' /\ (Copied(k) \/ job[k].fg \/ \E o2 \in Owners : Owes(o2, k))'
    BY DEF NothingLost
  <2>1. Awaited(k) /\ job[k].st = "settled"
    BY <1>b, <1>f
  <2>2. /\ HasRow(k) /\ job[k].owner \in live
        /\ job[k].id \in muted => job[k].fg
        /\ job[k].id \in watched => \E o2 \in Owners : Owes(o2, k)
        /\ Copied(k) \/ job[k].fg \/ \E o2 \in Owners : Owes(o2, k)
    BY <2>1, AwaitedKnown
  <2>3. CASE k = j
    <3>1. i \notin watched => Copied(j)'
      BY <1>e, <2>1, <2>3 DEF Copied
    <3> QED
      BY <1>a, <1>f, <2>2, <2>3, <3>1
  <2>4. CASE k # j
    <3>1. Copied(k) => Copied(k)' \/ job[k].id \in muted' \cup watched
      BY <1>e, <1>f, <2>2 DEF Copied
    <3>2. muted' \subseteq muted
      BY <1>a
    <3> QED
      BY <1>b, <1>f, <2>2, <2>4, <3>1, <3>2
  <2> QED
    BY <2>3, <2>4
<1>12. ToldKnown'
  <2> SUFFICES ASSUME Tame, NEW k \in Jobs, job'[k].told, Copied(k)', Current(k)', job'[k].owner \in live'
               PROVE  job'[k].id \in muted'
    BY DEF ToldKnown
  <2>1. job[k].told /\ k # j
    BY <1>a, <1>b
  <2>2. Copied(k) /\ Current(k) /\ job[k].owner \in live
    BY <1>u, <1>b, <1>f, <2>1
  <2>3. HasRow(k) /\ job[k].id \in muted
    BY <2>1, <2>2, CopiedKnown DEF IInv, ToldKnown, Tame
  <2> QED
    BY <1>a, <1>b, <1>c, <2>1, <2>3
<1>13. ReapKnown'
  BY <1>u, <1>b, <1>f, <1>g, RowFields DEF IInv, ReapKnown
<1>14. JobSteps
  <2> SUFFICES ASSUME Tame, NEW k \in Jobs
               PROVE  /\ Over(k) => Over(k)'
                      /\ job'[k].st # job[k].st =>
                            \/ job[k].st = "new" /\ job'[k].st = "running"
                            \/ job[k].st = "running" /\ job'[k].st = "cancelled"
                            \/ job[k].st = "running" /\ job'[k].st = "settled" /\ ~Over(k)'
                      /\ job[k].told => job'[k].told
                      /\ job'[k].told /\ ~job[k].told => job[k].st = "settled" /\ ~Over(k)
    BY DEF JobSteps
  <2> QED
    BY <1>b, <1>f
<1> QED
  BY <1>1, <1>2, <1>3, <1>4, <1>5, <1>6, <1>7, <1>8, <1>9, <1>10, <1>11, <1>12, <1>13, <1>14 DEF
     IInv

-----------------------------------------------------------------------------
(* The reaper, and the end.                                                *)

\* The reaper waits for jobs that have their rows.
LEMMA ReapStartKeeps ==
    ASSUME IInv, NEW o \in Owners, NEW all \in BOOLEAN, ReapStart(o, all)
    PROVE  IInv' /\ JobSteps
<1>u. UNCHANGED <<row, muted, watched, post, live, epoch, yielded, hub, disposed, repeated>>
  BY DEF ReapStart, jobVars, muteVars, sessionVars
<1>a. PICK hit, js :
         /\ hit = IF all THEN {j \in RunningRows : job[j].owner = o} ELSE {}
         /\ js = Pending(o, all, {}) /\ js # {}
         /\ job' = IF all THEN Cancelled(job, hit) ELSE job
         /\ timers' = IF all THEN Schedule({job[j].id : j \in hit}) ELSE timers
         /\ reap' = [reap EXCEPT ![o] = [pc |-> "waiting", all |-> all, jobs |-> js,
                                         ids |-> {} \cup {job[j].id : j \in js}]]
  <2> DEFINE js == Pending(o, all, {})
             running == {j \in RunningRows : job[j].owner = o}
             hit == IF all THEN running ELSE {}
  <2>1. js # {} /\ reap' = [reap EXCEPT ![o] = [pc |-> "waiting", all |-> all, jobs |-> js,
                                                ids |-> {} \cup {job[j].id : j \in js}]]
    BY DEF ReapStart, ReapRound
  <2>2. CASE all
    <3>1. job' = Cancelled(job, running) /\ timers' = Schedule({job[j].id : j \in running})
      BY <2>2 DEF ReapStart
    <3>2. hit = running
      BY <2>2
    <3> HIDE DEF js, hit, running
    <3>3. job' = (IF all THEN Cancelled(job, hit) ELSE job)
          /\ timers' = (IF all THEN Schedule({job[j].id : j \in hit}) ELSE timers)
      BY <2>2, <3>1, <3>2, Zenon
    <3> QED
      BY <2>1, <3>3, Zenon DEF js, hit, running
  <2>3. CASE ~all
    <3>1. job' = job /\ timers' = timers
      BY <2>3 DEF ReapStart
    <3> HIDE DEF js
    <3> QED
      BY <2>1, <2>3, <3>1, Zenon DEF js
  <2> QED
    BY <2>2, <2>3
<1>b. /\ \A k \in hit : k \in Jobs /\ job[k].st = "running" /\ job[k].id \in Ids
      /\ \A k \in js : k \in Jobs /\ HasRow(k) /\ job[k].id \in Ids
  BY <1>a, RowFields DEF RunningRows, Pending, RowsOf
<1>c. /\ job' \in [Jobs -> JobRecs]
      /\ \A k \in Jobs :
            /\ job'[k].st = (IF k \in hit THEN "cancelled" ELSE job[k].st)
            /\ job'[k].id = job[k].id /\ job'[k].owner = job[k].owner
            /\ job'[k].born = job[k].born /\ job'[k].live = job[k].live
            /\ job'[k].fg = job[k].fg /\ job'[k].told = job[k].told
            /\ job'[k].missed = job[k].missed
  <2>1. CASE all
    BY <1>a, <2>1, CancelFields, JobFields
  <2>2. CASE ~all
    BY <1>a, <2>2, JobFields
  <2> QED
    BY <2>1, <2>2
<1>d. \A k \in Jobs :
         /\ job[k].st = "settled" => job'[k].st = "settled"
         /\ job'[k].st \in {"running", "settled"} => job'[k].st = job[k].st
         /\ job'[k].st = "new" <=> job[k].st = "new"
         /\ job'[k].st # job[k].st => job[k].st = "running" /\ job'[k].st = "cancelled"
         /\ job'[k].id = job[k].id /\ job'[k].owner = job[k].owner
         /\ job'[k].born = job[k].born /\ job'[k].live = job[k].live
         /\ job'[k].fg = job[k].fg
         /\ job'[k].told = job[k].told /\ job'[k].missed = job[k].missed
  <2> TAKE k \in Jobs
  <2>1. CASE k \in hit
    BY <1>b, <1>c, <2>1
  <2>2. CASE k \notin hit
    BY <1>c, <2>2
  <2> QED
    BY <2>1, <2>2
<1>e. /\ PostKnown(post, job') /\ \A x \in Owners : \A e \in yielded[x] : e.job \in Jobs
      /\ \A x \in Owners : /\ \A k \in hub[x].jobs : k \in Jobs
                           /\ reap[x].ids \subseteq Ids
  <2>1. Follows(job, job')
    BY <1>d DEF Follows
  <2> QED
    BY <2>1, QueuedStill DEF IInv, Fields, Entries, Waits, Reaps
<1>f. \A k \in Jobs : /\ Over(k)' <=> Over(k)
                      /\ Current(k)' <=> Current(k)
                      /\ HasRow(k)' <=> HasRow(k)
                      /\ Copied(k)' <=> Copied(k)
                      /\ Awaited(k)' => Awaited(k)
                      /\ \A x \in Owners : Owes(x, k)' <=> Owes(x, k)
  BY <1>u, <1>d DEF Over, Current, HasRow, Copied, Yielded, Owes, Awaited
<1>g. /\ reap' \in [Owners -> Reaps]
      /\ reap'[o].ids = {job[j].id : j \in js} /\ reap'[o].jobs = js
      /\ \A x \in Owners : x # o => reap'[x] = reap[x]
  <2> DEFINE w == [pc |-> "waiting", all |-> all, jobs |-> js,
                      ids |-> {} \cup {job[j].id : j \in js}]
  <2>1. js \in SUBSET Jobs /\ {} \cup {job[j].id : j \in js} \in SUBSET Ids
    BY <1>b
  <2>2. w \in Reaps /\ w.jobs = js /\ w.ids = {job[j].id : j \in js}
    BY <2>1 DEF Reaps
  <2>3. reap' = [reap EXCEPT ![o] = w] /\ reap \in [Owners -> Reaps]
    BY <1>a DEF IInv, Fields
  <2> HIDE DEF w
  <2> QED
    BY <2>2, <2>3
<1>1. (OneCopy /\ NeverRepeated)'
  BY <1>u DEF IInv, OneCopy, Yielded, NeverRepeated
<1>2. Fields'
  <2>1. timers' \subseteq Ids
    <3>1. {job[j].id : j \in hit} \subseteq Ids /\ timers \subseteq Ids
      BY <1>b DEF IInv, Fields
    <3> QED
      BY <1>a, <3>1 DEF Schedule
  <2> QED
    BY <1>u, <1>c, <1>g, <2>1 DEF IInv, Fields
<1>3. JobsKnown'
  BY <1>u, <1>d, <1>f DEF IInv, JobsKnown
<1>4. RowsKnown'
  BY <1>u, <1>d, <1>e, RowFields DEF IInv, RowsKnown
<1>5. RunningKnown'
  BY <1>d, <1>f DEF IInv, RunningKnown
<1>6. Addressed'
  <2> SUFFICES ASSUME Timely, NEW o2 \in Owners, NEW e \in yielded'[o2]
               PROVE  /\ job'[e.job].st = "settled" /\ e.id = job'[e.job].id
                      /\ o2 = job'[e.job].owner
    BY <1>u, <1>e DEF Addressed, PostKnown
  <2>1. job[e.job].st = "settled" /\ e.id = job[e.job].id /\ o2 = job[e.job].owner
    BY <1>u DEF IInv, Addressed
  <2> QED
    BY <1>u, <1>d, <1>e, <2>1
<1>7. Stamped'
  <2> SUFFICES ASSUME Tame PROVE Stamped'
    BY DEF Stamped
  <2>0. StampedIn(post', job')
    BY <1>u, <1>e DEF PostKnown
  <2>1. \A o2 \in Owners : \A e \in yielded'[o2] : e.epoch = epoch'[o2] /\ Current(e.job)'
    BY <1>u, <1>e, <1>f DEF IInv, Stamped
  <2>2. \A k \in Jobs : InQueue(post', k) => HasRow(k)' /\ Current(k)'
    BY <1>u, <1>f DEF IInv, Stamped
  <2>3. \A k \in Jobs : (InFlight(post', k) \/ Yielded(k)') /\ Current(k)' /\ job'[k].owner \in live'
                           => HasRow(k)'
    BY <1>u, <1>d, <1>f DEF IInv, Stamped, Yielded
  <2> QED
    BY <2>0, <2>1, <2>2, <2>3 DEF Stamped
<1>8. ForegroundKnown'
  BY <1>u, <1>d, <1>f DEF IInv, ForegroundKnown
<1>9. SuppressedKnown'
  BY <1>u, <1>d, <1>f DEF IInv, SuppressedKnown
<1>10. NothingLost'
  BY <1>u, <1>d, <1>f DEF IInv, NothingLost
<1>11. ToldKnown'
  BY <1>u, <1>d, <1>f DEF IInv, ToldKnown
<1>12. ReapKnown'
  <2> SUFFICES ASSUME Timely /\ MaxEpoch = 0
               PROVE  /\ \A k \in Jobs : job'[k].live => HasRow(k)'
                      /\ \A x \in Owners : reap'[x].pc = "waiting" =>
                            \A i \in reap'[x].ids :
                               row[i] # None /\ (job'[row[i]].live => row[i] \in reap'[x].jobs)
    BY <1>u DEF ReapKnown
  <2>1. \A i \in reap'[o].ids : row[i] # None /\ row[i] \in reap'[o].jobs
    BY <1>b, <1>g, NoneAssumption DEF HasRow
  <2>2. \A x \in Owners \ {o} : reap[x].pc = "waiting" => \A i \in reap[x].ids :
           row[i] # None /\ (job'[row[i]].live => row[i] \in reap[x].jobs)
    BY <1>d, <1>e, RowFields DEF IInv, ReapKnown
  <2>3. \A k \in Jobs : job'[k].live => HasRow(k)'
    BY <1>d, <1>f DEF IInv, ReapKnown
  <2> QED
    BY <1>g, <2>1, <2>2, <2>3
<1>13. JobSteps
  <2> SUFFICES ASSUME Tame, NEW k \in Jobs
               PROVE  /\ Over(k) => Over(k)'
                      /\ job'[k].st # job[k].st =>
                            \/ job[k].st = "new" /\ job'[k].st = "running"
                            \/ job[k].st = "running" /\ job'[k].st = "cancelled"
                            \/ job[k].st = "running" /\ job'[k].st = "settled" /\ ~Over(k)'
                      /\ job[k].told => job'[k].told
                      /\ job'[k].told /\ ~job[k].told => job[k].st = "settled" /\ ~Over(k)
    BY DEF JobSteps
  <2> QED
    BY <1>d, <1>f
<1> QED
  BY <1>1, <1>2, <1>3, <1>4, <1>5, <1>6, <1>7, <1>8, <1>9, <1>10, <1>11, <1>12, <1>13 DEF IInv

\* The jobs of the last round have exited.
LEMMA ReapContinuesKeeps ==
    ASSUME IInv, NEW o \in Owners, ReapContinues(o)
    PROVE  IInv' /\ JobSteps
<1>u. UNCHANGED <<job, row, timers, muted, watched, post, live, epoch, yielded, hub, disposed,
                repeated>>
  BY DEF ReapContinues, jobVars, muteVars, sessionVars
<1>a. PICK js, all, ids :
         /\ js = Pending(o, all, ids) /\ all = reap[o].all /\ ids = reap[o].ids
         /\ reap[o].pc = "waiting" /\ \A j \in reap[o].jobs : ~job[j].live
         /\ reap' = [reap EXCEPT ![o] = IF js = {} THEN NoReap
                       ELSE [pc |-> "waiting", all |-> all, jobs |-> js,
                             ids |-> ids \cup {job[j].id : j \in js}]]
  <2> DEFINE all == reap[o].all
             ids == reap[o].ids
             js == Pending(o, all, ids)
  <2>1. /\ reap[o].pc = "waiting" /\ \A j \in reap[o].jobs : ~job[j].live
        /\ reap' = [reap EXCEPT ![o] = IF js = {} THEN NoReap
                       ELSE [pc |-> "waiting", all |-> all, jobs |-> js,
                             ids |-> ids \cup {job[j].id : j \in js}]]
    BY DEF ReapContinues, ReapRound
  <2> QED
    BY <2>1
<1>b. /\ \A k \in js : k \in Jobs /\ HasRow(k) /\ job[k].id \in Ids
      /\ all \in BOOLEAN /\ ids \subseteq Ids /\ reap \in [Owners -> Reaps]
  BY <1>a, RowFields DEF Pending, RowsOf, IInv, Fields, Reaps
<1>c. /\ reap' \in [Owners -> Reaps] /\ \A x \in Owners : x # o => reap'[x] = reap[x]
      /\ reap'[o].pc = "waiting" => /\ reap'[o].ids = ids \cup {job[j].id : j \in js}
                                    /\ reap'[o].jobs = js
  <2> DEFINE w == IF js = {} THEN NoReap
                  ELSE [pc |-> "waiting", all |-> all, jobs |-> js,
                        ids |-> ids \cup {job[j].id : j \in js}]
  <2>1. w \in Reaps /\ (w.pc = "waiting" => w.ids = ids \cup {job[j].id : j \in js} /\ w.jobs = js)
    BY <1>b DEF Reaps, NoReap
  <2>2. reap' = [reap EXCEPT ![o] = w]
    BY <1>a
  <2> HIDE DEF w
  <2> QED
    BY <1>b, <2>1, <2>2
<1>1. (JobsKnown /\ RowsKnown /\ RunningKnown /\ Addressed /\ Stamped /\ OneCopy /\
       ForegroundKnown /\ SuppressedKnown /\ NothingLost /\ ToldKnown /\ NeverRepeated)'
  BY <1>u DEF IInv, JobsKnown, Over, RowsKnown, RunningKnown, HasRow, Addressed, Stamped,
     Current, Yielded, OneCopy, ForegroundKnown, Copied, SuppressedKnown, Awaited, Owes,
     NothingLost, ToldKnown, NeverRepeated
<1>2. Fields'
  BY <1>u, <1>c DEF IInv, Fields
<1>3. ReapKnown'
  <2> SUFFICES ASSUME Timely /\ MaxEpoch = 0
               PROVE  /\ \A k \in Jobs : job[k].live => HasRow(k)
                      /\ \A x \in Owners : reap'[x].pc = "waiting" =>
                            \A i \in reap'[x].ids :
                               row[i] # None /\ (job[row[i]].live => row[i] \in reap'[x].jobs)
    BY <1>u DEF ReapKnown, HasRow
  <2>1. \A i \in ids : row[i] # None /\ ~job[row[i]].live
    BY <1>a DEF IInv, ReapKnown
  <2>2. reap'[o].pc = "waiting" => \A i \in reap'[o].ids :
           row[i] # None /\ (job[row[i]].live => row[i] \in reap'[o].jobs)
    BY <1>b, <1>c, <2>1, NoneAssumption DEF HasRow
  <2> QED
    BY <1>c, <2>2 DEF IInv, ReapKnown
<1>4. JobSteps
  BY <1>u DEF JobSteps, Over
<1> QED
  BY <1>1, <1>2, <1>3, <1>4 DEF IInv

\* Every session is over.
LEMMA DisposeStartKeeps ==
    ASSUME IInv, DisposeStart
    PROVE  IInv' /\ JobSteps
<1>u. UNCHANGED <<row, muted, watched, post, live, epoch, yielded, hub, reap, repeated>>
  BY DEF DisposeStart, jobVars, muteVars, sessionVars
<1>a. PICK hit : /\ hit = RunningRows /\ job' = Cancelled(job, hit) /\ timers' = {}
                 /\ disposed' = TRUE /\ MaxEpoch > 0
  BY DEF DisposeStart
<1>b. /\ \A k \in hit : k \in Jobs /\ job[k].st = "running"
      /\ \A k \in Jobs : job[k].st = "running" /\ HasRow(k) => k \in hit
  BY <1>a, RowFields DEF RunningRows, IInv, JobsKnown
<1>c. /\ job' \in [Jobs -> JobRecs]
      /\ \A k \in Jobs :
            /\ job'[k].st = (IF k \in hit THEN "cancelled" ELSE job[k].st)
            /\ job'[k].id = job[k].id /\ job'[k].owner = job[k].owner
            /\ job'[k].born = job[k].born /\ job'[k].live = job[k].live
            /\ job'[k].fg = job[k].fg /\ job'[k].told = job[k].told
            /\ job'[k].missed = job[k].missed
  BY <1>a, CancelFields, JobFields
<1>d. \A k \in Jobs :
         /\ job[k].st = "settled" => job'[k].st = "settled"
         /\ job'[k].st \in {"running", "settled"} => job'[k].st = job[k].st
         /\ job'[k].st = "new" <=> job[k].st = "new"
         /\ job'[k].st # job[k].st => job[k].st = "running" /\ job'[k].st = "cancelled"
         /\ job'[k].id = job[k].id /\ job'[k].owner = job[k].owner
         /\ job'[k].born = job[k].born /\ job'[k].live = job[k].live
         /\ job'[k].fg = job[k].fg
         /\ job'[k].told = job[k].told /\ job'[k].missed = job[k].missed
  <2> TAKE k \in Jobs
  <2>1. CASE k \in hit
    BY <1>b, <1>c, <2>1
  <2>2. CASE k \notin hit
    BY <1>c, <2>2
  <2> QED
    BY <2>1, <2>2
<1>e. /\ PostKnown(post, job') /\ \A x \in Owners : \A e \in yielded[x] : e.job \in Jobs
      /\ \A x \in Owners : /\ \A k \in hub[x].jobs : k \in Jobs
                           /\ reap[x].ids \subseteq Ids
  <2>1. Follows(job, job')
    BY <1>d DEF Follows
  <2> QED
    BY <2>1, QueuedStill DEF IInv, Fields, Entries, Waits, Reaps
<1>f. \A k \in Jobs : /\ Over(k) => Over(k)'
                      /\ ~Awaited(k)'
                      /\ job[k].st # "new" => Over(k)'
                      /\ Current(k)' <=> Current(k)
                      /\ HasRow(k)' <=> HasRow(k)
                      /\ Copied(k)' <=> Copied(k)
  BY <1>u, <1>a, <1>d DEF Over, Current, HasRow, Copied, Yielded, Awaited
<1>1. (OneCopy /\ NeverRepeated)'
  BY <1>u DEF IInv, OneCopy, Yielded, NeverRepeated
<1>2. Fields'
  BY <1>u, <1>a, <1>c DEF IInv, Fields
<1>3. JobsKnown'
  BY <1>u, <1>d, <1>f DEF IInv, JobsKnown
<1>4. RowsKnown'
  BY <1>u, <1>a, <1>d, <1>e, RowFields DEF IInv, RowsKnown
<1>5. RunningKnown'
  <2> SUFFICES ASSUME Timely, NEW k \in Jobs
               PROVE  /\ job'[k].st = "running" => HasRow(k)' /\ ~Over(k)'
                      /\ job'[k].told \/ job'[k].missed => job'[k].st = "settled"
    BY DEF RunningKnown
  <2>1. job'[k].st # "running"
    BY <1>b, <1>c, <1>d DEF IInv, RunningKnown
  <2> QED
    BY <1>d, <2>1 DEF IInv, RunningKnown
<1>6. Addressed'
  <2> SUFFICES ASSUME Timely, NEW o2 \in Owners, NEW e \in yielded'[o2]
               PROVE  /\ job'[e.job].st = "settled" /\ e.id = job'[e.job].id
                      /\ o2 = job'[e.job].owner
    BY <1>u, <1>e DEF Addressed, PostKnown
  <2>1. job[e.job].st = "settled" /\ e.id = job[e.job].id /\ o2 = job[e.job].owner
    BY <1>u DEF IInv, Addressed
  <2> QED
    BY <1>u, <1>d, <1>e, <2>1
<1>7. Stamped'
  <2> SUFFICES ASSUME Tame PROVE Stamped'
    BY DEF Stamped
  <2>0. StampedIn(post', job')
    BY <1>u, <1>e DEF PostKnown
  <2>1. \A o2 \in Owners : \A e \in yielded'[o2] : e.epoch = epoch'[o2] /\ Current(e.job)'
    BY <1>u, <1>e, <1>f DEF IInv, Stamped
  <2>2. \A k \in Jobs : InQueue(post', k) => HasRow(k)' /\ Current(k)'
    BY <1>u, <1>f DEF IInv, Stamped
  <2>3. \A k \in Jobs : (InFlight(post', k) \/ Yielded(k)') /\ Current(k)' /\ job'[k].owner \in live'
                           => HasRow(k)'
    BY <1>u, <1>d, <1>f DEF IInv, Stamped, Yielded
  <2> QED
    BY <2>0, <2>1, <2>2, <2>3 DEF Stamped
<1>8. ForegroundKnown'
  BY <1>u, <1>d, <1>f DEF IInv, ForegroundKnown
<1>9. SuppressedKnown'
  BY <1>f DEF SuppressedKnown
<1>10. NothingLost'
  BY <1>f DEF NothingLost
<1>11. ToldKnown'
  BY <1>u, <1>d, <1>f DEF IInv, ToldKnown
<1>12. ReapKnown'
  BY <1>a DEF ReapKnown
<1>13. JobSteps
  <2> SUFFICES ASSUME Tame, NEW k \in Jobs
               PROVE  /\ Over(k) => Over(k)'
                      /\ job'[k].st # job[k].st =>
                            \/ job[k].st = "new" /\ job'[k].st = "running"
                            \/ job[k].st = "running" /\ job'[k].st = "cancelled"
                            \/ job[k].st = "running" /\ job'[k].st = "settled" /\ ~Over(k)'
                      /\ job[k].told => job'[k].told
                      /\ job'[k].told /\ ~job[k].told => job[k].st = "settled" /\ ~Over(k)
    BY DEF JobSteps
  <2> QED
    BY <1>d, <1>f
<1> QED
  BY <1>1, <1>2, <1>3, <1>4, <1>5, <1>6, <1>7, <1>8, <1>9, <1>10, <1>11, <1>12, <1>13 DEF IInv

\* Nothing is left to deliver, and nobody to deliver to.
LEMMA DisposeEndKeeps ==
    ASSUME IInv, DisposeEnd
    PROVE  IInv' /\ JobSteps
<1>u. UNCHANGED <<job, epoch, yielded, hub, reap, disposed, repeated>>
  BY DEF DisposeEnd, jobVars, muteVars, sessionVars
<1>a. /\ disposed /\ MaxEpoch > 0 /\ row' = [i \in Ids |-> None]
      /\ timers' = {} /\ muted' = {} /\ watched' = {} /\ live' = {}
  BY DEF DisposeEnd, IInv, RowsKnown
<1>b. /\ post' \in Posts
      /\ \A k \in Jobs : ~InQueue(post', k) /\ ~InFlight(post', k)
      /\ AddressedIn(post', job) /\ StampedIn(post', job) /\ OneCopyIn(post')
  <2>1. post \in Posts /\ <<>> \in Seq(Deliveries) /\ {} \in SUBSET Flights
    BY PostParts
  <2>2. post' = [post EXCEPT !.queue = <<>>, !.flight = {}]
    BY DEF DisposeEnd
  <2>3. post' \in Posts /\ post'.queue = <<>> /\ post'.flight = {}
    BY ONLY <2>1, <2>2 DEF Posts
  <2>4. DOMAIN post'.queue = {}
    BY <2>3
  <2> QED
    BY <2>3, <2>4 DEF InQueue, InFlight, AddressedIn, StampedIn, OneCopyIn
<1>c. \A k \in Jobs : /\ Over(k)' <=> Over(k)
                      /\ job[k].st # "new" => Over(k)
                      /\ Current(k)' <=> Current(k)
                      /\ ~Awaited(k)' 
  BY <1>u, <1>a DEF Over, Current, Awaited
<1>1. (NeverRepeated)'
  BY <1>u DEF IInv, NeverRepeated
<1>2. Fields'
  BY <1>u, <1>a, <1>b DEF IInv, Fields
<1>3. JobsKnown'
  BY <1>u, <1>a, <1>c DEF IInv, JobsKnown
<1>4. RowsKnown'
  BY <1>u, <1>a DEF IInv, RowsKnown
<1>5. RunningKnown'
  BY <1>u, <1>c DEF IInv, RunningKnown
<1>6. Addressed'
  BY <1>u, <1>b DEF IInv, Addressed
<1>7. Stamped'
  <2> SUFFICES ASSUME Tame PROVE (Stamped)'
    BY DEF Stamped
  <2>1. \A x \in Owners : \A e \in yielded[x] : e.job \in Jobs
    BY DEF IInv, Fields, Entries
  <2>2. \A x \in Owners : \A e \in yielded'[x] : e.epoch = epoch'[x] /\ Current(e.job)'
    BY <1>u, <1>c, <2>1 DEF IInv, Stamped
  <2> QED
    BY <1>u, <1>a, <1>b, <2>2 DEF Stamped
<1>8. OneCopy'
  BY <1>b DEF OneCopy
<1>9. ForegroundKnown'
  BY <1>u, <1>a DEF IInv, ForegroundKnown
<1>10. SuppressedKnown'
  BY <1>c DEF SuppressedKnown
<1>11. NothingLost'
  BY <1>c DEF NothingLost
<1>12. ToldKnown'
  BY <1>u, <1>a DEF ToldKnown
<1>13. ReapKnown'
  BY <1>a DEF ReapKnown
<1>14. JobSteps
  BY <1>u DEF JobSteps, Over
<1> QED
  BY <1>1, <1>2, <1>3, <1>4, <1>5, <1>6, <1>7, <1>8, <1>9, <1>10, <1>11, <1>12, <1>13, <1>14 DEF
     IInv

-----------------------------------------------------------------------------
(* The invariant, and what follows from it.                                *)

LEMMA Initially == Init => IInv
<1> SUFFICES ASSUME Init PROVE IInv
  OBVIOUS
<1>a. /\ row = [i \in Ids |-> None] /\ muted = {} /\ watched = {} /\ timers = {}
      /\ post = [queue |-> <<>>, flight |-> {}, loop |-> "none", at |-> None]
      /\ live = Owners /\ epoch = [o \in Owners |-> 0] /\ yielded = [o \in Owners |-> {}]
      /\ hub = [o \in Owners |-> NoWait] /\ reap = [o \in Owners |-> NoReap]
      /\ disposed = FALSE /\ repeated = {}
  BY DEF Init
<1>b. job \in [Jobs -> JobRecs] /\ \A j \in Jobs :
         /\ job[j].st = "new" /\ job[j].id = None /\ job[j].live = FALSE
         /\ job[j].fg = FALSE /\ job[j].told = FALSE /\ job[j].missed = FALSE
  <2>1. /\ NewJob \in JobRecs
        /\ NewJob.st = "new" /\ NewJob.id = None /\ NewJob.live = FALSE
        /\ NewJob.fg = FALSE /\ NewJob.told = FALSE /\ NewJob.missed = FALSE
    BY BoundsAssumption DEF NewJob, JobRecs
  <2>2. job = [j \in Jobs |-> NewJob]
    BY DEF Init
  <2> QED
    BY <2>1, <2>2
<1>c. post \in Posts /\ post.queue = <<>> /\ post.flight = {}
  BY <1>a DEF Posts, Loops
<1>d. DOMAIN post.queue = {}
  BY <1>c
<1>e. /\ NoWait \in Waits /\ NoWait.pc = "idle" /\ NoWait.jobs = {}
      /\ NoReap \in Reaps /\ NoReap.pc = "idle"
  BY DEF NoWait, NoReap, Waits, Reaps
<1>f. \A j \in Jobs : ~Copied(j) /\ ~InQueue(post, j) /\ ~InFlight(post, j) /\ ~Yielded(j) /\ ~Awaited(j)
  BY <1>a, <1>b, <1>c, <1>d DEF Copied, InQueue, InFlight, Yielded, Awaited
<1>g. /\ row \in [Ids -> Jobs \cup {None}] /\ epoch \in [Owners -> 0 .. MaxEpoch]
      /\ yielded \in [Owners -> SUBSET Entries]
      /\ hub \in [Owners -> Waits] /\ reap \in [Owners -> Reaps]
  <2>1. 0 \in 0 .. MaxEpoch
    BY BoundsAssumption
  <2> QED
    BY <1>a, <1>e, <2>1
<1>1. Fields
  BY <1>a, <1>b, <1>c, <1>g DEF Fields
<1>2. JobsKnown
  BY <1>b DEF JobsKnown
<1>3. RowsKnown
  BY <1>a, <1>e DEF RowsKnown
<1>4. RunningKnown
  BY <1>b DEF RunningKnown
<1>5. Addressed
  BY <1>a, <1>c, <1>d DEF Addressed, AddressedIn
<1>6. Stamped
  BY <1>a, <1>c, <1>f DEF Stamped, StampedIn
<1>7. OneCopy
  BY <1>c, <1>d, <1>f DEF OneCopy, OneCopyIn
<1>8. ForegroundKnown
  BY <1>b DEF ForegroundKnown
<1>9. SuppressedKnown
  BY <1>f DEF SuppressedKnown
<1>10. NothingLost
  BY <1>f DEF NothingLost
<1>11. ToldKnown
  BY <1>b DEF ToldKnown
<1>12. NeverRepeated
  BY <1>a DEF NeverRepeated
<1>13. ReapKnown
  BY <1>a, <1>b, <1>e DEF ReapKnown
<1> QED
  BY <1>1, <1>2, <1>3, <1>4, <1>5, <1>6, <1>7, <1>8, <1>9, <1>10, <1>11, <1>12, <1>13 DEF IInv

LEMMA NothingHappens ==
    ASSUME IInv, UNCHANGED vars
    PROVE  IInv' /\ JobSteps
<1>1. UNCHANGED <<job, row, timers, muted, watched, post, live, epoch, yielded, hub, reap, disposed,
                  repeated>>
  BY DEF vars, jobVars, muteVars, sessionVars
<1>2. (Fields /\ JobsKnown /\ RowsKnown /\ RunningKnown)'
  BY <1>1 DEF IInv, Fields, JobsKnown, RowsKnown, RunningKnown, Over, HasRow
<1>3. (Addressed /\ Stamped /\ OneCopy /\ ForegroundKnown)'
  BY <1>1 DEF IInv, Addressed, Stamped, OneCopy, ForegroundKnown, HasRow, Current, Copied, Yielded
<1>4. (SuppressedKnown /\ NothingLost /\ ToldKnown /\ NeverRepeated /\ ReapKnown)'
  BY <1>1 DEF IInv, SuppressedKnown, NothingLost, ToldKnown, NeverRepeated, ReapKnown, HasRow,
     Current,
              Copied, Yielded, Awaited, Over, Owes
<1>5. JobSteps
  BY <1>1 DEF JobSteps, Over
<1> QED
  BY <1>2, <1>3, <1>4, <1>5 DEF IInv

LEMMA NextStep ==
    ASSUME IInv, [Next]_vars
    PROVE  IInv' /\ JobSteps
<1>1. CASE UNCHANGED vars
  BY <1>1, NothingHappens
<1>2. CASE LoopWakes \/ LoopContinues \/ LoopEnds \/ \E o \in Owners : DeliverFiltered(o)
  BY <1>2, LoopKeeps
<1>3. CASE \E d \in post.flight : SinkResolves(d) \/ SinkRejects(d)
  BY <1>3, SinkResolvesKeeps, SinkRejectsKeeps
<1>4. CASE \E o \in Owners, j \in Jobs, i \in Ids, kind \in Kinds : Register(o, j, i, kind)
  BY <1>4, RegisterKeeps
<1>5. CASE \E j \in Jobs : MarkRunning(j) \/ JobEnds(j) \/ HubCancel(job[j].owner, j)
  BY <1>5, MarkRunningKeeps, JobEndsKeeps, HubCancelKeeps
<1>6. CASE \E j \in Jobs : ForegroundDone(j) \/ ForegroundAborted(j) \/ Backgrounded(j)
  BY <1>6, ForegroundReturns, BackgroundedKeeps
<1>7. CASE \E i \in Ids : EvictFires(i)
  BY <1>7, EvictFiresKeeps
<1>8. CASE \E o \in Owners : \/ SessionMoves(o) \/ SessionEnds(o) \/ SessionRevived(o)
                            \/ Inject(o) \/ InjectFails(o)
  BY <1>8, SessionEndsKeeps, SessionRevivedKeeps, InjectKeeps, InjectFailsKeeps
<1>9. CASE \E o \in Owners : HubJobs(o) \/ \E js \in SUBSET RowsOf(o) : HubWait(o, js)
  BY <1>9, HubJobsKeeps, HubWaitKeeps
<1>10. CASE \E o \in Owners : HubMessage(o) \/ HubUnwatch(o) \/ HubReport(o)
  BY <1>10, HubMessageKeeps, HubUnwatchKeeps, HubReportKeeps, HubMissedKeeps
<1>11. CASE \E o \in Owners : (\E all \in BOOLEAN : ReapStart(o, all)) \/ ReapContinues(o)
  BY <1>11, ReapStartKeeps, ReapContinuesKeeps
<1>12. CASE DisposeStart \/ DisposeEnd
  BY <1>12, DisposeStartKeeps, DisposeEndKeeps
<1> QED
  BY <1>1, <1>2, <1>3, <1>4, <1>5, <1>6, <1>7, <1>8, <1>9, <1>10, <1>11, <1>12, Zenon DEF Next

\* The invariant is inductive, for any number of jobs, ids and owners, and whichever of
\* the switches are on.
THEOREM Invariance == Spec => []IInv
<1>1. IInv /\ [Next]_vars => IInv'
  BY NextStep
<1> QED
  BY Initially, <1>1, PTL DEF Spec

\* The manager's maps hold jobs, ids and owners, and only a live run is running.
THEOREM TypeCorrect == Spec => []TypeOK
<1>1. IInv => TypeOK
  <2> SUFFICES ASSUME IInv PROVE TypeOK
    OBVIOUS
  <2>1. post.loop \in {"none", "sleeping", "sending", "ending"}
    BY DEF IInv, Fields, Posts, Loops
  <2>2. \A j \in Jobs : /\ job[j].st = "running" => job[j].live
                        /\ job[j].st = "new" <=> job[j].id = None
    BY NoneAssumption DEF IInv, JobsKnown
  <2> QED
    BY <2>1, <2>2 DEF IInv, Fields, TypeOK, JobRecs
<1> QED
  BY Invariance, <1>1, PTL

\* A delivery carries the owner that registered its job, although the owner is looked
\* up by an id that jobs reuse, provided that nothing outlives its row's retention.
THEOREM DeliveriesKeepTheirOwner ==
    ASSUME Timely
    PROVE  Spec => []ResultsGoToOwner
<1>1. IInv => ResultsGoToOwner
  BY DEF IInv, Addressed, AddressedIn, ResultsGoToOwner
<1> QED
  BY Invariance, <1>1, PTL

\* A result that the agent has had from a snapshot or a foreground call is not injected
\* again, in the regime where the manager keeps its contract.
THEOREM NothingIsRepeated ==
    ASSUME Tame
    PROVE  Spec => []NoRepeat
<1>1. IInv => NoRepeat
  BY DEF IInv, NeverRepeated, NoRepeat
<1> QED
  BY Invariance, <1>1, PTL

\* What a job's phase in the contract is: an awaited result is never nobody's.
Phases ==
    \A j \in Jobs :
        /\ job[j].st # "settled" => PhaseOf(j) = job[j].st
        /\ job[j].st = "settled" /\ job[j].told => PhaseOf(j) = "told"
        /\ job[j].st = "settled" /\ ~job[j].told /\ Over(j) => PhaseOf(j) = "dropped"
        /\ job[j].st = "settled" /\ ~job[j].told /\ ~Over(j) => PhaseOf(j) = "done"

LEMMA PhasesKnown == IInv /\ Tame => Phases
<1> SUFFICES ASSUME IInv, Tame, NEW j \in Jobs
             PROVE  /\ job[j].st # "settled" => PhaseOf(j) = job[j].st
                    /\ job[j].st = "settled" /\ job[j].told => PhaseOf(j) = "told"
                    /\ job[j].st = "settled" /\ ~job[j].told /\ Over(j) => PhaseOf(j) = "dropped"
                    /\ job[j].st = "settled" /\ ~job[j].told /\ ~Over(j) => PhaseOf(j) = "done"
  BY DEF Phases
<1>1. ASSUME job[j].st = "settled", ~job[j].told, ~Over(j), ~job[j].missed
      PROVE  Carried(j) \/ \E o \in Owners : Owes(o, j)
  <2>1. Copied(j) \/ job[j].fg \/ \E o \in Owners : Owes(o, j)
    BY <1>1 DEF IInv, NothingLost, Awaited
  <2> QED
    BY <2>1 DEF Copied, InQueue, InFlight, Yielded, Carried, Queued
<1> QED
  BY <1>1 DEF PhaseOf, Settled

\* Every step of the manager is a step of the contract.
LEMMA StepsKeepContract ==
    ASSUME IInv, Tame, [Next]_vars
    PROVE  Contract!Next
<1>1. IInv' /\ JobSteps
  BY NextStep
<1>2. \A j \in Jobs : /\ job[j].st \in {"new", "running", "settled", "cancelled"}
                      /\ job'[j].st \in {"new", "running", "settled", "cancelled"}
  BY <1>1, JobFields DEF IInv, Fields, JobRecs
<1>3. \A j \in Jobs :
        /\ Over(j) => Over(j)'
        /\ job'[j].st # job[j].st =>
              \/ job[j].st = "new" /\ job'[j].st = "running"
              \/ job[j].st = "running" /\ job'[j].st = "cancelled"
              \/ job[j].st = "running" /\ job'[j].st = "settled" /\ ~Over(j)'
        /\ job[j].told => job'[j].told
        /\ job'[j].told /\ ~job[j].told => job[j].st = "settled" /\ ~Over(j)
        /\ job'[j].st = "running" => ~Over(j)'
        /\ job'[j].st = "new" => ~Over(j)'
        /\ job[j].st = "running" => ~Over(j) /\ ~job[j].told
        /\ job[j].told => job[j].st = "settled"
  BY <1>1 DEF JobSteps, IInv, RunningKnown, Over, Tame
<1>4. \A j \in Jobs :
        /\ job[j].st # "settled" => PhaseOf(j) = job[j].st
        /\ job[j].st = "settled" /\ job[j].told => PhaseOf(j) = "told"
        /\ job[j].st = "settled" /\ ~job[j].told /\ Over(j) => PhaseOf(j) = "dropped"
        /\ job[j].st = "settled" /\ ~job[j].told /\ ~Over(j) => PhaseOf(j) = "done"
  BY PhasesKnown DEF Phases
<1>5. \A j \in Jobs :
        /\ job'[j].st # "settled" => PhaseOf(j)' = job'[j].st
        /\ job'[j].st = "settled" /\ job'[j].told => PhaseOf(j)' = "told"
        /\ job'[j].st = "settled" /\ ~job'[j].told /\ Over(j)' => PhaseOf(j)' = "dropped"
        /\ job'[j].st = "settled" /\ ~job'[j].told /\ ~Over(j)' => PhaseOf(j)' = "done"
  <2>1. Phases'
    BY <1>1, PhasesKnown, PTL
  <2> QED
    BY <2>1 DEF Phases
<1>6. ASSUME NEW j \in Jobs PROVE PhaseOf(j)' \in Contract!Moves(PhaseOf(j), Over(j)')
  <2>1. CASE job'[j].st = job[j].st /\ job[j].st # "settled"
    BY <1>4, <1>5, <2>1 DEF Contract!Moves
  <2>2. CASE job[j].st = "new" /\ job'[j].st = "running"
    BY <1>4, <1>5, <2>2 DEF Contract!Moves
  <2>3. CASE job[j].st = "running" /\ job'[j].st = "cancelled"
    BY <1>4, <1>5, <2>3 DEF Contract!Moves
  <2>4. CASE job[j].st = "running" /\ job'[j].st = "settled"
    BY <1>3, <1>4, <1>5, <2>4 DEF Contract!Moves
  <2>5. CASE job[j].st = "settled" /\ job'[j].st = "settled"
    BY <1>3, <1>4, <1>5, <2>5 DEF Contract!Moves
  <2> QED
    BY <1>3, <2>1, <2>2, <2>3, <2>4, <2>5
<1>7. \A j \in Jobs : PhaseOf(j)' \in {"new", "running", "done", "told", "dropped", "cancelled"}
  BY <1>2, <1>5
<1>8. \A j \in Jobs : Over(j)' /\ ~Over(j) => PhaseOf(j)' \notin {"new", "running"}
  BY <1>2, <1>3, <1>5
<1>9. /\ [j \in Jobs |-> PhaseOf(j)]' = [j \in Jobs |-> PhaseOf(j)']
      /\ \A j \in Jobs : [i \in Jobs |-> PhaseOf(i)][j] = PhaseOf(j)
      /\ {j \in Jobs : Over(j)}' = {j \in Jobs : Over(j)'}
  OBVIOUS
<1>10. [j \in Jobs |-> PhaseOf(j)']
         \in [Jobs -> {"new", "running", "done", "told", "dropped", "cancelled"}]
  BY <1>7
<1>11. \A j \in Jobs :
         [i \in Jobs |-> PhaseOf(i)'][j]
            \in Contract!Moves([i \in Jobs |-> PhaseOf(i)][j], j \in {i \in Jobs : Over(i)'})
  <2> TAKE j \in Jobs
  <2>1. (j \in {i \in Jobs : Over(i)'}) = Over(j)'
    BY DEF Over
  <2>2. [i \in Jobs |-> PhaseOf(i)'][j] = PhaseOf(j)'
    OBVIOUS
  <2> QED
    BY <1>6, <1>9, <2>1, <2>2
<1>12. {j \in Jobs : Over(j)} \subseteq {j \in Jobs : Over(j)'}
  BY <1>3
<1>13. \A j \in {j \in Jobs : Over(j)'} \ {j \in Jobs : Over(j)} :
         [i \in Jobs |-> PhaseOf(i)'][j] \notin {"new", "running"}
  BY <1>8
<1> QED
  BY <1>9, <1>10, <1>11, <1>12, <1>13 DEF Contract!Next

\* In that regime the manager implements JobContract: a finished job's result goes once, to
\* the session that started it, or is dropped with that session, or stays with its waiter.
THEOREM ContractHolds ==
    ASSUME Tame
    PROVE  Spec => KeepsContract
<1>1. Init => Contract!Init
  <2> SUFFICES ASSUME Init PROVE Contract!Init
    OBVIOUS
  <2>1. \A j \in Jobs : job[j].st = "new"
    BY DEF Init, NewJob
  <2>2. \A j \in Jobs : PhaseOf(j) = "new" /\ ~Over(j)
    BY <2>1 DEF PhaseOf, Settled, Over
  <2> QED
    BY <2>2 DEF Contract!Init
<1>2. IInv /\ [Next]_vars => Contract!Next
  BY StepsKeepContract
<1> QED
  BY Invariance, <1>1, <1>2, PTL DEF Spec, KeepsContract, Contract!Spec

\* The reaper's answer.
Reaped ==
    \A o \in Owners :
        reap[o].pc = "waiting" /\ reap'[o].pc = "idle" =>
        \A j \in Jobs : job[j].owner = o /\ job[j].live =>
                        ~reap[o].all /\ job[j].id \in Suppressed

LEMMA ReapStep ==
    ASSUME IInv, Timely, MaxEpoch = 0, [Next]_vars
    PROVE  Reaped
<1> SUFFICES ASSUME NEW o \in Owners, reap[o].pc = "waiting", reap'[o].pc = "idle",
                    NEW j \in Jobs, job[j].owner = o, job[j].live
             PROVE  ~reap[o].all /\ job[j].id \in Suppressed
  BY DEF Reaped
<1>1. reap \in [Owners -> Reaps]
  BY DEF IInv, Fields
<1>2. ReapContinues(o)
  <2>1. reap' # reap
    OBVIOUS
  <2>2. PICK x \in Owners : ReapContinues(x) \/ \E all \in BOOLEAN : ReapStart(x, all)
    BY <2>1 DEF Next, vars, jobVars, muteVars, sessionVars, LoopWakes, LoopContinues, LoopEnds,
       SinkResolves, SinkRejects, Register, MarkRunning, JobEnds, HubCancel, ForegroundDone,
       ForegroundAborted, Backgrounded, EvictFires, DeliverFiltered, SessionMoves, SessionEnds,
       SessionRevived, Inject, InjectFails, HubJobs, HubWait, HubMessage, HubUnwatch, HubReport,
       DisposeStart, DisposeEnd
  <2>3. x = o
    <3> SUFFICES ASSUME x # o PROVE FALSE
      OBVIOUS
    <3>1. PICK w : reap' = [reap EXCEPT ![x] = w]
      BY <2>2 DEF ReapContinues, ReapStart
    <3> QED
      BY <1>1, <3>1
  <2>4. ~ \E all \in BOOLEAN : ReapStart(o, all)
    BY DEF ReapStart
  <2> QED
    BY <2>2, <2>3, <2>4
<1>3. Pending(o, reap[o].all, reap[o].ids) = {} /\ \A k \in reap[o].jobs : ~job[k].live
  <2> DEFINE js == Pending(o, reap[o].all, reap[o].ids)
             w == [pc |-> "waiting", all |-> reap[o].all, jobs |-> js,
                   ids |-> reap[o].ids \cup {job[k].id : k \in js}]
  <2>1. reap' = [reap EXCEPT ![o] = IF js = {} THEN NoReap ELSE w]
    BY <1>2 DEF ReapContinues, ReapRound
  <2>2. w.pc = "waiting"
    OBVIOUS
  <2> HIDE DEF js, w
  <2>3. js = {}
    BY <1>1, <2>1, <2>2
  <2> QED
    BY <1>2, <2>3 DEF ReapContinues, js
<1>4. HasRow(j) /\ job[j].id \in Ids /\ j \in RowsOf(o)
  <2>1. HasRow(j) /\ job[j].id \in Ids
    BY DEF IInv, ReapKnown, JobsKnown
  <2> QED
    BY <2>1, RowFields DEF RowsOf
<1>5. job[j].id \notin reap[o].ids
  BY <1>3, <1>4 DEF IInv, ReapKnown, HasRow
<1> QED
  BY <1>3, <1>4, <1>5 DEF Pending

\* When waitForOwnerJobs answers, no process of the owner runs any more, except those it
\* was told to leave, where sessions stay and nothing outlives its row's retention.
THEOREM ReapersAnswer ==
    ASSUME Timely, MaxEpoch = 0
    PROVE  Spec => ReapMeansSettled
<1>1. IInv /\ [Next]_vars => [Reaped]_vars
  BY ReapStep
<1>2. Reaped <=> \A o \in Owners :
         reap[o].pc = "waiting" /\ reap'[o].pc = "idle" =>
         \A j \in Jobs : job[j].owner = o /\ job[j].live =>
                         ~reap[o].all /\ job[j].id \in Suppressed
  BY DEF Reaped
<1> QED
  BY Invariance, <1>1, <1>2, PTL DEF Spec, ReapMeansSettled
==============================================================================

--------------------------- MODULE AgentRun_proofs ---------------------------
(***************************************************************************)
(* The safety of a run, for every number of messages and runs: who owns    *)
(* the agent, where a message can be, and what an answer has heard.  First *)
(* the lemmas that follow the operators of AgentRun: each is about a value *)
(* w of what a step works on, and says what the operator makes of it.      *)
(* Then the invariant of the runs, its preservation by every step, and the *)
(* properties that follow.                                                 *)
(***************************************************************************)
EXTENDS AgentRun, FiniteSetTheorems, FunctionTheorems, SequenceTheorems, TLAPS

\* The six places of a message, for one value of what a run works on.
Spots == {"said", "hand", "pending", "steering", "followUps", "asides"}
Spread(w) == [said |-> w.chat.said, hand |-> w.a.hand, pending |-> w.a.pending,
              steering |-> w.queue.steering, followUps |-> w.queue.followUps,
              asides |-> w.queue.asides]
InSpot(f, p, m) == \E i \in 1 .. Len(f[p]) : f[p][i] = m
Holds(f, m) == \E p \in Spots : InSpot(f, p, m)

\* Nothing is anywhere twice.
Neat(f) == \A p, q \in Spots : \A i \in 1 .. Len(f[p]), j \in 1 .. Len(f[q]) :
               f[p][i] = f[q][j] => p = q /\ i = j

QueueNames == {"steering", "followUps", "asides"}
Tails == {"none", "user", "assistant", "tool"}
Local == [pc : Places, cut : {"no", "user", "terminal"}, open : BOOLEAN,
          more : BOOLEAN, hand : Seq(Msgs), pending : Seq(Msgs),
          leaks : 0..MaxLeaks, nudges : 0..MaxNudges, how : Ends]
Queues == [QueueNames -> Seq(Msgs)]
Chat == [said : Seq(Msgs), tail : Tails, heard : 0..MaxMessages, owed : BOOLEAN]
Work == [a : Local, queue : Queues, chat : Chat]

Sound(w) == w \in Work /\ Neat(Spread(w))

\* What the model has answered is all that was said.
Answering(w) == w.chat.heard = Len(w.chat.said)

\* What a run has at each of its places.
Shape(w) ==
    /\ w.a.hand # <<>> => w.a.pc \in {"first", "top", "prepare"}
    /\ w.a.pending # <<>> => w.a.pc \in {"top", "lateFollowUp"}
    /\ w.a.pc = "stream" => w.a.open
    /\ w.a.pc \in {"tools", "turnEnd", "turn"} => Answering(w)
    /\ w.a.pc \in {"yield", "lateSteer", "lateFollowUp"} /\ ~w.a.open => Answering(w)
    /\ w.a.pc \in {"ended", "gone"} <=> w.a.how # "no"
    /\ w.a.pc = "new" => w.a = New

Owing(w) == w.chat.owed => w.a.pc = "tools"

\* No message is on its way, or in the transcript, that was not handed in.
Handed(w, n) == \A m \in Msgs : Holds(Spread(w), m) => m <= n

-----------------------------------------------------------------------------
\* Moves of messages between places.

\* got is taken from the front of p, and put behind q.
Moves(f, g, p, q, got) ==
    /\ f \in [Spots -> Seq(Msgs)] /\ g \in [Spots -> Seq(Msgs)] /\ got \in Seq(Msgs)
    /\ p \in Spots /\ q \in Spots /\ p # q
    /\ f[p] = got \o g[p] /\ g[q] = f[q] \o got
    /\ \A s \in Spots \ {p, q} : g[s] = f[s]

\* Places are cut short.
Drops(f, g) ==
    /\ f \in [Spots -> Seq(Msgs)] /\ g \in [Spots -> Seq(Msgs)]
    /\ \A s \in Spots : Len(g[s]) <= Len(f[s]) /\ \A i \in 1 .. Len(g[s]) : g[s][i] = f[s][i]

\* n, which was nowhere, is put behind p.
Adds(f, g, p, n) ==
    /\ f \in [Spots -> Seq(Msgs)] /\ g \in [Spots -> Seq(Msgs)] /\ p \in Spots
    /\ n \in Msgs /\ ~Holds(f, n)
    /\ g[p] = Append(f[p], n) /\ \A s \in Spots \ {p} : g[s] = f[s]

LEMMA Moved ==
  ASSUME NEW f, NEW g, NEW p, NEW q, NEW got, Moves(f, g, p, q, got), Neat(f)
  PROVE  Neat(g) /\ \A m \in Msgs : Holds(g, m) <=> Holds(f, m)
<1> DEFINE left == g[p]
<1>0. /\ f \in [Spots -> Seq(Msgs)] /\ g \in [Spots -> Seq(Msgs)] /\ got \in Seq(Msgs)
      /\ p \in Spots /\ q \in Spots /\ p # q /\ left \in Seq(Msgs)
      /\ f[p] = got \o left /\ g[q] = f[q] \o got /\ g[p] = left
      /\ \A s \in Spots \ {p, q} : g[s] = f[s]
  BY DEF Moves
<1> HIDE DEF left
<1> USE <1>0
<1>1. /\ Len(got) \in Nat /\ Len(left) \in Nat /\ Len(f[q]) \in Nat
      /\ f[q] \o got \in Seq(Msgs) /\ Len(f[q] \o got) = Len(f[q]) + Len(got)
      /\ Len(f[p]) = Len(got) + Len(left)
  BY LenProperties, ConcatProperties
<1>2. /\ \A i \in 1 .. Len(got) : f[p][i] = got[i]
      /\ \A i \in 1 .. Len(left) : f[p][Len(got) + i] = left[i]
  <2>1. \A i \in 1 .. Len(got) + Len(left) :
           f[p][i] = IF i <= Len(got) THEN got[i] ELSE left[i - Len(got)]
    BY ConcatProperties
  <2> QED BY <1>1, <2>1
<1>3. \A i \in 1 .. Len(f[q]) + Len(got) :
         (f[q] \o got)[i] = IF i <= Len(f[q]) THEN f[q][i] ELSE got[i - Len(f[q])]
  BY ConcatProperties
<1>4. /\ g \in [Spots -> Seq(Msgs)]
      /\ g[q] = f[q] \o got /\ g[p] = left
      /\ \A s \in Spots \ {p, q} : g[s] = f[s]
  OBVIOUS
\* Each place of a message in g is a place of it in f, and no two are the same.
<1> DEFINE SpotOf(s, i) == IF s = q /\ i > Len(f[q]) THEN p ELSE s
           AtOf(s, i) == IF s = q /\ i > Len(f[q]) THEN i - Len(f[q])
                         ELSE IF s = p THEN Len(got) + i ELSE i
<1>5. \A s \in Spots : Len(g[s]) \in Nat /\ Len(f[s]) \in Nat
  BY <1>4, LenProperties
<1>6. ASSUME NEW s \in Spots, NEW i \in 1 .. Len(g[s])
      PROVE  /\ SpotOf(s, i) \in Spots /\ AtOf(s, i) \in 1 .. Len(f[SpotOf(s, i)])
             /\ f[SpotOf(s, i)][AtOf(s, i)] = g[s][i]
  <2>1. CASE s = q
    <3>1. i \in 1 .. Len(f[q]) + Len(got) /\ g[s] = f[q] \o got
      BY <1>1, <1>4, <2>1
    <3>2. g[s][i] = IF i <= Len(f[q]) THEN f[q][i] ELSE got[i - Len(f[q])]
      BY <1>3, <3>1
    <3>3. CASE i <= Len(f[q])
      BY <1>1, <2>1, <3>1, <3>2, <3>3
    <3>4. CASE i > Len(f[q])
      <4>1. i - Len(f[q]) \in 1 .. Len(got) /\ i - Len(f[q]) \in 1 .. Len(f[p])
        BY <1>1, <3>1, <3>4
      <4>2. SpotOf(s, i) = p /\ AtOf(s, i) = i - Len(f[q])
        BY <2>1, <3>4
      <4>3. f[p][i - Len(f[q])] = got[i - Len(f[q])]
        BY <1>2, <4>1
      <4>4. g[s][i] = got[i - Len(f[q])]
        BY <1>1, <3>1, <3>2, <3>4
      <4> HIDE DEF SpotOf, AtOf
      <4> QED BY <4>1, <4>2, <4>3, <4>4
    <3> QED BY <1>1, <3>1, <3>3, <3>4
  <2>2. CASE s = p
    BY <1>1, <1>2, <1>4, <2>2
  <2>3. CASE s \notin {p, q}
    BY <1>4, <2>3
  <2> QED BY <2>1, <2>2, <2>3
<1>7. ASSUME NEW s \in Spots, NEW t \in Spots, NEW i \in 1 .. Len(g[s]), NEW j \in 1 .. Len(g[t]),
             SpotOf(s, i) = SpotOf(t, j), AtOf(s, i) = AtOf(t, j)
      PROVE  s = t /\ i = j
  <2>1. Len(g[q]) = Len(f[q]) + Len(got) /\ Len(g[p]) = Len(left)
    BY <1>1, <1>4
  <2>2. i \in Int /\ j \in Int /\ i >= 1 /\ j >= 1 /\ i <= Len(g[s]) /\ j <= Len(g[t])
    BY <1>5
  <2> QED BY <1>1, <1>7, <2>1, <2>2, SMTT(30)
<1>8. Neat(g)
  <2> SUFFICES ASSUME NEW s \in Spots, NEW t \in Spots,
                      NEW i \in 1 .. Len(g[s]), NEW j \in 1 .. Len(g[t]), g[s][i] = g[t][j]
               PROVE  s = t /\ i = j
    BY DEF Neat
  <2>1. /\ SpotOf(s, i) \in Spots /\ AtOf(s, i) \in 1 .. Len(f[SpotOf(s, i)])
        /\ f[SpotOf(s, i)][AtOf(s, i)] = g[s][i]
    BY <1>6
  <2>2. /\ SpotOf(t, j) \in Spots /\ AtOf(t, j) \in 1 .. Len(f[SpotOf(t, j)])
        /\ f[SpotOf(t, j)][AtOf(t, j)] = g[t][j]
    BY <1>6
  <2> HIDE DEF SpotOf, AtOf
  <2>4. f[SpotOf(s, i)][AtOf(s, i)] = f[SpotOf(t, j)][AtOf(t, j)]
    BY <2>1, <2>2
  <2>3. SpotOf(s, i) = SpotOf(t, j) /\ AtOf(s, i) = AtOf(t, j)
    <3>1. \A u, v \in Spots : \A k \in 1 .. Len(f[u]), l \in 1 .. Len(f[v]) :
             f[u][k] = f[v][l] => u = v /\ k = l
      BY DEF Neat
    <3> QED BY ONLY <2>1, <2>2, <2>4, <3>1
  <2> QED BY <1>7, <2>3
<1>9. ASSUME NEW m \in Msgs, Holds(g, m) PROVE Holds(f, m)
  <2>0. PICK s \in Spots : InSpot(g, s, m)
    BY <1>9 DEF Holds
  <2>1. PICK i \in 1 .. Len(g[s]) : g[s][i] = m
    BY <2>0 DEF InSpot
  <2>2. /\ SpotOf(s, i) \in Spots /\ AtOf(s, i) \in 1 .. Len(f[SpotOf(s, i)])
        /\ f[SpotOf(s, i)][AtOf(s, i)] = g[s][i]
    BY <1>6
  <2> HIDE DEF SpotOf, AtOf
  <2> QED BY <2>1, <2>2 DEF Holds, InSpot
<1>10. ASSUME NEW m \in Msgs, Holds(f, m) PROVE Holds(g, m)
  <2>0. PICK s \in Spots : InSpot(f, s, m)
    BY <1>10 DEF Holds
  <2>1. PICK i \in 1 .. Len(f[s]) : f[s][i] = m
    BY <2>0 DEF InSpot
  <2>2. \E t \in Spots : \E j \in 1 .. Len(g[t]) : g[t][j] = m
    <3>1. CASE s = p /\ i <= Len(got)
      <4>1. Len(f[q]) + i \in 1 .. Len(g[q]) /\ g[q][Len(f[q]) + i] = m
        BY <1>1, <1>2, <1>3, <1>4, <1>5, <2>1, <3>1
      <4> QED BY <4>1
    <3>2. CASE s = p /\ i > Len(got)
      <4>1. i - Len(got) \in 1 .. Len(g[p]) /\ g[p][i - Len(got)] = m
        BY <1>1, <1>2, <1>4, <1>5, <2>1, <3>2
      <4> QED BY <4>1
    <3>3. CASE s = q
      <4>1. i \in 1 .. Len(g[q]) /\ g[q][i] = m
        BY <1>1, <1>3, <1>4, <1>5, <2>1, <3>3
      <4> QED BY <4>1
    <3>4. CASE s \notin {p, q}
      BY <1>4, <2>1, <3>4
    <3> QED BY <1>1, <1>5, <3>1, <3>2, <3>3, <3>4
  <2> QED BY <2>2 DEF Holds, InSpot
<1> QED BY <1>8, <1>9, <1>10

LEMMA Dropped ==
  ASSUME NEW f, NEW g, Drops(f, g), Neat(f)
  PROVE  Neat(g) /\ \A m \in Msgs : Holds(g, m) => Holds(f, m)
<1>1. /\ f \in [Spots -> Seq(Msgs)] /\ g \in [Spots -> Seq(Msgs)]
      /\ \A s \in Spots : Len(g[s]) <= Len(f[s]) /\ \A i \in 1 .. Len(g[s]) : g[s][i] = f[s][i]
  BY DEF Drops
<1>2. \A s \in Spots : Len(f[s]) \in Nat /\ Len(g[s]) \in Nat
  BY <1>1, LenProperties
<1>3. \A s \in Spots : \A i \in 1 .. Len(g[s]) : i \in 1 .. Len(f[s]) /\ g[s][i] = f[s][i]
  BY <1>1, <1>2
<1>4. Neat(g)
  BY <1>3 DEF Neat
<1>5. \A m \in Msgs : Holds(g, m) => Holds(f, m)
  BY <1>3 DEF Holds, InSpot
<1> QED BY <1>4, <1>5

LEMMA Added ==
  ASSUME NEW f, NEW g, NEW p, NEW n, Adds(f, g, p, n), Neat(f)
  PROVE  Neat(g) /\ \A m \in Msgs : Holds(g, m) <=> Holds(f, m) \/ m = n
<1>0. /\ f \in [Spots -> Seq(Msgs)] /\ g \in [Spots -> Seq(Msgs)] /\ p \in Spots
      /\ n \in Msgs /\ ~Holds(f, n)
      /\ g[p] = Append(f[p], n) /\ \A s \in Spots \ {p} : g[s] = f[s]
  BY DEF Adds
<1> USE <1>0
<1>1. \A s \in Spots : Len(f[s]) \in Nat
  BY LenProperties
<1>2. /\ Append(f[p], n) \in Seq(Msgs) /\ Len(Append(f[p], n)) = Len(f[p]) + 1
      /\ \A i \in 1 .. Len(f[p]) : Append(f[p], n)[i] = f[p][i]
      /\ Append(f[p], n)[Len(f[p]) + 1] = n
  BY AppendProperties
<1>3. /\ g \in [Spots -> Seq(Msgs)] /\ g[p] = Append(f[p], n)
      /\ \A s \in Spots \ {p} : g[s] = f[s]
  OBVIOUS
<1>4. \A s \in Spots : \A i \in 1 .. Len(g[s]) :
         \/ i \in 1 .. Len(f[s]) /\ g[s][i] = f[s][i]
         \/ s = p /\ i = Len(f[p]) + 1 /\ g[s][i] = n
  <2> SUFFICES ASSUME NEW s \in Spots, NEW i \in 1 .. Len(g[s])
               PROVE  \/ i \in 1 .. Len(f[s]) /\ g[s][i] = f[s][i]
                      \/ s = p /\ i = Len(f[p]) + 1 /\ g[s][i] = n
    OBVIOUS
  <2>1. CASE s = p
    BY <1>1, <1>2, <1>3, <2>1
  <2>2. CASE s # p
    BY <1>3, <2>2
  <2> QED BY <2>1, <2>2
<1>5. \A s \in Spots : \A i \in 1 .. Len(f[s]) : i \in 1 .. Len(g[s]) /\ g[s][i] = f[s][i] /\ f[s][i] # n
  <2>1. ASSUME NEW s \in Spots, NEW i \in 1 .. Len(f[s])
        PROVE  i \in 1 .. Len(g[s]) /\ g[s][i] = f[s][i]
    <3>1. CASE s = p
      BY <1>1, <1>2, <1>3, <3>1
    <3>2. CASE s # p
      BY <1>3, <3>2
    <3> QED BY <3>1, <3>2
  <2>2. \A s \in Spots : \A i \in 1 .. Len(f[s]) : f[s][i] # n
    BY DEF Holds, InSpot
  <2> QED BY <2>1, <2>2
<1>6. Neat(g)
  <2> SUFFICES ASSUME NEW s \in Spots, NEW t \in Spots,
                      NEW i \in 1 .. Len(g[s]), NEW j \in 1 .. Len(g[t]), g[s][i] = g[t][j]
               PROVE  s = t /\ i = j
    BY DEF Neat
  <2>1. CASE i \in 1 .. Len(f[s]) /\ g[s][i] = f[s][i] /\ j \in 1 .. Len(f[t]) /\ g[t][j] = f[t][j]
    <3>1. f[s][i] = f[t][j]
      BY <2>1
    <3>2. i \in 1 .. Len(f[s]) /\ j \in 1 .. Len(f[t])
      BY <2>1
    <3> QED BY <3>1, <3>2 DEF Neat
  <2>2. \/ i \in 1 .. Len(f[s]) /\ g[s][i] = f[s][i] /\ f[s][i] # n
        \/ s = p /\ i = Len(f[p]) + 1 /\ g[s][i] = n
    BY <1>4, <1>5
  <2>3. \/ j \in 1 .. Len(f[t]) /\ g[t][j] = f[t][j] /\ f[t][j] # n
        \/ t = p /\ j = Len(f[p]) + 1 /\ g[t][j] = n
    BY <1>4, <1>5
  <2> QED BY <2>1, <2>2, <2>3
<1>7. \A m \in Msgs : Holds(g, m) => Holds(f, m) \/ m = n
  BY <1>4, SMTT(30) DEF Holds, InSpot
<1>8. \A m \in Msgs : Holds(f, m) => Holds(g, m)
  BY <1>5 DEF Holds, InSpot
<1>9. Holds(g, n)
  <2>1. Len(f[p]) + 1 \in 1 .. Len(g[p]) /\ g[p][Len(f[p]) + 1] = n
    BY <1>1, <1>2, <1>3
  <2> QED BY <2>1 DEF Holds, InSpot
<1> QED BY <1>6, <1>7, <1>8, <1>9

\* What is said is at most all there is.
LEMMA SaidIsBounded ==
  ASSUME MaxMessages \in Nat, NEW q \in Seq(Msgs),
         \A i, j \in 1 .. Len(q) : q[i] = q[j] => i = j
  PROVE  Len(q) \in 0..MaxMessages
<1>1. Len(q) \in Nat /\ q \in [1 .. Len(q) -> Msgs]
  BY LenProperties
<1>2. q \in Injection(1 .. Len(q), Msgs)
  BY <1>1, Fun_IsInj
<1>3. IsFiniteSet(1 .. Len(q)) /\ Cardinality(1 .. Len(q)) = Len(q)
  BY <1>1, FS_Interval, SMTT(30)
<1>4. IsFiniteSet(1 .. MaxMessages) /\ Cardinality(1 .. MaxMessages) = MaxMessages
  BY FS_Interval
<1>5. Len(q) <= MaxMessages
  BY <1>2, <1>3, <1>4, FS_Injection DEF Msgs
<1> QED BY <1>1, <1>5

-----------------------------------------------------------------------------
\* The operators of a run's step.

\* A run that has not ended, with no calls to be paired.
Flow(w) == Sound(w) /\ ~w.chat.owed /\ w.a.how = "no"

\* Where a step may leave its run.
Fine(x) == Sound(x) /\ Shape(x) /\ Owing(x) /\ x.a.pc # "new"

\* Nothing is made up, nothing is lost but with a run that dies, a run that is
\* cut takes nothing, and one that is done has been heard out.
Kept(w, x) ==
    /\ \A m \in Msgs : Holds(Spread(x), m) => Holds(Spread(w), m)
    /\ \/ x.a.how \in {"late", "failed"}
       \/ \A m \in Msgs : Holds(Spread(w), m) => Holds(Spread(x), m)
    /\ Cut(w.a) => x.queue = w.queue
    /\ x.a.how = "done" /\ ~w.a.open => Answering(x)

\* w is read field by field, and put together so.
LEMMA Fields ==
  ASSUME NEW w \in Work
  PROVE  /\ w.a \in Local /\ w.queue \in Queues /\ w.chat \in Chat
         /\ Spread(w) \in [Spots -> Seq(Msgs)]
<1>1. w.a \in Local /\ w.queue \in Queues /\ w.chat \in Chat
  BY DEF Work
<1>2. w.a.hand \in Seq(Msgs) /\ w.a.pending \in Seq(Msgs) /\ w.chat.said \in Seq(Msgs)
  BY <1>1 DEF Local, Chat
<1>3. /\ w.queue["steering"] \in Seq(Msgs) /\ w.queue["followUps"] \in Seq(Msgs)
      /\ w.queue["asides"] \in Seq(Msgs)
  BY <1>1 DEF QueueNames, Queues
<1>4. Spread(w) \in [Spots -> Seq(Msgs)]
  BY <1>2, <1>3 DEF Spread, Spots
<1> QED BY <1>1, <1>4

LEMMA PutTogether ==
  ASSUME NEW w \in Work
  PROVE  /\ \A b \in Local : [w EXCEPT !.a = b] \in Work
         /\ \A c \in Chat : [w EXCEPT !.chat = c] \in Work
         /\ \A b \in Local, c \in Chat : [w EXCEPT !.a = b, !.chat = c] \in Work
         /\ \A b \in Local, c \in Chat : [w EXCEPT !.chat = c, !.a = b] \in Work
         /\ \A b \in Local, q \in Queues : [w EXCEPT !.a = b, !.queue = q] \in Work
         /\ \A q \in Queues : [w EXCEPT !.queue = q] \in Work
BY DEF Work

\* The spots of x that are not those of w.
LEMMA SameSpread ==
  ASSUME NEW w, NEW x, x.chat.said = w.chat.said, x.a.hand = w.a.hand,
         x.a.pending = w.a.pending, x.queue = w.queue
  PROVE  Spread(x) = Spread(w)
BY DEF Spread

LEMMA Emits ==
  ASSUME NEW w, Flow(w)
  PROVE  /\ Flow(Emit(w)) /\ Emit(w).a = [w.a EXCEPT !.hand = <<>>]
         /\ Emit(w).queue = w.queue
         /\ \A m \in Msgs : Holds(Spread(Emit(w)), m) <=> Holds(Spread(w), m)
<1> DEFINE x == Emit(w)
           f == Spread(w)
           g == Spread(x)
           b == [w.a EXCEPT !.hand = <<>>]
           c == [w.chat EXCEPT !.said = w.chat.said \o w.a.hand,
                               !.tail = IF w.a.hand = <<>> THEN w.chat.tail ELSE "user"]
<1>1. w \in Work /\ Neat(f) /\ ~w.chat.owed /\ w.a.how = "no"
  BY DEF Flow, Sound
<1>2. w.a \in Local /\ f \in [Spots -> Seq(Msgs)] /\ w.queue \in Queues /\ w.chat \in Chat
  BY <1>1, Fields
<1>3. w.chat.said \o w.a.hand \in Seq(Msgs) /\ <<>> \in Seq(Msgs)
  BY <1>2, ConcatProperties, EmptySeq DEF Local, Chat
<1>4. /\ x.a = b /\ x.queue = w.queue /\ x.chat = c
  BY <1>1 DEF Emit, Work
<1>5. x \in Work
  <2>1. b \in Local
    BY <1>2, <1>3 DEF Local
  <2>2. c \in Chat
    BY <1>2, <1>3 DEF Chat, Tails
  <2>3. x = [w EXCEPT !.a = b, !.chat = c]
    BY DEF Emit
  <2>4. \A u \in Local, v \in Chat : [w EXCEPT !.a = u, !.chat = v] \in Work
    BY <1>1, PutTogether
  <2> QED BY <2>1, <2>2, <2>3, <2>4
<1>6. g \in [Spots -> Seq(Msgs)]
  BY <1>5, Fields
<1>7. /\ g["said"] = f["said"] \o f["hand"] /\ g["hand"] = <<>>
      /\ g["pending"] = f["pending"] /\ g["steering"] = f["steering"]
      /\ g["followUps"] = f["followUps"] /\ g["asides"] = f["asides"]
  <2>1. /\ x.chat.said = w.chat.said \o w.a.hand /\ x.a.hand = <<>>
        /\ x.a.pending = w.a.pending
    BY <1>2, <1>4 DEF Local, Chat
  <2> HIDE DEF x
  <2> QED BY <1>4, <2>1 DEF Spread
<1>8. f["hand"] \in Seq(Msgs) /\ f["hand"] = f["hand"] \o <<>>
  BY <1>2, ConcatEmptySeq DEF Spots
<1>9. /\ Neat(g) /\ \A m \in Msgs : Holds(g, m) <=> Holds(f, m)
  <2>1. "said" \in Spots /\ "hand" \in Spots
    BY DEF Spots
  <2> HIDE DEF f, g
  <2>2. \A s \in Spots \ {"hand", "said"} : g[s] = f[s]
    BY <1>7 DEF Spots
  <2>3. Moves(f, g, "hand", "said", f["hand"])
    BY <1>2, <1>6, <1>7, <1>8, <2>1, <2>2 DEF Moves
  <2> QED BY <1>1, <2>3, Moved
<1>10. ~x.chat.owed /\ x.a.how = "no"
  BY <1>1, <1>2, <1>4 DEF Local, Chat
<1> QED BY <1>4, <1>5, <1>9, <1>10 DEF Flow, Sound

\* A step by way of y.
Carries(w, y) ==
    /\ \A m \in Msgs : Holds(Spread(y), m) <=> Holds(Spread(w), m)
    /\ Cut(w.a) => Cut(y.a) /\ y.queue = w.queue
    /\ ~w.a.open => ~y.a.open

LEMMA ByWayOf ==
  ASSUME NEW w, NEW y, NEW x, Carries(w, y), Kept(y, x)
  PROVE  Kept(w, x)
BY DEF Carries, Kept

\* A change that touches no message.
LEMMA Amends ==
  ASSUME NEW w, Sound(w), NEW x \in Work, x.chat.said = w.chat.said,
         x.a.hand = w.a.hand, x.a.pending = w.a.pending, x.queue = w.queue,
         w.a.cut # "no" => x.a.cut # "no", ~w.a.open => ~x.a.open
  PROVE  Sound(x) /\ Carries(w, x)
<1>1. Spread(x) = Spread(w)
  BY SameSpread
<1>2. Cut(w.a) => Cut(x.a)
  BY DEF Cut
<1> QED BY <1>1, <1>2 DEF Sound, Carries

\* A run goes on at a place.
LEMMA Arrives ==
  ASSUME NEW w, Sound(w), w.a.how = "no", NEW place \in Places \ {"new", "ended", "gone"},
         w.chat.owed => place = "tools", place = "stream" => w.a.open,
         w.a.hand # <<>> => place \in {"first", "top", "prepare"},
         w.a.pending # <<>> => place \in {"top", "lateFollowUp"},
         place \in {"tools", "turnEnd", "turn"} => Answering(w),
         place \in {"yield", "lateSteer", "lateFollowUp"} /\ ~w.a.open => Answering(w)
  PROVE  Fine(At(w, place)) /\ Kept(w, At(w, place))
<1> DEFINE x == At(w, place)
           b == [w.a EXCEPT !.pc = place]
<1>1. w \in Work /\ w.a \in Local /\ w.queue \in Queues /\ w.chat \in Chat
  BY Fields DEF Sound
<1>2. x.a = b /\ x.queue = w.queue /\ x.chat = w.chat
  BY <1>1 DEF At, Work
<1>3. x \in Work
  <2>1. b \in Local
    BY <1>1 DEF Local
  <2>2. x = [w EXCEPT !.a = b]
    BY DEF At
  <2>3. \A u \in Local : [w EXCEPT !.a = u] \in Work
    BY <1>1, PutTogether
  <2> QED BY <2>1, <2>2, <2>3
<1>4. /\ x.a.pc = place /\ x.a.hand = w.a.hand /\ x.a.pending = w.a.pending
      /\ x.a.cut = w.a.cut /\ x.a.open = w.a.open /\ x.a.how = w.a.how
  BY <1>1, <1>2 DEF Local
<1> HIDE DEF x
<1>5. Sound(x) /\ Carries(w, x)
  BY <1>2, <1>3, <1>4, Amends
<1>6. Shape(x) /\ Owing(x) /\ x.a.pc # "new"
  BY <1>2, <1>4 DEF Shape, Owing, Answering
<1>7. Kept(w, x)
  BY <1>2, <1>4, <1>5 DEF Kept, Carries
<1> QED BY <1>5, <1>6, <1>7 DEF Fine, x

\* A run comes to its end.
LEMMA Leaving ==
  ASSUME NEW w, Sound(w), ~w.chat.owed, NEW place \in {"ended", "gone"},
         NEW how \in Ends \ {"no"},
         how \in {"late", "failed"} \/ (w.a.hand = <<>> /\ w.a.pending = <<>>),
         how = "done" /\ ~w.a.open => Answering(w)
  PROVE  /\ Fine(Leaves(w, place, how)) /\ Kept(w, Leaves(w, place, how))
         /\ Leaves(w, place, how).a.how = how /\ Leaves(w, place, how).a.pc = place
         /\ Leaves(w, place, how).chat = w.chat
<1> DEFINE x == Leaves(w, place, how)
           b == [New EXCEPT !.pc = place, !.how = how]
<1>1. w \in Work /\ Neat(Spread(w)) /\ w.a \in Local /\ w.queue \in Queues /\ w.chat \in Chat
      /\ Spread(w) \in [Spots -> Seq(Msgs)]
  BY Fields DEF Sound
<1>2. x.a = b /\ x.queue = w.queue /\ x.chat = w.chat
  BY <1>1 DEF Leaves, Work
<1>3. x \in Work
  <2>1. b \in Local
    <3>1. New \in Local
      BY BoundsAssumption, EmptySeq DEF Local, New, Places, Ends
    <3>2. place \in Places /\ how \in Ends
      BY DEF Places
    <3> QED BY <3>1, <3>2 DEF Local
  <2>2. x = [w EXCEPT !.a = b]
    BY DEF Leaves
  <2>3. \A u \in Local : [w EXCEPT !.a = u] \in Work
    BY <1>1, PutTogether
  <2> QED BY <2>1, <2>2, <2>3
<1>4. /\ x.a.pc = place /\ x.a.hand = <<>> /\ x.a.pending = <<>> /\ x.a.how = how
  BY <1>2 DEF New
<1> HIDE DEF x
<1>5. Drops(Spread(w), Spread(x))
  <2>1. Spread(x) \in [Spots -> Seq(Msgs)]
    BY <1>3, Fields
  <2>2. /\ Spread(x)["said"] = Spread(w)["said"] /\ Spread(x)["hand"] = <<>>
        /\ Spread(x)["pending"] = <<>> /\ Spread(x)["steering"] = Spread(w)["steering"]
        /\ Spread(x)["followUps"] = Spread(w)["followUps"]
        /\ Spread(x)["asides"] = Spread(w)["asides"]
    BY <1>2, <1>4 DEF Spread
  <2>3. \A s \in Spots : Len(Spread(w)[s]) \in Nat
    BY <1>1, LenProperties
  <2>4. Len(<<>>) = 0
    BY EmptySeq
  <2>5. \A s \in Spots : Spread(x)[s] = <<>> \/ Spread(x)[s] = Spread(w)[s]
    BY <2>2 DEF Spots
  <2>6. \A s \in Spots : /\ Len(Spread(x)[s]) <= Len(Spread(w)[s])
                         /\ \A i \in 1 .. Len(Spread(x)[s]) : Spread(x)[s][i] = Spread(w)[s][i]
    BY <2>3, <2>4, <2>5
  <2> QED BY <1>1, <2>1, <2>6 DEF Drops
<1>6. Sound(x) /\ \A m \in Msgs : Holds(Spread(x), m) => Holds(Spread(w), m)
  BY <1>1, <1>3, <1>5, Dropped DEF Sound
<1>7. Shape(x) /\ Owing(x) /\ x.a.pc # "new"
  BY <1>2, <1>4 DEF Shape, Owing
<1>8. how \in {"late", "failed"} \/ Spread(x) = Spread(w)
  BY <1>2, <1>4, SameSpread
<1>9. how = "done" /\ ~w.a.open => Answering(x)
  BY <1>2 DEF Answering
<1>10. Kept(w, x)
  BY <1>2, <1>4, <1>6, <1>8, <1>9 DEF Kept
<1> QED BY <1>2, <1>4, <1>6, <1>7, <1>10 DEF Fine, x

\* Only the transcript's last kind of message changes.
LEMMA Retailed ==
  ASSUME NEW w, NEW y, Fine(y), Kept(w, y), NEW tail \in Tails
  PROVE  /\ Fine([y EXCEPT !.chat.tail = tail]) /\ Kept(w, [y EXCEPT !.chat.tail = tail])
         /\ [y EXCEPT !.chat.tail = tail].a = y.a
<1> DEFINE x == [y EXCEPT !.chat.tail = tail]
           c == [y.chat EXCEPT !.tail = tail]
<1>1. y \in Work /\ Neat(Spread(y)) /\ y.chat \in Chat
  BY Fields DEF Fine, Sound
<1>2. x.a = y.a /\ x.queue = y.queue /\ x.chat = c
  BY <1>1 DEF Work
<1>3. x \in Work
  <2>1. c \in Chat
    BY <1>1 DEF Chat
  <2>2. x = [y EXCEPT !.chat = c]
    OBVIOUS
  <2>3. \A v \in Chat : [y EXCEPT !.chat = v] \in Work
    BY <1>1, PutTogether
  <2> QED BY <2>1, <2>2, <2>3
<1>4. /\ x.chat.said = y.chat.said /\ x.chat.heard = y.chat.heard
      /\ x.chat.owed = y.chat.owed
  BY <1>1, <1>2 DEF Chat
<1> HIDE DEF x
<1>5. Spread(x) = Spread(y)
  BY <1>2, <1>4, SameSpread
<1>6. Fine(x)
  BY <1>2, <1>3, <1>4, <1>5 DEF Fine, Sound, Shape, Owing, Answering
<1>7. Kept(w, x)
  BY <1>2, <1>4, <1>5 DEF Kept, Answering
<1> QED BY <1>2, <1>6, <1>7 DEF x

LEMMA EmitCarries ==
  ASSUME NEW w, Flow(w)
  PROVE  /\ Flow(Emit(w)) /\ Carries(w, Emit(w))
         /\ Emit(w).a.hand = <<>> /\ Emit(w).a.pending = w.a.pending
         /\ Emit(w).a.open = w.a.open
<1>1. w.a \in Local
  BY Fields DEF Flow, Sound
<1>2. /\ Flow(Emit(w)) /\ Emit(w).a = [w.a EXCEPT !.hand = <<>>]
      /\ Emit(w).queue = w.queue
      /\ \A m \in Msgs : Holds(Spread(Emit(w)), m) <=> Holds(Spread(w), m)
  BY Emits
<1>3. /\ Emit(w).a.hand = <<>> /\ Emit(w).a.pending = w.a.pending
      /\ Emit(w).a.open = w.a.open /\ Emit(w).a.cut = w.a.cut
  BY <1>1, <1>2 DEF Local
<1> QED BY <1>2, <1>3 DEF Carries, Cut

LEMMA Throws ==
  ASSUME NEW w, Flow(w)
  PROVE  /\ Fine(Throw(w)) /\ Kept(w, Throw(w))
         /\ Throw(w).a.how = "failed" /\ Throw(w).a.pc = "gone"
<1> DEFINE told == IF w.a.open THEN w ELSE Emit(w)
           y == Leaves(told, "gone", "failed")
<1>1. Flow(told) /\ Carries(w, told)
  BY EmitCarries DEF Carries
<1> HIDE DEF told
<1>2. Fine(y) /\ Kept(told, y) /\ y.a.how = "failed" /\ y.a.pc = "gone"
  BY <1>1, Leaving DEF Flow, Ends
<1> HIDE DEF y
<1>3. Kept(w, y)
  BY <1>1, <1>2, ByWayOf
<1>4. Throw(w) = [y EXCEPT !.chat.tail = "assistant"]
  BY DEF Throw, y, told
<1>5. "assistant" \in Tails
  BY DEF Tails
<1> QED BY <1>2, <1>3, <1>4, <1>5, Retailed

LEMMA Tops ==
  ASSUME NEW w, Flow(w)
  PROVE  Fine(Top(w)) /\ Kept(w, Top(w))
<1>1. CASE late
  <2>1. Flow(Emit(w)) /\ Carries(w, Emit(w))
    BY EmitCarries
  <2>2. Fine(Finish(Emit(w), "late")) /\ Kept(Emit(w), Finish(Emit(w), "late"))
    BY <2>1, Leaving DEF Flow, Ends, Finish
  <2>3. Kept(w, Finish(Emit(w), "late"))
    BY <2>1, <2>2, ByWayOf
  <2> QED BY <1>1, <2>2, <2>3 DEF Top
<1>2. CASE ~late
  <2>1. "top" \in Places \ {"new", "ended", "gone"}
    BY DEF Places
  <2>2. Fine(At(w, "top")) /\ Kept(w, At(w, "top"))
    BY <2>1, Arrives DEF Flow
  <2> QED BY <1>2, <2>2 DEF Top
<1> QED BY <1>1, <1>2

\* A run with nothing in its hands, which owes nothing and is answered.
Idles(w) == w.a.hand = <<>> /\ (~w.a.open => Answering(w))

LEMMA Loops ==
  ASSUME NEW w, Flow(w), Idles(w)
  PROVE  Fine(Loop(w)) /\ Kept(w, Loop(w))
<1>1. CASE w.a.more \/ w.a.pending # <<>>
  BY <1>1, Tops DEF Loop
<1>2. CASE ~w.a.more /\ w.a.pending = <<>> /\ late
  <2>1. Fine(Finish(w, "late")) /\ Kept(w, Finish(w, "late"))
    BY Leaving DEF Flow, Ends, Finish
  <2> QED BY <1>2, <2>1 DEF Loop, Yield
<1>3. CASE ~w.a.more /\ w.a.pending = <<>> /\ ~late
  <2>1. "yield" \in Places \ {"new", "ended", "gone"}
    BY DEF Places
  <2>2. Fine(At(w, "yield")) /\ Kept(w, At(w, "yield"))
    BY <1>3, <2>1, Arrives DEF Flow, Idles
  <2> QED BY <1>3, <2>2 DEF Loop, Yield
<1> QED BY <1>1, <1>2, <1>3

\* Only the run's own variables change.
LEMMA Relocates ==
  ASSUME NEW w, Flow(w), NEW b \in Local, b.hand = w.a.hand, b.pending = w.a.pending,
         w.a.cut # "no" => b.cut # "no", b.how = "no", ~w.a.open => ~b.open
  PROVE  /\ Flow([w EXCEPT !.a = b]) /\ Carries(w, [w EXCEPT !.a = b])
         /\ [w EXCEPT !.a = b].a = b /\ [w EXCEPT !.a = b].chat = w.chat
<1> DEFINE x == [w EXCEPT !.a = b]
<1>1. w \in Work
  BY DEF Flow, Sound
<1>2. x \in Work /\ x.a = b /\ x.chat = w.chat /\ x.queue = w.queue
  BY <1>1, PutTogether DEF Work
<1> HIDE DEF x
<1>3. Sound(x) /\ Carries(w, x)
  BY <1>2, Amends DEF Flow
<1> QED BY <1>2, <1>3 DEF Flow, x

\* What is got joins what is pending.
LEMMA Pends ==
  ASSUME NEW w \in Work, NEW got \in Seq(Msgs)
  PROVE  /\ [w EXCEPT !.a.pending = got] \in Work
         /\ [w EXCEPT !.a.pending = got].a = [w.a EXCEPT !.pending = got]
         /\ [w EXCEPT !.a.pending = got].chat = w.chat
         /\ [w EXCEPT !.a.pending = got].queue = w.queue
         /\ got = w.a.pending => [w EXCEPT !.a.pending = got] = w
<1> DEFINE b == [w.a EXCEPT !.pending = got]
<1>1. w.a \in Local
  BY Fields
<1>2. b \in Local
  BY <1>1 DEF Local
<1>3. \A u \in Local : [w EXCEPT !.a = u] \in Work
  BY PutTogether
<1>4. [w EXCEPT !.a.pending = got] = [w EXCEPT !.a = b]
  OBVIOUS
<1>5. got = w.a.pending => b = w.a
  BY <1>1 DEF Local
<1>6. [w EXCEPT !.a = w.a] = w
  BY DEF Work
<1>7. /\ [w EXCEPT !.a = b].a = b /\ [w EXCEPT !.a = b].chat = w.chat
      /\ [w EXCEPT !.a = b].queue = w.queue
  BY DEF Work
<1> QED BY <1>2, <1>3, <1>4, <1>5, <1>6, <1>7

LEMMA Asided ==
  ASSUME NEW w, Flow(w)
  PROVE  /\ Flow(TakeAsides(w)) /\ Carries(w, TakeAsides(w))
         /\ TakeAsides(w).a.hand = w.a.hand /\ TakeAsides(w).a.open = w.a.open
         /\ TakeAsides(w).chat = w.chat
<1>1. CASE Cut(w.a)
  BY <1>1 DEF TakeAsides, Carries
<1>2. CASE ~Cut(w.a)
  <2> DEFINE x == TakeAsides(w)
             b == [w.a EXCEPT !.pending = w.a.pending \o w.queue.asides]
             q == [w.queue EXCEPT !.asides = <<>>]
             f == Spread(w)
             g == Spread(x)
  <2>1. /\ w \in Work /\ Neat(f) /\ ~w.chat.owed /\ w.a.how = "no"
        /\ w.a \in Local /\ w.queue \in Queues /\ w.chat \in Chat
        /\ f \in [Spots -> Seq(Msgs)]
    BY Fields DEF Flow, Sound
  <2>2. "asides" \in QueueNames /\ w.queue.asides \in Seq(Msgs) /\ w.a.pending \in Seq(Msgs)
    BY <2>1 DEF QueueNames, Queues, Local
  <2>3. w.a.pending \o w.queue.asides \in Seq(Msgs) /\ <<>> \in Seq(Msgs)
    BY <2>2, ConcatProperties, EmptySeq
  <2>4. b \in Local
    BY <2>1, <2>3 DEF Local
  <2>5. q \in Queues
    BY <2>1, <2>2, <2>3 DEF Queues
  <2>6. x = [w EXCEPT !.a = b, !.queue = q]
    BY <1>2 DEF TakeAsides
  <2>7. x \in Work
    <3>1. \A u \in Local, v \in Queues : [w EXCEPT !.a = u, !.queue = v] \in Work
      BY <2>1, PutTogether
    <3> QED BY <2>4, <2>5, <2>6, <3>1
  <2>8. x.a = b /\ x.queue = q /\ x.chat = w.chat
    BY <2>1, <2>6 DEF Work
  <2>9. /\ x.a.hand = w.a.hand /\ x.a.open = w.a.open /\ x.a.how = w.a.how /\ x.a.cut = w.a.cut
        /\ x.a.pending = w.a.pending \o w.queue.asides
    BY <2>1, <2>8 DEF Local
  <2>10. /\ x.queue.asides = <<>> /\ x.queue.steering = w.queue.steering
         /\ x.queue.followUps = w.queue.followUps
    BY <2>1, <2>8 DEF Queues, QueueNames
  <2> HIDE DEF x
  <2>11. /\ g["pending"] = f["pending"] \o f["asides"] /\ g["asides"] = <<>>
         /\ g["hand"] = f["hand"] /\ g["said"] = f["said"] /\ g["steering"] = f["steering"]
         /\ g["followUps"] = f["followUps"]
    BY <2>8, <2>9, <2>10 DEF Spread
  <2>12. g \in [Spots -> Seq(Msgs)]
    BY <2>7, Fields
  <2>13. Neat(g) /\ \A m \in Msgs : Holds(g, m) <=> Holds(f, m)
    <3>1. "asides" \in Spots /\ "pending" \in Spots
      BY DEF Spots
    <3> HIDE DEF f, g
    <3>2. \A s \in Spots \ {"asides", "pending"} : g[s] = f[s]
      BY <2>11 DEF Spots
    <3>3. f["asides"] \in Seq(Msgs) /\ f["asides"] = f["asides"] \o <<>>
      BY <2>1, <3>1, ConcatEmptySeq
    <3>4. Moves(f, g, "asides", "pending", f["asides"])
      BY <2>1, <2>11, <2>12, <3>1, <3>2, <3>3 DEF Moves
    <3> QED BY <2>1, <3>4, Moved
  <2>14. Flow(x) /\ Carries(w, x)
    BY <1>2, <2>1, <2>7, <2>8, <2>9, <2>13 DEF Flow, Sound, Carries
  <2> QED BY <2>8, <2>9, <2>14 DEF x
<1> QED BY <1>1, <1>2

LEMMA GoesRound ==
  ASSUME NEW w, Flow(w)
  PROVE  Fine(Top([w EXCEPT !.a.more = TRUE])) /\ Kept(w, Top([w EXCEPT !.a.more = TRUE]))
<1> DEFINE b == [w.a EXCEPT !.more = TRUE]
           x == [w EXCEPT !.a.more = TRUE]
<1>1. w.a \in Local /\ w.a.how = "no"
  BY Fields DEF Flow, Sound
<1>2. /\ b \in Local /\ b.hand = w.a.hand /\ b.pending = w.a.pending /\ b.cut = w.a.cut
      /\ b.how = "no" /\ b.open = w.a.open
  BY <1>1 DEF Local
<1>3. x = [w EXCEPT !.a = b]
  OBVIOUS
<1> HIDE DEF b
<1>4. Flow(x) /\ Carries(w, x)
  BY <1>2, <1>3, Relocates
<1> HIDE DEF x
<1>5. Fine(Top(x)) /\ Kept(x, Top(x))
  BY <1>4, Tops
<1> QED BY <1>4, <1>5, ByWayOf DEF x

LEMMA LateFollowUps ==
  ASSUME NEW w, NEW got, NEW x, x = [w EXCEPT !.a.pending = @ \o got], Flow(x), Idles(x)
  PROVE  Fine(GotLateFollowUps(w, got)) /\ Kept(x, GotLateFollowUps(w, got))
<1>1. CASE x.a.pending = <<>>
  <2>1. Fine(Finish(x, "done")) /\ Kept(x, Finish(x, "done"))
    BY <1>1, Leaving DEF Flow, Idles, Ends, Finish
  <2> QED BY <1>1, <2>1 DEF GotLateFollowUps
<1>2. CASE x.a.pending # <<>>
  <2>1. GotLateFollowUps(w, got) = Top([x EXCEPT !.a.more = TRUE])
    BY <1>2 DEF GotLateFollowUps
  <2> QED BY <2>1, GoesRound
<1> QED BY <1>1, <1>2

LEMMA LateSteering ==
  ASSUME NEW w, NEW got, NEW x, x = [w EXCEPT !.a.pending = got], Flow(x), Idles(x)
  PROVE  Fine(GotLateSteering(w, got)) /\ Kept(x, GotLateSteering(w, got))
<1> DEFINE y == TakeAsides(x)
           z == GotLateSteering(w, got)
<1>1. Flow(y) /\ Carries(x, y) /\ Idles(y)
  BY Asided DEF Idles, Answering
<1>2. z = IF Asks(y, "lateFollowUp") THEN At(y, "lateFollowUp") ELSE GotLateFollowUps(y, <<>>)
  BY DEF GotLateSteering
<1> HIDE DEF y, z
<1>3. Fine(At(y, "lateFollowUp")) /\ Kept(y, At(y, "lateFollowUp"))
  <2>1. "lateFollowUp" \in Places \ {"new", "ended", "gone"}
    BY DEF Places, Polls
  <2> QED BY <1>1, <2>1, Arrives DEF Flow, Idles
<1>4. Fine(GotLateFollowUps(y, <<>>)) /\ Kept(y, GotLateFollowUps(y, <<>>))
  <2>1. y \in Work /\ y.a \in Local
    BY <1>1, Fields DEF Flow, Sound
  <2>2. y.a.pending \in Seq(Msgs) /\ y.a.pending \o <<>> = y.a.pending
    BY <2>1, ConcatEmptySeq DEF Local
  <2>3. y = [y EXCEPT !.a.pending = @ \o <<>>]
    BY <2>1, <2>2, Pends
  <2> QED BY <1>1, <2>3, LateFollowUps
<1>5. Fine(z) /\ Kept(y, z)
  BY <1>2, <1>3, <1>4
<1>6. Kept(x, z)
  BY <1>1, <1>5, ByWayOf
<1> QED BY <1>5, <1>6 DEF z

LEMMA Steering ==
  ASSUME NEW w, NEW got, NEW x, x = [w EXCEPT !.a.pending = got], Flow(x), Idles(x)
  PROVE  Fine(GotSteering(w, got)) /\ Kept(x, GotSteering(w, got))
<1> DEFINE y == IF w.a.more THEN TakeAsides(x) ELSE x
<1>1. Flow(y) /\ Carries(x, y) /\ Idles(y)
  BY Asided DEF Idles, Answering, Carries
<1>2. GotSteering(w, got) = Loop(y)
  BY DEF GotSteering
<1> HIDE DEF y
<1>3. Fine(Loop(y)) /\ Kept(y, Loop(y))
  BY <1>1, Loops
<1> QED BY <1>1, <1>2, <1>3, ByWayOf

LEMMA Starts ==
  ASSUME NEW w, Flow(w), w.a.pending = <<>>, NEW skip \in BOOLEAN
  PROVE  Fine(Start(w, skip)) /\ Kept(w, Start(w, skip))
<1>1. CASE late
  BY <1>1, Tops DEF Start, Top
<1>2. CASE ~late /\ ~skip /\ Asks(w, "first")
  <2>1. "first" \in Places \ {"new", "ended", "gone"}
    BY DEF Places, Polls
  <2>2. Fine(At(w, "first")) /\ Kept(w, At(w, "first"))
    BY <2>1, Arrives DEF Flow
  <2> QED BY <1>2, <2>2 DEF Start
<1>3. CASE ~late /\ ~(~skip /\ Asks(w, "first"))
  BY <1>3, Tops DEF Start
<1> QED BY <1>1, <1>2, <1>3

\* What continue has got becomes the message that opens the run.
LEMMA Hands ==
  ASSUME NEW w \in Work, NEW got \in Seq(Msgs)
  PROVE  /\ [w EXCEPT !.a.hand = got] \in Work
         /\ [w EXCEPT !.a.hand = got].a = [w.a EXCEPT !.hand = got]
         /\ [w EXCEPT !.a.hand = got].chat = w.chat
         /\ [w EXCEPT !.a.hand = got].queue = w.queue
         /\ got = w.a.hand => [w EXCEPT !.a.hand = got] = w
<1> DEFINE b == [w.a EXCEPT !.hand = got]
<1>1. w.a \in Local
  BY Fields
<1>2. b \in Local
  BY <1>1 DEF Local
<1>3. \A u \in Local : [w EXCEPT !.a = u] \in Work
  BY PutTogether
<1>4. [w EXCEPT !.a.hand = got] = [w EXCEPT !.a = b]
  OBVIOUS
<1>5. got = w.a.hand => b = w.a
  BY <1>1 DEF Local
<1>6. [w EXCEPT !.a = w.a] = w
  BY DEF Work
<1>7. /\ [w EXCEPT !.a = b].a = b /\ [w EXCEPT !.a = b].chat = w.chat
      /\ [w EXCEPT !.a = b].queue = w.queue
  BY DEF Work
<1> QED BY <1>2, <1>3, <1>4, <1>5, <1>6, <1>7

LEMMA FollowUps ==
  ASSUME NEW w \in Work, NEW got \in Seq(Msgs), NEW x, x = [w EXCEPT !.a.hand = got],
         Flow(x), x.a.pending = <<>>, w.a.hand = <<>>
  PROVE  Fine(GotFollowUps(w, got)) /\ Kept(x, GotFollowUps(w, got))
<1>1. CASE got = <<>>
  <2>1. x = w
    BY <1>1, Hands
  <2>2. Fine(Leaves(w, "gone", "failed")) /\ Kept(w, Leaves(w, "gone", "failed"))
    BY <2>1, Leaving DEF Flow, Ends
  <2> QED BY <1>1, <2>1, <2>2 DEF GotFollowUps
<1>2. CASE got # <<>>
  BY <1>2, Starts DEF GotFollowUps
<1> QED BY <1>1, <1>2

LEMMA Opens ==
  ASSUME NEW w \in Work, NEW got \in Seq(Msgs), NEW x, x = [w EXCEPT !.a.hand = got],
         Flow(x), x.a.pending = <<>>, w.a.hand = <<>>
  PROVE  Fine(GotOpening(w, got)) /\ Kept(x, GotOpening(w, got))
<1>1. CASE got # <<>>
  BY <1>1, Starts DEF GotOpening
<1>2. CASE got = <<>>
  <2>1. x = w
    BY <1>2, Hands
  <2>2. "openFollowUp" \in Places \ {"new", "ended", "gone"}
    BY DEF Places, Polls
  <2>3. Fine(At(w, "openFollowUp")) /\ Kept(w, At(w, "openFollowUp"))
    BY <2>1, <2>2, Arrives DEF Flow
  <2>4. Fine(GotFollowUps(w, <<>>)) /\ Kept(w, GotFollowUps(w, <<>>))
    BY <1>2, <2>1, FollowUps
  <2> QED BY <1>2, <2>1, <2>3, <2>4 DEF GotOpening
<1> QED BY <1>1, <1>2

\* The end of a turn: all that was said has its answer.
Replied(w) == Flow(w) /\ w.a.hand = <<>> /\ w.a.pending = <<>> /\ Answering(w)

LEMMA AfterTurns ==
  ASSUME NEW w, Replied(w)
  PROVE  Fine(AfterTurn(w)) /\ Kept(w, AfterTurn(w))
<1>1. CASE late
  <2>1. Fine(Finish(w, "late")) /\ Kept(w, Finish(w, "late"))
    BY Leaving DEF Replied, Flow, Ends, Finish
  <2> QED BY <1>1, <2>1 DEF AfterTurn
<1>2. CASE ~late /\ Asks(w, "turn")
  <2>1. "turn" \in Places \ {"new", "ended", "gone"}
    BY DEF Places, Polls
  <2>2. Fine(At(w, "turn")) /\ Kept(w, At(w, "turn"))
    BY <2>1, Arrives DEF Replied, Flow
  <2> QED BY <1>2, <2>2 DEF AfterTurn
<1>3. CASE ~late /\ ~Asks(w, "turn")
  <2>1. w = [w EXCEPT !.a.pending = <<>>]
    BY Pends, EmptySeq DEF Replied, Flow, Sound
  <2>2. Fine(GotSteering(w, <<>>)) /\ Kept(w, GotSteering(w, <<>>))
    BY <2>1, Steering DEF Replied, Idles
  <2> QED BY <1>3, <2>2 DEF AfterTurn
<1> QED BY <1>1, <1>2, <1>3

LEMMA EndTurns ==
  ASSUME NEW w, Replied(w)
  PROVE  Fine(EndTurn(w)) /\ Kept(w, EndTurn(w))
<1> DEFINE b == [w.a EXCEPT !.open = FALSE]
           x == [w EXCEPT !.a.open = FALSE]
           z == EndTurn(w)
<1>1. w.a \in Local /\ w.a.how = "no"
  BY Fields DEF Replied, Flow, Sound
<1>2. /\ b \in Local /\ b.hand = w.a.hand /\ b.pending = w.a.pending /\ b.cut = w.a.cut
      /\ b.how = "no" /\ b.open = FALSE
  BY <1>1 DEF Local
<1>3. x = [w EXCEPT !.a = b]
  OBVIOUS
<1> HIDE DEF b
<1>4. Replied(x) /\ Carries(w, x)
  BY <1>2, <1>3, Relocates, ZenonT(60) DEF Replied, Answering
<1>5. z = IF Cut(w.a) THEN AfterTurn(x) ELSE At(x, "turnEnd")
  BY DEF EndTurn
<1> HIDE DEF x, z
<1>6. Fine(AfterTurn(x)) /\ Kept(x, AfterTurn(x))
  BY <1>4, AfterTurns
<1>7. Fine(At(x, "turnEnd")) /\ Kept(x, At(x, "turnEnd"))
  <2>1. "turnEnd" \in Places \ {"new", "ended", "gone"}
    BY DEF Places
  <2> QED BY <1>4, <2>1, Arrives DEF Replied, Flow
<1>8. Fine(z) /\ Kept(x, z)
  BY <1>5, <1>6, <1>7
<1>9. Kept(w, z)
  BY <1>4, <1>8, ByWayOf
<1> QED BY <1>8, <1>9 DEF z

LEMMA Bounds == /\ MaxMessages \in Nat /\ MaxRuns \in Nat /\ MaxLeaks \in Nat /\ MaxNudges \in Nat
                /\ 0 \in 0..MaxLeaks /\ 0 \in 0..MaxNudges /\ 0 \in 0..MaxMessages
BY BoundsAssumption

LEMMA Resulted ==
  ASSUME NEW w, Sound(w), w.a.how = "no"
  PROVE  /\ Flow(Results(w)) /\ Carries(w, Results(w))
         /\ Results(w).a = [w.a EXCEPT !.nudges = 0]
         /\ Results(w).chat.said = w.chat.said /\ Results(w).chat.heard = w.chat.heard
<1> DEFINE x == Results(w)
           b == [w.a EXCEPT !.nudges = 0]
           c == [w.chat EXCEPT !.owed = FALSE, !.tail = "tool"]
<1>1. w \in Work /\ w.a \in Local /\ w.chat \in Chat
  BY Fields DEF Sound
<1>2. b \in Local /\ c \in Chat
  BY <1>1, Bounds DEF Local, Chat, Tails
<1>3. x = [w EXCEPT !.a = b, !.chat = c]
  BY DEF Results
<1>4. x \in Work
  <2>1. \A u \in Local, v \in Chat : [w EXCEPT !.a = u, !.chat = v] \in Work
    BY <1>1, PutTogether
  <2> QED BY <1>2, <1>3, <2>1
<1>5. x.a = b /\ x.chat = c /\ x.queue = w.queue
  BY <1>1, <1>3 DEF Work
<1>6. /\ x.a.hand = w.a.hand /\ x.a.pending = w.a.pending /\ x.a.cut = w.a.cut
      /\ x.a.open = w.a.open /\ x.a.how = w.a.how /\ ~x.chat.owed
      /\ x.chat.said = w.chat.said /\ x.chat.heard = w.chat.heard
  BY <1>1, <1>5 DEF Local, Chat
<1> HIDE DEF x
<1>7. Sound(x) /\ Carries(w, x)
  BY <1>4, <1>5, <1>6, Amends
<1> QED BY <1>5, <1>6, <1>7 DEF Flow, x

\* Whether the model is asked again.
LEMMA AsksAgain ==
  ASSUME NEW w, Replied(w), NEW v \in BOOLEAN
  PROVE  Replied([w EXCEPT !.a.more = v]) /\ Carries(w, [w EXCEPT !.a.more = v])
<1> DEFINE b == [w.a EXCEPT !.more = v]
           x == [w EXCEPT !.a.more = v]
<1>1. w.a \in Local /\ w.a.how = "no"
  BY Fields DEF Replied, Flow, Sound
<1>2. /\ b \in Local /\ b.hand = w.a.hand /\ b.pending = w.a.pending /\ b.cut = w.a.cut
      /\ b.how = "no" /\ b.open = w.a.open
  BY <1>1 DEF Local
<1>3. x = [w EXCEPT !.a = b]
  OBVIOUS
<1> HIDE DEF b, x
<1>4. Flow(x) /\ Carries(w, x) /\ x.a = b /\ x.chat = w.chat
  <2>1. /\ Flow([w EXCEPT !.a = b]) /\ Carries(w, [w EXCEPT !.a = b])
        /\ [w EXCEPT !.a = b].a = b /\ [w EXCEPT !.a = b].chat = w.chat
    BY <1>2, Relocates DEF Replied
  <2> QED BY <1>3, <2>1
<1>5. Replied(x)
  BY <1>2, <1>4 DEF Replied, Answering
<1> QED BY <1>4, <1>5 DEF x

LEMMA ThroughReply ==
  ASSUME NEW w, NEW x, Carries(w, x), Replied(x)
  PROVE  Fine(EndTurn(x)) /\ Kept(w, EndTurn(x))
BY EndTurns, ByWayOf

LEMMA CarriesOn ==
  ASSUME NEW w, NEW y, NEW x, Carries(w, y), Carries(y, x)
  PROVE  Carries(w, x)
BY DEF Carries

LEMMA Settles ==
  ASSUME NEW w, Flow(w), w.a.hand = <<>>, w.a.pending = <<>>, NEW answer \in Answers
  PROVE  Fine(Settle(w, answer)) /\ Kept(w, Settle(w, answer))
<1> DEFINE said == [w EXCEPT !.chat.tail = "assistant", !.chat.heard = Len(w.chat.said),
                             !.chat.owed = answer \in {"calls", "cutOff"},
                             !.a.leaks = 0, !.a.more = FALSE]
           b == [w.a EXCEPT !.leaks = 0, !.more = FALSE]
           c == [w.chat EXCEPT !.tail = "assistant", !.heard = Len(w.chat.said),
                               !.owed = answer \in {"calls", "cutOff"}]
           z == Settle(w, answer)
<1>1. w \in Work /\ w.a \in Local /\ w.chat \in Chat /\ w.a.how = "no" /\ Neat(Spread(w))
      /\ ~w.chat.owed
  BY Fields DEF Flow, Sound
<1>2. /\ b \in Local
      /\ b.hand = w.a.hand /\ b.pending = w.a.pending /\ b.cut = w.a.cut
      /\ b.open = w.a.open /\ b.how = w.a.how /\ b.nudges = w.a.nudges
  BY <1>1, Bounds DEF Local
<1>3. Len(w.chat.said) \in 0..MaxMessages
  <2>1. w.chat.said \in Seq(Msgs)
    BY <1>1 DEF Chat
  <2>2. \A i, j \in 1 .. Len(w.chat.said) : w.chat.said[i] = w.chat.said[j] => i = j
    <3>1. "said" \in Spots
      BY DEF Spots
    <3>2. Spread(w)["said"] = w.chat.said
      BY DEF Spread
    <3> QED BY <1>1, <3>1, <3>2 DEF Neat
  <2>3. MaxMessages \in Nat
    BY Bounds
  <2> QED BY <2>1, <2>2, <2>3, SaidIsBounded
<1>4. /\ c \in Chat /\ c.said = w.chat.said /\ c.heard = Len(w.chat.said)
      /\ c.owed = (answer \in {"calls", "cutOff"})
  <2>1. \A o \in BOOLEAN :
           LET d == [w.chat EXCEPT !.tail = "assistant", !.heard = Len(w.chat.said), !.owed = o]
           IN  d \in Chat /\ d.said = w.chat.said /\ d.heard = Len(w.chat.said) /\ d.owed = o
    BY <1>1, <1>3 DEF Chat, Tails
  <2>2. (answer \in {"calls", "cutOff"}) \in BOOLEAN
    OBVIOUS
  <2> QED BY <2>1, <2>2, Zenon
<1>5. said = [w EXCEPT !.a = b, !.chat = c]
  OBVIOUS
<1>6. said \in Work
  <2>1. \A u \in Local, v \in Chat : [w EXCEPT !.a = u, !.chat = v] \in Work
    BY <1>1, PutTogether
  <2> QED BY <1>2, <1>4, <1>5, <2>1
<1>7. said.a = b /\ said.chat = c /\ said.queue = w.queue
  BY <1>1, <1>5 DEF Work
<1>8. /\ said.a.hand = <<>> /\ said.a.pending = <<>> /\ said.a.cut = w.a.cut
      /\ said.a.open = w.a.open /\ said.a.how = "no" /\ said.a.nudges = w.a.nudges
      /\ said.chat.said = w.chat.said /\ Answering(said)
      /\ said.chat.owed = (answer \in {"calls", "cutOff"})
  <2> HIDE DEF said, b
  <2>1. /\ said.a.hand = w.a.hand /\ said.a.pending = w.a.pending /\ said.a.cut = w.a.cut
        /\ said.a.open = w.a.open /\ said.a.how = w.a.how /\ said.a.nudges = w.a.nudges
    BY <1>2, <1>7
  <2>2. /\ said.chat.said = w.chat.said /\ said.chat.heard = Len(w.chat.said)
        /\ said.chat.owed = (answer \in {"calls", "cutOff"})
    BY <1>4, <1>7, Zenon
  <2> QED BY <1>1, <2>1, <2>2 DEF Answering
<1>9. z = CASE answer = "text" -> EndTurn(said)
          [] answer = "calls" /\ ~late -> At([said EXCEPT !.a.more = TRUE], "tools")
          [] answer = "calls" /\ late -> EndTurn(Results(said))
          [] answer = "cutOff" -> CutOff(said)
          [] answer = "pause" ->
                EndTurn(IF GoesAgain(w) THEN [said EXCEPT !.a.more = TRUE, !.a.nudges = @ + 1]
                        ELSE said)
  BY DEF Settle
<1> HIDE DEF said, z, b, c
<1>10. Sound(said) /\ Carries(w, said)
  <2>1. /\ said.a.hand = w.a.hand /\ said.a.pending = w.a.pending
    BY <1>8
  <2> QED BY <1>6, <1>7, <1>8, <2>1, Amends DEF Flow
<1>11. ~said.chat.owed => Replied(said)
  BY <1>8, <1>10 DEF Replied, Flow
<1>12. Replied(Results(said)) /\ Carries(w, Results(said))
  <2>1. /\ Flow(Results(said)) /\ Carries(said, Results(said))
        /\ Results(said).a = [said.a EXCEPT !.nudges = 0]
        /\ Results(said).chat.said = said.chat.said /\ Results(said).chat.heard = said.chat.heard
    BY <1>8, <1>10, Resulted
  <2>2. said.a \in Local
    BY <1>10, Fields DEF Sound
  <2>3. Results(said).a.hand = <<>> /\ Results(said).a.pending = <<>>
    BY <1>8, <2>1, <2>2 DEF Local
  <2>4. Carries(w, Results(said))
    BY <1>10, <2>1, CarriesOn
  <2> QED BY <1>8, <2>1, <2>3, <2>4 DEF Replied, Answering
<1>13. CASE answer = "text"
  <2>1. Replied(said)
    BY <1>8, <1>11, <1>13
  <2>2. z = EndTurn(said)
    BY <1>9, <1>13
  <2> QED BY <1>10, <2>1, <2>2, ThroughReply DEF z
<1>14. CASE answer = "calls" /\ ~late
  <2> DEFINE x == [said EXCEPT !.a.more = TRUE]
             d == [said.a EXCEPT !.more = TRUE]
  <2>1. said.a \in Local
    BY <1>10, Fields DEF Sound
  <2>2. /\ d \in Local /\ d.hand = <<>> /\ d.pending = <<>> /\ d.cut = said.a.cut
        /\ d.how = "no" /\ d.open = said.a.open
    BY <1>8, <2>1 DEF Local
  <2>3. x = [said EXCEPT !.a = d]
    OBVIOUS
  <2>4. x \in Work
    <3>1. \A u \in Local : [said EXCEPT !.a = u] \in Work
      BY <1>6, PutTogether
    <3> QED BY <2>2, <2>3, <3>1
  <2>5. x.a = d /\ x.chat = said.chat /\ x.queue = said.queue
    BY <1>6, <2>3 DEF Work
  <2>6. z = At(x, "tools")
    BY <1>9, <1>14
  <2> HIDE DEF x, d
  <2>7. Sound(x) /\ Carries(said, x)
    BY <1>8, <1>10, <2>2, <2>4, <2>5, Amends
  <2>8. Carries(w, x)
    BY <1>10, <2>7, CarriesOn
  <2>9. "tools" \in Places \ {"new", "ended", "gone"}
    BY DEF Places
  <2>10. Answering(x)
    BY <1>8, <2>5 DEF Answering
  <2>11. Fine(At(x, "tools")) /\ Kept(x, At(x, "tools"))
    BY <2>2, <2>5, <2>7, <2>9, <2>10, Arrives
  <2> QED BY <2>6, <2>8, <2>11, ByWayOf DEF z
<1>15. CASE answer = "calls" /\ late
  <2>1. z = EndTurn(Results(said))
    BY <1>9, <1>15
  <2> QED BY <1>12, <2>1, ThroughReply DEF z
<1>16. CASE answer = "cutOff"
  <2> DEFINE y == Results(said)
             v == ~late /\ said.a.cut # "terminal"
  <2>1. z = EndTurn([y EXCEPT !.a.more = v])
    BY <1>9, <1>16 DEF CutOff
  <2>2. Replied(y) /\ Carries(w, y) /\ v \in BOOLEAN
    BY <1>12
  <2> HIDE DEF y, v
  <2>3. Replied([y EXCEPT !.a.more = v]) /\ Carries(y, [y EXCEPT !.a.more = v])
    BY <2>2, AsksAgain
  <2>4. Carries(w, [y EXCEPT !.a.more = v])
    BY <2>2, <2>3, CarriesOn
  <2> QED BY <2>1, <2>3, <2>4, ThroughReply DEF z
<1>17. CASE answer = "pause"
  <2> DEFINE x == [said EXCEPT !.a.more = TRUE, !.a.nudges = @ + 1]
             d == [said.a EXCEPT !.more = TRUE, !.nudges = said.a.nudges + 1]
  <2>1. Replied(said)
    BY <1>8, <1>11, <1>17
  <2>2. CASE GoesAgain(w)
    <3>1. said.a \in Local
      BY <1>10, Fields DEF Sound
    <3>2. said.a.nudges + 1 \in 0..MaxNudges
      BY <1>8, <2>2, <3>1, Bounds DEF GoesAgain, Local
    <3>3. /\ d \in Local /\ d.hand = said.a.hand /\ d.pending = said.a.pending
          /\ d.cut = said.a.cut /\ d.how = said.a.how /\ d.open = said.a.open
      BY <3>1, <3>2 DEF Local
    <3>4. x = [said EXCEPT !.a = d]
      OBVIOUS
    <3>5. z = EndTurn(x)
      BY <1>9, <1>17, <2>2
    <3> HIDE DEF x, d
    <3>6. Replied(x) /\ Carries(said, x)
      BY <1>8, <2>1, <3>3, <3>4, Relocates DEF Replied, Answering
    <3>7. Carries(w, x)
      BY <1>10, <3>6, CarriesOn
    <3> QED BY <3>5, <3>6, <3>7, ThroughReply DEF z
  <2>3. CASE ~GoesAgain(w)
    <3>1. z = EndTurn(said)
      BY <1>9, <1>17, <2>3
    <3> QED BY <1>10, <2>1, <3>1, ThroughReply DEF z
  <2> QED BY <2>2, <2>3
<1> QED BY <1>13, <1>14, <1>15, <1>16, <1>17 DEF Answers

-----------------------------------------------------------------------------
\* The polls.

LEMMA Dequeued ==
  ASSUME NEW q \in Seq(Msgs)
  PROVE  /\ Dequeue(q).got \in Seq(Msgs) /\ Dequeue(q).left \in Seq(Msgs)
         /\ q = Dequeue(q).got \o Dequeue(q).left
<1>1. CASE OneAtATime /\ q # <<>>
  <2>1. /\ Head(q) \in Msgs /\ Tail(q) \in Seq(Msgs) /\ Len(Tail(q)) = Len(q) - 1
        /\ \A i \in 1 .. Len(Tail(q)) : Tail(q)[i] = q[i + 1]
    BY <1>1, HeadTailProperties
  <2>2. /\ <<Head(q)>> \in Seq(Msgs) /\ Len(<<Head(q)>>) = 1 /\ <<Head(q)>>[1] = Head(q)
        /\ Len(q) \in Nat
    BY <2>1, LenProperties
  <2>3. q[1] = Head(q)
    BY <1>1
  <2>4. /\ <<Head(q)>> \o Tail(q) \in Seq(Msgs)
        /\ Len(<<Head(q)>> \o Tail(q)) = Len(<<Head(q)>>) + Len(Tail(q))
        /\ \A i \in 1 .. Len(<<Head(q)>>) + Len(Tail(q)) :
             (<<Head(q)>> \o Tail(q))[i] = IF i <= Len(<<Head(q)>>) THEN <<Head(q)>>[i]
                                           ELSE Tail(q)[i - Len(<<Head(q)>>)]
    BY <2>1, <2>2, ConcatProperties
  <2> DEFINE h == <<Head(q)>>
             t == Tail(q)
             c == h \o t
  <2>5. \A i \in 1 .. Len(q) : q[i] = c[i]
    <3> SUFFICES ASSUME NEW i \in 1 .. Len(q) PROVE q[i] = c[i]
      OBVIOUS
    <3> HIDE DEF h, t, c
    <3>1. c[i] = IF i <= 1 THEN h[i] ELSE t[i - 1]
      BY <2>1, <2>2, <2>4 DEF h, t, c
    <3>2. CASE i = 1
      BY <2>2, <2>3, <3>1, <3>2 DEF h
    <3>3. CASE i # 1
      <4>1. i - 1 \in 1 .. Len(t) /\ ~(i <= 1) /\ (i - 1) + 1 = i
        BY <2>1, <2>2, <3>3 DEF t
      <4>2. t[i - 1] = q[i]
        BY <2>1, <4>1 DEF t
      <4> QED BY <3>1, <4>1, <4>2
    <3> QED BY <3>2, <3>3
  <2>6. q = c
    <3>1. Len(c) = Len(q) /\ c \in Seq(Msgs)
      BY <2>1, <2>2, <2>4
    <3> HIDE DEF c
    <3> QED BY <2>5, <3>1, SeqEqual
  <2> QED BY <1>1, <2>1, <2>2, <2>6 DEF Dequeue
<1>2. CASE ~(OneAtATime /\ q # <<>>)
  BY <1>2, ConcatEmptySeq, EmptySeq DEF Dequeue
<1> QED BY <1>1, <1>2

\* Where got ends up, in what a run is left with when it has taken got: it is
\* pending, or in the run's hand.
Pending(y, got) == [y EXCEPT !.a.pending = y.a.pending \o got]
InHand(y, got) == [y EXCEPT !.a.hand = y.a.hand \o got]
Drawn(w, y, got) ==
    /\ y \in Work /\ y.a = w.a /\ y.chat = w.chat
    /\ LET x == Pending(y, got)
       IN  /\ Flow(x) /\ Carries(w, x) /\ x.a.hand = w.a.hand /\ x.a.open = w.a.open
           /\ x.chat = w.chat
    /\ LET x == InHand(y, got)
       IN  /\ Flow(x) /\ Carries(w, x) /\ x.a.pending = w.a.pending /\ x.a.open = w.a.open
           /\ x.chat = w.chat

\* What a poll takes off a queue is pending, or in the run's hand.
LEMMA Taken ==
  ASSUME NEW w, Flow(w), ~Cut(w.a), NEW q \in {"steering", "followUps"},
         NEW got \in Seq(Msgs), NEW left \in Seq(Msgs), w.queue[q] = got \o left,
         NEW y, y = [w EXCEPT !.queue[q] = left]
  PROVE  Drawn(w, y, got)
<1> DEFINE u == [w.queue EXCEPT ![q] = left]
           f == Spread(w)
<1>1. /\ w \in Work /\ Neat(f) /\ ~w.chat.owed /\ w.a.how = "no"
      /\ w.a \in Local /\ w.queue \in Queues /\ w.chat \in Chat
      /\ f \in [Spots -> Seq(Msgs)]
  BY Fields DEF Flow, Sound
<1>2. q \in QueueNames /\ u \in Queues /\ u[q] = left /\ \A s \in QueueNames \ {q} : u[s] = w.queue[s]
  BY <1>1 DEF QueueNames, Queues
<1>3. y = [w EXCEPT !.queue = u]
  OBVIOUS
<1>4. y \in Work
  <2>1. \A v \in Queues : [w EXCEPT !.queue = v] \in Work
    BY <1>1, PutTogether
  <2> QED BY <1>2, <1>3, <2>1
<1>5. y.a = w.a /\ y.chat = w.chat /\ y.queue = u
  BY <1>1, <1>3 DEF Work
<1> HIDE DEF u
<1>6. /\ w.a.pending \in Seq(Msgs) /\ w.a.hand \in Seq(Msgs)
      /\ w.a.pending \o got \in Seq(Msgs) /\ w.a.hand \o got \in Seq(Msgs)
  BY <1>1, ConcatProperties DEF Local
<1>7. ASSUME NEW x, NEW p \in {"pending", "hand"},
             x = [y EXCEPT !.a = x.a], x.a \in Local, x.a.cut = w.a.cut, x.a.how = w.a.how,
             x.a.open = w.a.open, x.a[p] = w.a[p] \o got,
             \A s \in {"pending", "hand"} \ {p} : x.a[s] = w.a[s]
      PROVE  Flow(x) /\ Carries(w, x) /\ x.chat = w.chat
  <2> DEFINE g == Spread(x)
  <2>1. x \in Work /\ x.chat = w.chat /\ x.queue = u
    <3>1. \A v \in Local : [y EXCEPT !.a = v] \in Work
      BY <1>4, PutTogether
    <3>2. [y EXCEPT !.a = x.a] \in Work
      BY <1>7, <3>1
    <3>3. x \in Work
      BY <1>7, <3>2
    <3>4. \A v : [y EXCEPT !.a = v].chat = y.chat /\ [y EXCEPT !.a = v].queue = y.queue
      BY <1>4 DEF Work
    <3> QED BY <1>5, <1>7, <3>3, <3>4, ZenonT(60)
  <2>2. g \in [Spots -> Seq(Msgs)]
    BY <2>1, Fields
  <2>3. /\ f["said"] = w.chat.said /\ f["hand"] = w.a["hand"] /\ f["pending"] = w.a["pending"]
        /\ f["steering"] = w.queue["steering"] /\ f["followUps"] = w.queue["followUps"]
        /\ f["asides"] = w.queue["asides"]
        /\ g["said"] = x.chat.said /\ g["hand"] = x.a["hand"] /\ g["pending"] = x.a["pending"]
        /\ g["steering"] = x.queue["steering"] /\ g["followUps"] = x.queue["followUps"]
        /\ g["asides"] = x.queue["asides"]
    BY DEF Spread
  <2> HIDE DEF f, g
  <2>4. Moves(f, g, q, p, got)
    <3>1. q \in Spots /\ p \in Spots /\ q # p
      BY DEF Spots
    <3>2. f[q] = w.queue[q] /\ g[q] = u[q] /\ f[p] = w.a[p] /\ g[p] = x.a[p]
      BY <2>1, <2>3
    <3>3. f[q] = got \o g[q] /\ g[p] = f[p] \o got
      BY <1>2, <1>7, <3>2
    <3>4. \A s \in Spots \ {q, p} : g[s] = f[s]
      BY <1>2, <1>7, <2>1, <2>3 DEF Spots, QueueNames
    <3> QED BY <1>1, <2>2, <3>1, <3>3, <3>4 DEF Moves
  <2>5. Neat(g) /\ \A m \in Msgs : Holds(g, m) <=> Holds(f, m)
    BY <1>1, <2>4, Moved
  <2>6. Sound(x) /\ Carries(w, x)
    BY <1>7, <2>1, <2>5 DEF Sound, Carries, f, g
  <2> QED BY <1>1, <1>7, <2>1, <2>6 DEF Flow
<1>8. LET x == [y EXCEPT !.a.pending = y.a.pending \o got]
      IN  /\ Flow(x) /\ Carries(w, x) /\ x.a.hand = w.a.hand /\ x.a.open = w.a.open
          /\ x.chat = w.chat
  <2> DEFINE x == [y EXCEPT !.a.pending = y.a.pending \o got]
             b == [w.a EXCEPT !.pending = w.a.pending \o got]
  <2>1. /\ b \in Local /\ b.cut = w.a.cut /\ b.how = w.a.how /\ b.open = w.a.open
        /\ b.hand = w.a.hand /\ b.pending = w.a.pending \o got
        /\ b["hand"] = w.a["hand"] /\ b["pending"] = w.a["pending"] \o got
    BY <1>1, <1>6 DEF Local
  <2>2. x = [y EXCEPT !.a = b]
    BY <1>5
  <2> HIDE DEF x, b
  <2>3. x.a = b
    BY <1>4, <2>2 DEF Work
  <2>4. x = [y EXCEPT !.a = x.a]
    BY <2>2, <2>3
  <2>5. Flow(x) /\ Carries(w, x) /\ x.chat = w.chat
    BY <1>7, <2>1, <2>3, <2>4
  <2> QED BY <2>1, <2>3, <2>5 DEF x
<1>9. LET x == [y EXCEPT !.a.hand = y.a.hand \o got]
      IN  /\ Flow(x) /\ Carries(w, x) /\ x.a.pending = w.a.pending /\ x.a.open = w.a.open
          /\ x.chat = w.chat
  <2> DEFINE x == [y EXCEPT !.a.hand = y.a.hand \o got]
             b == [w.a EXCEPT !.hand = w.a.hand \o got]
  <2>1. /\ b \in Local /\ b.cut = w.a.cut /\ b.how = w.a.how /\ b.open = w.a.open
        /\ b.hand = w.a.hand \o got /\ b.pending = w.a.pending
        /\ b["hand"] = w.a["hand"] \o got /\ b["pending"] = w.a["pending"]
    BY <1>1, <1>6 DEF Local
  <2>2. x = [y EXCEPT !.a = b]
    BY <1>5
  <2> HIDE DEF x, b
  <2>3. x.a = b
    BY <1>4, <2>2 DEF Work
  <2>4. x = [y EXCEPT !.a = x.a]
    BY <2>2, <2>3
  <2>5. Flow(x) /\ Carries(w, x) /\ x.chat = w.chat
    BY <1>7, <2>1, <2>3, <2>4
  <2> QED BY <2>1, <2>3, <2>5 DEF x
<1> QED BY <1>4, <1>5, <1>8, <1>9 DEF Drawn, Pending, InHand

\* y: what a poll's step goes on with.
LEMMA GoesOn ==
  ASSUME NEW w, Flow(w), Shape(w), NEW place \in DOMAIN Polls, w.a.pc = place,
         NEW y, NEW got \in Seq(Msgs), Drawn(w, y, got)
  PROVE  Fine(GoOn(y, place, got)) /\ Kept(w, GoOn(y, place, got))
<1> DEFINE p == Pending(y, got)
           h == InHand(y, got)
<1>1. /\ Flow(p) /\ Carries(w, p) /\ p.a.hand = w.a.hand /\ p.a.open = w.a.open
      /\ p.chat = w.chat /\ y \in Work /\ y.a = w.a
  BY DEF Drawn
<1>2. /\ Flow(h) /\ Carries(w, h) /\ h.a.pending = w.a.pending /\ h.a.open = w.a.open
      /\ h.chat = w.chat
  BY DEF Drawn
<1>3. place \in {"openSteer", "openFollowUp", "first", "turn", "lateSteer", "lateFollowUp"}
  BY DEF Polls
<1>4. \/ place = "lateFollowUp"
      \/ w.a.pending = <<>> /\ p = [y EXCEPT !.a.pending = got]
  <2>1. place # "lateFollowUp" => w.a.pending = <<>>
    BY <1>3 DEF Shape
  <2>2. <<>> \o got = got
    BY ConcatEmptySeq
  <2> QED BY <1>1, <2>1, <2>2 DEF Pending
<1>5. place # "first" => w.a.hand = <<>> /\ h = [y EXCEPT !.a.hand = got]
  <2>1. place # "first" => w.a.hand = <<>>
    BY <1>3 DEF Shape
  <2>2. <<>> \o got = got
    BY ConcatEmptySeq
  <2> QED BY <1>1, <2>1, <2>2 DEF InHand
<1>6. place \in {"turn", "lateSteer", "lateFollowUp"} => Idles(p)
  BY <1>1, <1>5 DEF Shape, Idles, Answering
<1>7. p = [y EXCEPT !.a.pending = @ \o got]
  BY DEF Pending
<1> HIDE DEF p, h
<1>8. CASE place = "openSteer"
  <2>1. Fine(GotOpening(y, got)) /\ Kept(h, GotOpening(y, got))
    BY <1>1, <1>2, <1>4, <1>5, <1>8, Opens
  <2> QED BY <1>2, <1>8, <2>1, ByWayOf DEF GoOn
<1>9. CASE place = "openFollowUp"
  <2>1. Fine(GotFollowUps(y, got)) /\ Kept(h, GotFollowUps(y, got))
    BY <1>1, <1>2, <1>4, <1>5, <1>9, FollowUps
  <2> QED BY <1>2, <1>9, <2>1, ByWayOf DEF GoOn
<1>10. CASE place = "first"
  <2>1. Fine(Top(p)) /\ Kept(p, Top(p))
    BY <1>1, Tops
  <2>2. GoOn(y, place, got) = Top(p)
    BY <1>4, <1>10 DEF GoOn
  <2> QED BY <1>1, <2>1, <2>2, ByWayOf
<1>11. CASE place = "turn"
  <2>1. Fine(GotSteering(y, got)) /\ Kept(p, GotSteering(y, got))
    BY <1>1, <1>4, <1>6, <1>11, Steering
  <2> QED BY <1>1, <1>11, <2>1, ByWayOf DEF GoOn
<1>12. CASE place = "lateSteer"
  <2>1. Fine(GotLateSteering(y, got)) /\ Kept(p, GotLateSteering(y, got))
    BY <1>1, <1>4, <1>6, <1>12, LateSteering
  <2> QED BY <1>1, <1>12, <2>1, ByWayOf DEF GoOn
<1>13. CASE place = "lateFollowUp"
  <2>1. Fine(GotLateFollowUps(y, got)) /\ Kept(p, GotLateFollowUps(y, got))
    BY <1>1, <1>6, <1>7, <1>13, LateFollowUps
  <2> QED BY <1>1, <1>13, <2>1, ByWayOf DEF GoOn
<1> QED BY <1>3, <1>8, <1>9, <1>10, <1>11, <1>12, <1>13

LEMMA TakesFine ==
  ASSUME NEW w, Flow(w), Shape(w), NEW place \in DOMAIN Polls, w.a.pc = place
  PROVE  Fine(Takes(w, place)) /\ Kept(w, Takes(w, place))
<1>1. w \in Work /\ w.a \in Local /\ w.queue \in Queues
  BY Fields DEF Flow, Sound
<1>2. CASE Cut(w.a)
  <2>1. <<>> \in Seq(Msgs) /\ w.a.pending \o <<>> = w.a.pending /\ w.a.hand \o <<>> = w.a.hand
    BY <1>1, ConcatEmptySeq, EmptySeq DEF Local
  <2>2. [w EXCEPT !.a.pending = w.a.pending \o <<>>] = w
    <3>1. w.a.pending \in Seq(Msgs)
      BY <1>1 DEF Local
    <3> QED BY <1>1, <2>1, <3>1, Pends
  <2>3. [w EXCEPT !.a.hand = w.a.hand \o <<>>] = w
    <3>1. w.a.hand \in Seq(Msgs)
      BY <1>1 DEF Local
    <3> QED BY <1>1, <2>1, <3>1, Hands
  <2>4. Drawn(w, w, <<>>)
    BY <1>1, <2>2, <2>3 DEF Drawn, Pending, InHand, Carries
  <2>5. Fine(GoOn(w, place, <<>>)) /\ Kept(w, GoOn(w, place, <<>>))
    BY <2>1, <2>4, GoesOn
  <2> QED BY <1>2, <2>5 DEF Takes
<1>3. CASE ~Cut(w.a)
  <2> DEFINE q == Polls[place]
             d == Dequeue(w.queue[q])
             y == [w EXCEPT !.queue[q] = d.left]
  <2>1. q \in {"steering", "followUps"}
    BY DEF Polls
  <2>2. w.queue[q] \in Seq(Msgs)
    BY <1>1, <2>1 DEF Queues, QueueNames
  <2>3. Takes(w, place) = GoOn(y, place, d.got)
    BY <1>3 DEF Takes
  <2> HIDE DEF q
  <2>4. d.got \in Seq(Msgs) /\ d.left \in Seq(Msgs) /\ w.queue[q] = d.got \o d.left
    BY <2>2, Dequeued
  <2> HIDE DEF d
  <2>5. Drawn(w, y, d.got)
    <3> HIDE DEF y
    <3>1. y = [w EXCEPT !.queue[q] = d.left]
      BY DEF y
    <3> QED BY <1>3, <2>1, <2>4, <3>1, Taken
  <2> HIDE DEF y
  <2>6. Fine(GoOn(y, place, d.got)) /\ Kept(w, GoOn(y, place, d.got))
    BY <2>4, <2>5, GoesOn
  <2> QED BY <2>3, <2>6
<1> QED BY <1>2, <1>3

-----------------------------------------------------------------------------
\* The other steps of a run.

\* The kind of the last message changes.
LEMMA Tailed ==
  ASSUME NEW w, Flow(w), NEW tail \in Tails
  PROVE  /\ Flow([w EXCEPT !.chat.tail = tail]) /\ Carries(w, [w EXCEPT !.chat.tail = tail])
         /\ [w EXCEPT !.chat.tail = tail].a = w.a
<1> DEFINE x == [w EXCEPT !.chat.tail = tail]
           c == [w.chat EXCEPT !.tail = tail]
<1>1. w \in Work /\ w.chat \in Chat
  BY Fields DEF Flow, Sound
<1>2. c \in Chat /\ c.said = w.chat.said /\ c.owed = w.chat.owed
  BY <1>1 DEF Chat
<1>3. x = [w EXCEPT !.chat = c]
  OBVIOUS
<1>4. x \in Work
  <2>1. \A v \in Chat : [w EXCEPT !.chat = v] \in Work
    BY <1>1, PutTogether
  <2> QED BY <1>2, <1>3, <2>1
<1>5. x.a = w.a /\ x.queue = w.queue /\ x.chat = c
  BY <1>1, <1>3 DEF Work
<1> HIDE DEF x, c
<1>6. Sound(x) /\ Carries(w, x)
  BY <1>2, <1>4, <1>5, Amends DEF Flow
<1> QED BY <1>2, <1>5, <1>6 DEF Flow, x

\* Past the gate, with what was pending.
LEMMA Commits ==
  ASSUME NEW w, Flow(w), NEW x,
         x = [w EXCEPT !.a.hand = @ \o w.a.pending, !.a.pending = <<>>, !.a.pc = "prepare"]
  PROVE  Fine(x) /\ Kept(w, x)
<1> DEFINE b == [w.a EXCEPT !.hand = w.a.hand \o w.a.pending, !.pending = <<>>, !.pc = "prepare"]
           f == Spread(w)
           g == Spread(x)
<1>1. /\ w \in Work /\ Neat(f) /\ ~w.chat.owed /\ w.a.how = "no"
      /\ w.a \in Local /\ f \in [Spots -> Seq(Msgs)]
  BY Fields DEF Flow, Sound
<1>2. w.a.hand \o w.a.pending \in Seq(Msgs) /\ <<>> \in Seq(Msgs) /\ "prepare" \in Places
  BY <1>1, ConcatProperties, EmptySeq DEF Local, Places
<1>3. /\ b \in Local /\ b.hand = w.a.hand \o w.a.pending /\ b.pending = <<>>
      /\ b.pc = "prepare" /\ b.how = "no"
  BY <1>1, <1>2 DEF Local
<1>4. x = [w EXCEPT !.a = b]
  OBVIOUS
<1>5. x \in Work
  <2>1. \A u \in Local : [w EXCEPT !.a = u] \in Work
    BY <1>1, PutTogether
  <2> QED BY <1>3, <1>4, <2>1
<1>6. x.a = b /\ x.queue = w.queue /\ x.chat = w.chat
  BY <1>1, <1>4 DEF Work
<1> HIDE DEF b
<1>7. g \in [Spots -> Seq(Msgs)]
  BY <1>5, Fields
<1>8. /\ g["hand"] = f["hand"] \o f["pending"] /\ g["pending"] = <<>>
      /\ g["said"] = f["said"] /\ g["steering"] = f["steering"]
      /\ g["followUps"] = f["followUps"] /\ g["asides"] = f["asides"]
  <2>1. x.a.hand = w.a.hand \o w.a.pending /\ x.a.pending = <<>>
    BY <1>3, <1>6
  <2> QED BY ONLY <1>6, <2>1 DEF Spread
<1>9. Neat(g) /\ \A m \in Msgs : Holds(g, m) <=> Holds(f, m)
  <2>1. "pending" \in Spots /\ "hand" \in Spots
    BY DEF Spots
  <2> HIDE DEF f, g
  <2>2. \A s \in Spots \ {"pending", "hand"} : g[s] = f[s]
    BY <1>8 DEF Spots
  <2>3. f["pending"] \in Seq(Msgs) /\ f["pending"] = f["pending"] \o <<>>
    BY <1>1, <2>1, ConcatEmptySeq
  <2>4. Moves(f, g, "pending", "hand", f["pending"])
    BY <1>1, <1>7, <1>8, <2>1, <2>2, <2>3 DEF Moves
  <2> QED BY <1>1, <2>4, Moved
<1>10. Sound(x) /\ x.a.pc = "prepare" /\ x.a.pending = <<>> /\ x.a.how = "no" /\ ~x.chat.owed
  BY <1>1, <1>3, <1>5, <1>6, <1>9 DEF Sound
<1>11. Shape(x) /\ Owing(x)
  BY <1>10 DEF Shape, Owing
<1>12. Kept(w, x)
  BY <1>6, <1>9, <1>10 DEF Kept
<1> QED BY <1>10, <1>11, <1>12 DEF Fine

\* A turn that is open already is not told what the run has in its hand.
LEMMA Forgets ==
  ASSUME NEW w, Flow(w)
  PROVE  LET x == [w EXCEPT !.a.hand = <<>>]
         IN  /\ Flow(x) /\ x.a = [w.a EXCEPT !.hand = <<>>] /\ x.queue = w.queue
             /\ x.chat = w.chat
             /\ \A m \in Msgs : Holds(Spread(x), m) => Holds(Spread(w), m)
             /\ w.a.hand = <<>> => x = w
<1> DEFINE x == [w EXCEPT !.a.hand = <<>>]
<1>1. /\ w \in Work /\ Neat(Spread(w)) /\ ~w.chat.owed /\ w.a.how = "no"
      /\ w.a \in Local /\ Spread(w) \in [Spots -> Seq(Msgs)]
  BY Fields DEF Flow, Sound
<1>2. /\ x \in Work /\ x.a = [w.a EXCEPT !.hand = <<>>] /\ x.chat = w.chat
      /\ x.queue = w.queue /\ (w.a.hand = <<>> => x = w)
  BY <1>1, Hands, EmptySeq
<1>3. x.a.hand = <<>> /\ x.a.pending = w.a.pending /\ x.a.how = w.a.how
  BY <1>1, <1>2 DEF Local
<1> HIDE DEF x
<1>4. Drops(Spread(w), Spread(x))
  <2>1. Spread(x) \in [Spots -> Seq(Msgs)]
    BY <1>2, Fields
  <2>2. /\ Spread(x)["said"] = Spread(w)["said"] /\ Spread(x)["hand"] = <<>>
        /\ Spread(x)["pending"] = Spread(w)["pending"]
        /\ Spread(x)["steering"] = Spread(w)["steering"]
        /\ Spread(x)["followUps"] = Spread(w)["followUps"]
        /\ Spread(x)["asides"] = Spread(w)["asides"]
    BY <1>2, <1>3 DEF Spread
  <2>3. \A s \in Spots : Len(Spread(w)[s]) \in Nat
    BY <1>1, LenProperties
  <2>4. Len(<<>>) = 0
    BY EmptySeq
  <2>5. \A s \in Spots : Spread(x)[s] = <<>> \/ Spread(x)[s] = Spread(w)[s]
    BY <2>2 DEF Spots
  <2>6. \A s \in Spots : /\ Len(Spread(x)[s]) <= Len(Spread(w)[s])
                         /\ \A i \in 1 .. Len(Spread(x)[s]) : Spread(x)[s][i] = Spread(w)[s][i]
    BY <2>3, <2>4, <2>5
  <2> QED BY <1>1, <2>1, <2>6 DEF Drops
<1>5. Neat(Spread(x)) /\ \A m \in Msgs : Holds(Spread(x), m) => Holds(Spread(w), m)
  BY <1>1, <1>4, Dropped
<1>6. Flow(x)
  BY <1>1, <1>2, <1>3, <1>5 DEF Flow, Sound
<1> QED BY <1>2, <1>5, <1>6 DEF x

\* What follows for the messages when a run has gone from w to x, w with
\* nothing new.
Follows(w, x) ==
    /\ \/ x.a.how \in {"late", "failed"}
       \/ w.a.open /\ w.a.hand # <<>>
       \/ \A m \in Msgs : Holds(Spread(w), m) => Holds(Spread(x), m)
    /\ Cut(w.a) => x.queue = w.queue
    /\ x.a.how = "done" /\ ~w.a.open => Answering(x)

MakesNone(w, x) == \A m \in Msgs : Holds(Spread(x), m) => Holds(Spread(w), m)

LEMMA KeptFollows ==
  ASSUME NEW w, NEW x, Kept(w, x)
  PROVE  Follows(w, x) /\ MakesNone(w, x)
BY DEF Kept, Follows, MakesNone

LEMMA Prepares ==
  ASSUME NEW w, Flow(w), w.a.pending = <<>>, NEW told, NEW x,
         told = IF w.a.open THEN [w EXCEPT !.a.hand = <<>>] ELSE Emit(w),
         x = [told EXCEPT !.a.open = TRUE, !.a.pc = "stream"]
  PROVE  Fine(x) /\ Follows(w, x) /\ MakesNone(w, x)
<1> DEFINE b == [told.a EXCEPT !.open = TRUE, !.pc = "stream"]
<1>1. w.a \in Local
  BY Fields DEF Flow, Sound
<1>2. /\ Flow(told) /\ told.a = [w.a EXCEPT !.hand = <<>>] /\ told.queue = w.queue
      /\ MakesNone(w, told)
      /\ (w.a.open /\ w.a.hand # <<>>) \/ MakesNone(told, w)
  <2>1. CASE w.a.open
    <3>1. told = [w EXCEPT !.a.hand = <<>>]
      BY <2>1
    <3> QED BY <2>1, <3>1, Forgets, ZenonT(60) DEF MakesNone
  <2>2. CASE ~w.a.open
    BY <2>2, Emits DEF MakesNone
  <2> QED BY <2>1, <2>2
<1>3. /\ told \in Work /\ told.a \in Local /\ ~told.chat.owed /\ Neat(Spread(told))
      /\ told.a.how = "no"
  BY <1>2, Fields DEF Flow, Sound
<1>4. "stream" \in Places
  BY DEF Places
<1>5. /\ b \in Local /\ b.hand = <<>> /\ b.pending = <<>> /\ b.pc = "stream" /\ b.open = TRUE
      /\ b.how = "no" /\ b.hand = told.a.hand /\ b.pending = told.a.pending
  <2>1. told.a.hand = <<>> /\ told.a.pending = w.a.pending
    BY <1>1, <1>2 DEF Local
  <2>2. /\ b \in Local /\ b.hand = told.a.hand /\ b.pending = told.a.pending
        /\ b.pc = "stream" /\ b.open = TRUE /\ b.how = told.a.how
    BY <1>3, <1>4 DEF Local
  <2> HIDE DEF b
  <2> QED BY <1>3, <2>1, <2>2
<1>6. x = [told EXCEPT !.a = b]
  OBVIOUS
<1>7. x \in Work
  <2>1. \A u \in Local : [told EXCEPT !.a = u] \in Work
    BY <1>3, PutTogether
  <2> QED BY <1>5, <1>6, <2>1, ZenonT(60)
<1>8. x.a = b /\ x.queue = told.queue /\ x.chat = told.chat
  BY <1>3, <1>6 DEF Work
<1> HIDE DEF b
<1>9. Spread(x) = Spread(told)
  <2>1. /\ x.chat.said = told.chat.said /\ x.a.hand = told.a.hand
        /\ x.a.pending = told.a.pending /\ x.queue = told.queue
    BY <1>5, <1>8
  <2> QED BY ONLY <2>1 DEF Spread
<1>10. Sound(x) /\ Owing(x) /\ Shape(x) /\ x.a.pc # "new"
  BY <1>3, <1>5, <1>7, <1>8, <1>9 DEF Sound, Owing, Shape
<1>11. Follows(w, x) /\ MakesNone(w, x)
  BY <1>2, <1>5, <1>8, <1>9 DEF Follows, MakesNone
<1> QED BY <1>10, <1>11 DEF Fine

LEMMA GateStopped ==
  ASSUME NEW w, Flow(w), w.a.pending = <<>>, NEW x,
         x = LET told == Emit(w)
             IN  Finish(IF w.a.open THEN [told EXCEPT !.chat.tail = "assistant"] ELSE told,
                        "stopped")
  PROVE  Fine(x) /\ Kept(w, x)
<1> DEFINE told == Emit(w)
           y == IF w.a.open THEN [told EXCEPT !.chat.tail = "assistant"] ELSE told
<1>1. /\ Flow(told) /\ Carries(w, told) /\ told.a.hand = <<>> /\ told.a.pending = <<>>
  BY EmitCarries
<1>2. "assistant" \in Tails
  BY DEF Tails
<1> HIDE DEF told
<1>3. Flow(y) /\ Carries(w, y) /\ y.a.hand = <<>> /\ y.a.pending = <<>>
  BY <1>1, <1>2, Tailed, CarriesOn
<1>4. x = Leaves(y, "ended", "stopped")
  BY DEF Finish, told
<1> HIDE DEF y
<1>5. Fine(x) /\ Kept(y, x)
  BY <1>3, <1>4, Leaving DEF Flow, Ends
<1> QED BY <1>3, <1>5, ByWayOf

\* An answer that failed.
LEMMA Refuses ==
  ASSUME NEW w, Flow(w), w.a.hand = <<>>, w.a.pending = <<>>, NEW tail \in Tails
  PROVE  LET x == Finish([w EXCEPT !.chat.tail = tail], "error")
         IN  Fine(x) /\ Kept(w, x)
<1> DEFINE y == [w EXCEPT !.chat.tail = tail]
<1>1. Flow(y) /\ Carries(w, y) /\ y.a = w.a
  BY Tailed
<1> HIDE DEF y
<1>2. Fine(Finish(y, "error")) /\ Kept(y, Finish(y, "error"))
  BY <1>1, Leaving DEF Flow, Ends, Finish
<1> QED BY <1>1, <1>2, ByWayOf DEF y

\* A leak that is sampled again.
LEMMA Resamples ==
  ASSUME NEW w, Flow(w), Idles(w), w.a.leaks < MaxLeaks
  PROVE  LET x == Loop([w EXCEPT !.a.leaks = @ + 1])
         IN  Fine(x) /\ Kept(w, x)
<1> DEFINE b == [w.a EXCEPT !.leaks = w.a.leaks + 1]
           x == [w EXCEPT !.a.leaks = @ + 1]
<1>1. w.a \in Local /\ w.a.how = "no"
  BY Fields DEF Flow, Sound
<1>2. w.a.leaks + 1 \in 0..MaxLeaks
  BY <1>1, Bounds DEF Local
<1>3. /\ b \in Local /\ b.hand = w.a.hand /\ b.pending = w.a.pending /\ b.cut = w.a.cut
      /\ b.how = "no" /\ b.open = w.a.open
  BY <1>1, <1>2 DEF Local
<1>4. x = [w EXCEPT !.a = b]
  OBVIOUS
<1> HIDE DEF b, x
<1>5. /\ Flow([w EXCEPT !.a = b]) /\ Carries(w, [w EXCEPT !.a = b])
      /\ [w EXCEPT !.a = b].a = b /\ [w EXCEPT !.a = b].chat = w.chat
  BY <1>3, Relocates
<1>6. Flow(x) /\ Carries(w, x) /\ Idles(x)
  BY <1>3, <1>4, <1>5 DEF Idles, Answering
<1>7. Fine(Loop(x)) /\ Kept(x, Loop(x))
  BY <1>6, Loops
<1> QED BY <1>6, <1>7, ByWayOf DEF x

\* The tools have returned, one of them perhaps with a terminal result.
LEMMA ToolsReturned ==
  ASSUME NEW w0, Sound(w0), w0.a.how = "no", w0.a.hand = <<>>, w0.a.pending = <<>>,
         Answering(w0), NEW terminal \in BOOLEAN, NEW z,
         z = LET w == Results(w0)
                 x == IF terminal /\ w.a.cut = "no" THEN [w EXCEPT !.a.cut = "terminal"] ELSE w
             IN  EndTurn([x EXCEPT !.a.more = x.a.cut # "terminal"])
  PROVE  Fine(z) /\ Kept(w0, z)
<1> DEFINE w == Results(w0)
           b == [w.a EXCEPT !.cut = "terminal"]
           x == IF terminal /\ w.a.cut = "no" THEN [w EXCEPT !.a.cut = "terminal"] ELSE w
           v == x.a.cut # "terminal"
<1>1. Replied(w) /\ Carries(w0, w)
  <2>1. w0.a \in Local
    BY Fields DEF Sound
  <2>2. /\ Flow(w) /\ Carries(w0, w) /\ w.a = [w0.a EXCEPT !.nudges = 0]
        /\ w.chat.said = w0.chat.said /\ w.chat.heard = w0.chat.heard
    BY Resulted
  <2>3. w.a.hand = <<>> /\ w.a.pending = <<>>
    BY <2>1, <2>2 DEF Local
  <2> QED BY <2>2, <2>3 DEF Replied, Answering
<1>2. z = EndTurn([x EXCEPT !.a.more = v])
  OBVIOUS
<1> HIDE DEF w
<1>3. Replied(x) /\ Carries(w, x)
  <2>1. w.a \in Local /\ w.a.how = "no"
    BY <1>1, Fields DEF Replied, Flow, Sound
  <2>2. /\ b \in Local /\ b.hand = w.a.hand /\ b.pending = w.a.pending /\ b.cut = "terminal"
        /\ b.how = "no" /\ b.open = w.a.open
    BY <2>1 DEF Local
  <2>3. [w EXCEPT !.a.cut = "terminal"] = [w EXCEPT !.a = b]
    OBVIOUS
  <2> HIDE DEF b
  <2>4. /\ Flow([w EXCEPT !.a = b]) /\ Carries(w, [w EXCEPT !.a = b])
        /\ [w EXCEPT !.a = b].a = b /\ [w EXCEPT !.a = b].chat = w.chat
    BY <1>1, <2>2, Relocates DEF Replied
  <2>5. CASE terminal /\ w.a.cut = "no"
    <3>1. x = [w EXCEPT !.a = b]
      BY <2>3, <2>5
    <3> HIDE DEF x
    <3> QED BY <1>1, <2>2, <2>4, <3>1 DEF Replied, Answering
  <2>6. CASE ~(terminal /\ w.a.cut = "no")
    BY <1>1, <2>6 DEF Carries
  <2> QED BY <2>5, <2>6
<1>4. v \in BOOLEAN
  OBVIOUS
<1> HIDE DEF x, v
<1>5. Replied([x EXCEPT !.a.more = v]) /\ Carries(x, [x EXCEPT !.a.more = v])
  BY <1>3, <1>4, AsksAgain
<1>6. Carries(w0, [x EXCEPT !.a.more = v])
  <2>1. Carries(w0, x)
    BY <1>1, <1>3, CarriesOn
  <2> QED BY <1>5, <2>1, CarriesOn
<1> QED BY <1>2, <1>5, <1>6, ThroughReply

LEMMA Yieldings ==
  ASSUME NEW w, Flow(w), Idles(w), w.a.pending = <<>>, NEW x,
         x = IF late THEN Finish(w, "late")
             ELSE IF Asks(w, "lateSteer") THEN At(w, "lateSteer")
             ELSE GotLateSteering(w, <<>>)
  PROVE  Fine(x) /\ Kept(w, x)
<1>1. Fine(Finish(w, "late")) /\ Kept(w, Finish(w, "late"))
  BY Leaving DEF Flow, Ends, Finish
<1>2. Fine(At(w, "lateSteer")) /\ Kept(w, At(w, "lateSteer"))
  <2>1. "lateSteer" \in Places \ {"new", "ended", "gone"}
    BY DEF Places, Polls
  <2> QED BY <2>1, Arrives DEF Flow, Idles
<1>3. Fine(GotLateSteering(w, <<>>)) /\ Kept(w, GotLateSteering(w, <<>>))
  <2>1. w = [w EXCEPT !.a.pending = <<>>]
    BY Pends, EmptySeq DEF Flow, Sound
  <2> QED BY <2>1, LateSteering
<1> QED BY <1>1, <1>2, <1>3

-----------------------------------------------------------------------------

\* The world with no run in it.
Bare == [a |-> New, queue |-> queue, chat |-> chat]

IInv ==
    /\ handed \in 0..MaxMessages /\ late \in BOOLEAN /\ paused \in BOOLEAN
    /\ agent \in [streaming : BOOLEAN, controller : {0} \cup Runs]
    /\ run \in [Runs -> Local]
    /\ Sound(Bare) /\ Handed(Bare, handed)
    /\ \A r \in Runs : Sound(Here(r)) /\ Handed(Here(r), handed) /\ Shape(Here(r))
    /\ AbortReachesTheRun
    /\ agent.controller # 0 => run[agent.controller].pc # "new"
    /\ chat.owed => \E r \in Runs : run[r].pc = "tools"

-----------------------------------------------------------------------------
\* What the properties say of a step.

TakesNothing == \A r \in Runs : run'[r] # run[r] /\ run[r].pc # "new" /\ Cut(run[r]) => queue' = queue

Vanishes ==
    \A i \in Held \ Held' :
        \/ i \in Range(chat'.said)
        \/ run' = run
        \/ \E r \in Runs : Dies(r) \/ Astray(r)

HeardOut == \A r \in Runs : run[r].how = "no" /\ run'[r].how = "done" /\ ~run[r].open
               => chat'.heard = Len(chat'.said)

Good == TakesNothing /\ Vanishes /\ HeardOut

-----------------------------------------------------------------------------
\* The places of a message, as sets.

LEMMA RangeIs ==
  ASSUME NEW q \in Seq(Msgs), NEW m
  PROVE  m \in Range(q) <=> m \in Msgs /\ \E i \in 1 .. Len(q) : q[i] = m
<1>1. q \in [1 .. Len(q) -> Msgs]
  BY LenProperties
<1> QED BY <1>1 DEF Range

LEMMA HoldsIs ==
  ASSUME NEW w \in Work, NEW m \in Msgs
  PROVE  Holds(Spread(w), m) <=>
            \/ m \in Range(w.chat.said) \/ m \in Range(w.a.hand) \/ m \in Range(w.a.pending)
            \/ \E q \in QueueNames : m \in Range(w.queue[q])
<1> DEFINE f == Spread(w)
<1>1. \A s \in Spots : m \in Range(f[s]) <=> InSpot(f, s, m)
  BY Fields, RangeIs DEF InSpot
<1>2. /\ f["said"] = w.chat.said /\ f["hand"] = w.a.hand /\ f["pending"] = w.a.pending
      /\ f["steering"] = w.queue["steering"] /\ f["followUps"] = w.queue["followUps"]
      /\ f["asides"] = w.queue["asides"]
  BY DEF Spread
<1> HIDE DEF f
<1>3. Holds(f, m) <=> \E s \in Spots : m \in Range(f[s])
  BY <1>1 DEF Holds
<1> QED BY <1>2, <1>3 DEF Spots, QueueNames, f

\* What is said is nowhere else, and is said once.
LEMMA NeatIs ==
  ASSUME NEW w, Sound(w)
  PROVE  /\ IsInjective(w.chat.said)
         /\ \A m \in Range(w.chat.said) :
               /\ m \notin Range(w.a.hand) /\ m \notin Range(w.a.pending)
               /\ \A q \in QueueNames : m \notin Range(w.queue[q])
<1> DEFINE f == Spread(w)
<1>1. w \in Work /\ Neat(f) /\ f \in [Spots -> Seq(Msgs)]
  BY Fields DEF Sound
<1>2. /\ f["said"] = w.chat.said /\ f["hand"] = w.a.hand /\ f["pending"] = w.a.pending
      /\ f["steering"] = w.queue["steering"] /\ f["followUps"] = w.queue["followUps"]
      /\ f["asides"] = w.queue["asides"]
  BY DEF Spread
<1> HIDE DEF f
<1>3. \A s, t \in Spots : s # t => \A m \in Range(f[s]) : m \notin Range(f[t])
  <2> SUFFICES ASSUME NEW s \in Spots, NEW t \in Spots, s # t,
                      NEW m \in Range(f[s]), m \in Range(f[t])
               PROVE  FALSE
    OBVIOUS
  <2>1. PICK i \in 1 .. Len(f[s]) : f[s][i] = m
    BY <1>1, RangeIs
  <2>2. PICK j \in 1 .. Len(f[t]) : f[t][j] = m
    BY <1>1, RangeIs
  <2> QED BY <1>1, <2>1, <2>2 DEF Neat
<1>4. \A q \in QueueNames : q \in Spots /\ q # "said" /\ f[q] = w.queue[q]
  BY <1>2 DEF QueueNames, Spots
<1>5. IsInjective(w.chat.said)
  <2>1. "said" \in Spots
    BY DEF Spots
  <2>2. DOMAIN f["said"] = 1 .. Len(f["said"])
    BY <1>1, <2>1, LenProperties
  <2>3. \A i, j \in 1 .. Len(f["said"]) : f["said"][i] = f["said"][j] => i = j
    BY <1>1, <2>1 DEF Neat
  <2> QED BY <1>2, <2>2, <2>3 DEF IsInjective
<1>6. \A m \in Range(w.chat.said) : m \notin Range(w.a.hand) /\ m \notin Range(w.a.pending)
  BY <1>2, <1>3 DEF Spots
<1>7. \A m \in Range(w.chat.said) : \A q \in QueueNames : m \notin Range(w.queue[q])
  BY <1>2, <1>3, <1>4 DEF Spots
<1> QED BY <1>5, <1>6, <1>7

LEMMA HeldIs ==
  ASSUME NEW i
  PROVE  i \in Held <=> \/ \E q \in QueueNames : i \in Range(queue[q])
                        \/ \E r \in Runs : i \in Range(run[r].hand) \/ i \in Range(run[r].pending)
BY DEF Held, QueueNames

\* A run that has nothing in its hands sees the same world.
LEMMA Bystander ==
  ASSUME NEW x, Sound(x), NEW b \in Local, b.hand = <<>>, b.pending = <<>>, NEW y,
         y = [a |-> b, queue |-> x.queue, chat |-> x.chat]
  PROVE  Sound(y) /\ \A m \in Msgs : Holds(Spread(y), m) => Holds(Spread(x), m)
<1>1. x \in Work /\ Neat(Spread(x)) /\ Spread(x) \in [Spots -> Seq(Msgs)]
  BY Fields DEF Sound
<1>2. y \in Work /\ y.a = b /\ y.queue = x.queue /\ y.chat = x.chat
  BY <1>1 DEF Work
<1>3. Drops(Spread(x), Spread(y))
  <2>1. Spread(y) \in [Spots -> Seq(Msgs)]
    BY <1>2, Fields
  <2>2. /\ Spread(y)["said"] = Spread(x)["said"] /\ Spread(y)["hand"] = <<>>
        /\ Spread(y)["pending"] = <<>>
        /\ Spread(y)["steering"] = Spread(x)["steering"]
        /\ Spread(y)["followUps"] = Spread(x)["followUps"]
        /\ Spread(y)["asides"] = Spread(x)["asides"]
    <3>1. y.a.hand = <<>> /\ y.a.pending = <<>>
      BY <1>2
    <3> QED BY ONLY <1>2, <3>1 DEF Spread
  <2>3. \A s \in Spots : Len(Spread(x)[s]) \in Nat
    BY <1>1, LenProperties
  <2>4. Len(<<>>) = 0
    BY EmptySeq
  <2>5. \A s \in Spots : Spread(y)[s] = <<>> \/ Spread(y)[s] = Spread(x)[s]
    BY <2>2 DEF Spots
  <2>6. \A s \in Spots : /\ Len(Spread(y)[s]) <= Len(Spread(x)[s])
                         /\ \A i \in 1 .. Len(Spread(y)[s]) : Spread(y)[s][i] = Spread(x)[s][i]
    BY <2>3, <2>4, <2>5
  <2> QED BY <1>1, <2>1, <2>6 DEF Drops
<1>4. Neat(Spread(y)) /\ \A m \in Msgs : Holds(Spread(y), m) => Holds(Spread(x), m)
  BY <1>1, <1>3, Dropped
<1> QED BY <1>2, <1>4 DEF Sound

LEMMA NewIsLocal == New \in Local /\ New.hand = <<>> /\ New.pending = <<>> /\ New.pc = "new"
                    /\ New.how = "no" /\ New.open = FALSE /\ New.cut = "no"
BY Bounds, EmptySeq DEF Local, New, Places, Ends

\* Only the run that owns the agent has anything in its hands.
LEMMA Silent ==
  ASSUME IInv, NEW s \in Runs, ~Talking(s)
  PROVE  /\ run[s].hand = <<>> /\ run[s].pending = <<>>
         /\ run[s].pc \in {"new", "ended", "gone"} /\ run[s] \in Local
<1>1. Shape(Here(s)) /\ Here(s).a = run[s] /\ run[s] \in Local
  BY DEF IInv, Here
<1>2. run[s].pc \in {"new", "ended", "gone"}
  BY DEF Talking
<1> QED BY <1>1, <1>2 DEF Shape

LEMMA Owner ==
  ASSUME IInv, NEW r \in Runs, Talking(r)
  PROVE  /\ agent = Claimed(r) /\ \A s \in Runs \ {r} : ~Talking(s)
         /\ Sound(Here(r)) /\ Shape(Here(r)) /\ Here(r).a = run[r] /\ run[r].how = "no"
         /\ run[r] \in Local /\ (chat.owed => run[r].pc = "tools")
         /\ Handed(Here(r), handed)
<1>1. /\ Sound(Here(r)) /\ Shape(Here(r)) /\ Here(r).a = run[r] /\ run[r] \in Local
      /\ Handed(Here(r), handed)
  BY DEF IInv, Here
<1>2. agent = Claimed(r) /\ \A s \in Runs \ {r} : ~Talking(s)
  <2>1. \A s \in Runs : Talking(s) => agent = Claimed(s)
    BY DEF IInv, AbortReachesTheRun
  <2>2. \A s \in Runs : Claimed(s) = Claimed(r) => s = r
    BY DEF Claimed
  <2> QED BY <2>1, <2>2
<1>3. run[r].how = "no"
  BY <1>1 DEF Shape, Talking
<1>4. chat.owed => run[r].pc = "tools"
  <2>1. \A s \in Runs : run[s].pc = "tools" => Talking(s)
    BY DEF Talking
  <2> QED BY <1>2, <2>1 DEF IInv
<1> QED BY <1>1, <1>2, <1>3, <1>4

LEMMA Flows ==
  ASSUME IInv, NEW r \in Runs, Talking(r), run[r].pc # "tools"
  PROVE  Flow(Here(r))
<1>1. Here(r).a = run[r] /\ Here(r).chat = chat
  BY DEF Here
<1> QED BY <1>1, Owner DEF Flow, IInv

\* A step of the run that owns the agent, or has just claimed it.
LEMMA Goes ==
  ASSUME IInv, NEW r \in Runs, run[r].how = "no", NEW x, NEW claimed,
         Fine(x), handed' \in 0..MaxMessages, Handed(x, handed'),
         \A s \in Runs \ {r} : ~Talking(s), claimed = Claimed(r),
         Follows(Here(r), x), Becomes(r, x, claimed)
  PROVE  IInv' /\ Good
<1>1. /\ x \in Work /\ Neat(Spread(x)) /\ Shape(x) /\ Owing(x) /\ x.a.pc # "new" /\ Sound(x)
      /\ x.a \in Local /\ x.queue \in Queues /\ x.chat \in Chat
  BY Fields DEF Fine, Sound
<1>2. /\ run \in [Runs -> Local] /\ run' = [run EXCEPT ![r] = x.a]
      /\ queue' = x.queue /\ chat' = x.chat /\ late' = late /\ paused' = paused
      /\ agent' = CASE x.a.pc = "ended" -> [claimed EXCEPT !.streaming = FALSE]
                    [] x.a.pc = "gone" -> Settled(r, claimed)
                    [] OTHER -> claimed
  BY DEF Becomes, IInv
<1>3. run' \in [Runs -> Local] /\ run'[r] = x.a /\ \A s \in Runs \ {r} : run'[s] = run[s]
  BY <1>1, <1>2
<1>4. \A s \in Runs \ {r} : /\ run[s].hand = <<>> /\ run[s].pending = <<>> /\ run[s] \in Local
                            /\ run[s].pc \in {"new", "ended", "gone"}
  BY Silent
<1>5. Sound(Here(r))' /\ Handed(Here(r), handed)' /\ Shape(Here(r))'
  <2>1. Here(r)' = x
    <3>1. x = [a |-> x.a, queue |-> x.queue, chat |-> x.chat]
      BY <1>1 DEF Work
    <3> QED BY <1>2, <1>3, <3>1 DEF Here
  <2> QED BY <1>1, <2>1
<1>6. ASSUME NEW s \in Runs \ {r}
      PROVE  Sound(Here(s))' /\ Handed(Here(s), handed)' /\ Shape(Here(s))'
  <2>1. Here(s)' = [a |-> run[s], queue |-> x.queue, chat |-> x.chat]
    BY <1>2, <1>3 DEF Here
  <2>2. Sound(Here(s)') /\ \A m \in Msgs : Holds(Spread(Here(s)'), m) => Holds(Spread(x), m)
    BY <1>1, <1>4, <2>1, Bystander
  <2>3. Shape(Here(s)) /\ Here(s).a = run[s]
    BY DEF IInv, Here
  <2>4. Here(s)'.a = run[s]
    BY <2>1
  <2>5. Shape(Here(s)')
    BY <1>4, <2>3, <2>4 DEF Shape
  <2>6. Handed(Here(s)', handed')
    BY <2>2 DEF Handed
  <2> QED BY <2>2, <2>5, <2>6
<1>7. Sound(Bare)' /\ Handed(Bare, handed)'
  <2>1. Bare' = [a |-> New, queue |-> x.queue, chat |-> x.chat]
    BY <1>2 DEF Bare
  <2>2. Sound(Bare') /\ \A m \in Msgs : Holds(Spread(Bare'), m) => Holds(Spread(x), m)
    BY <1>1, <2>1, NewIsLocal, Bystander
  <2> QED BY <2>2 DEF Handed
<1>8. /\ x.a.pc = "ended" => agent' = [streaming |-> FALSE, controller |-> r]
      /\ x.a.pc = "gone" => agent' = Idle
      /\ x.a.pc \notin {"ended", "gone"} => agent' = Claimed(r)
  BY <1>2 DEF Settled, Claimed
<1>9. agent' \in [streaming : BOOLEAN, controller : {0} \cup Runs]
  <2> DEFINE T == [streaming : BOOLEAN, controller : {0} \cup Runs]
  <2>1. [streaming |-> FALSE, controller |-> r] \in T /\ Idle \in T /\ Claimed(r) \in T
    BY DEF Idle, Claimed
  <2> HIDE DEF T
  <2>2. agent' \in T
    BY <1>8, <2>1
  <2> QED BY <2>2 DEF T
<1>10. AbortReachesTheRun'
  <2>1. \A s \in Runs \ {r} : ~(Talking(s)')
    BY <1>3, <1>4 DEF Talking
  <2>2. Talking(r)' => agent' = Claimed(r)
    BY <1>3, <1>8 DEF Talking
  <2>3. agent'.streaming => Talking(r)'
    BY <1>1, <1>3, <1>8 DEF Talking, Idle
  <2>4. \A s \in Runs : Talking(s)' => agent' = Claimed(s)
    BY <2>1, <2>2
  <2> QED BY <2>3, <2>4 DEF AbortReachesTheRun, Claimed
<1>11. agent'.controller # 0 => run'[agent'.controller].pc # "new"
  BY <1>1, <1>3, <1>8 DEF Idle, Claimed
<1>12. chat'.owed => \E s \in Runs : run'[s].pc = "tools"
  BY <1>1, <1>2, <1>3 DEF Owing
<1>13. IInv'
  <2>1. \A s \in Runs : Sound(Here(s))' /\ Handed(Here(s), handed)' /\ Shape(Here(s))'
    BY <1>5, <1>6
  <2>2. late' \in BOOLEAN /\ paused' \in BOOLEAN
    BY <1>2 DEF IInv
  <2> QED BY <1>3, <1>7, <1>9, <1>10, <1>11, <1>12, <2>1, <2>2 DEF IInv
<1>14. Here(r).a = run[r] /\ Here(r).queue = queue /\ Here(r).chat = chat
  BY DEF Here
<1>15. TakesNothing
  <2>1. Cut(run[r]) => queue' = queue
    BY <1>2, <1>14 DEF Follows
  <2> QED BY <1>3, <2>1 DEF TakesNothing
<1>16. HeardOut
  BY <1>2, <1>3, <1>14 DEF HeardOut, Follows, Answering
<1>17. Vanishes
  <2> SUFFICES ASSUME NEW i \in Held \ Held'
               PROVE  \/ i \in Range(chat'.said)
                      \/ \E s \in Runs : Dies(s) \/ Astray(s)
    BY DEF Vanishes
  <2>1. Here(r) \in Work
    BY DEF IInv, Sound
  <2>2. /\ run[r].hand \in Seq(Msgs) /\ run[r].pending \in Seq(Msgs)
        /\ \A q \in QueueNames : queue[q] \in Seq(Msgs)
    BY <1>14, <2>1, Fields DEF Local, Queues
  <2>3. i \in Msgs /\ Holds(Spread(Here(r)), i)
    <3>1. \/ \E q \in QueueNames : i \in Range(queue[q])
          \/ i \in Range(run[r].hand) \/ i \in Range(run[r].pending)
      <4>1. Range(<<>>) = {}
        BY DEF Range
      <4> QED BY <1>4, <4>1, HeldIs
    <3>2. i \in Msgs
      BY <2>2, <3>1, RangeIs
    <3> QED BY <1>14, <2>1, <3>1, <3>2, HoldsIs
  <2>4. CASE x.a.how \in {"late", "failed"}
    BY <1>3, <2>4 DEF Dies
  <2>5. CASE Here(r).a.open /\ Here(r).a.hand # <<>>
    BY <1>14, <2>5 DEF Astray
  <2>6. CASE Holds(Spread(x), i)
    <3>1. \/ i \in Range(chat'.said) \/ i \in Range(run'[r].hand) \/ i \in Range(run'[r].pending)
          \/ \E q \in QueueNames : i \in Range(queue'[q])
      BY <1>1, <1>2, <1>3, <2>3, <2>6, HoldsIs
    <3>2. ~(\/ \E q \in QueueNames : i \in Range(queue'[q])
            \/ \E s \in Runs : i \in Range(run'[s].hand) \/ i \in Range(run'[s].pending))
      BY HeldIs DEF Held, QueueNames
    <3> QED BY <3>1, <3>2
  <2> QED BY <2>3, <2>4, <2>5, <2>6 DEF Follows
<1> QED BY <1>13, <1>15, <1>16, <1>17 DEF Good

-----------------------------------------------------------------------------
\* The steps of a run preserve the invariant, and keep the promises.

LEMMA Stepping ==
  ASSUME IInv, NEW r \in Runs, NEW place, NEW x, Step(r, place, x), Talking(r), Fine(x),
         Follows(Here(r), x), MakesNone(Here(r), x)
  PROVE  IInv' /\ Good
<1>1. /\ agent = Claimed(r) /\ run[r].how = "no" /\ Handed(Here(r), handed)
      /\ \A s \in Runs \ {r} : ~Talking(s)
  BY Owner
<1>2. Becomes(r, x, agent) /\ handed' = handed
  BY DEF Step
<1>3. Handed(x, handed') /\ handed' \in 0..MaxMessages
  BY <1>1, <1>2 DEF Handed, MakesNone, IInv
<1> QED BY <1>1, <1>2, <1>3, Goes

LEMMA SteppingKept ==
  ASSUME IInv, NEW r \in Runs, NEW place, NEW x, Step(r, place, x), Talking(r), Fine(x),
         Kept(Here(r), x)
  PROVE  IInv' /\ Good
BY KeptFollows, Stepping

\* What a run's step works on, by place.
LEMMA AtPlace ==
  ASSUME IInv, NEW r \in Runs, NEW place \in Places \ {"new", "ended", "gone"},
         run[r].pc = place
  PROVE  /\ Talking(r) /\ Sound(Here(r)) /\ Shape(Here(r)) /\ Here(r).a = run[r]
         /\ Here(r).queue = queue /\ Here(r).chat = chat /\ run[r].how = "no"
         /\ place # "tools" => Flow(Here(r))
         /\ place \notin {"first", "top", "prepare"} => run[r].hand = <<>>
         /\ place \notin {"top", "lateFollowUp"} => run[r].pending = <<>>
<1>1. Talking(r)
  BY DEF Talking
<1>2. /\ Sound(Here(r)) /\ Shape(Here(r)) /\ Here(r).a = run[r] /\ run[r].how = "no"
  BY <1>1, Owner
<1>3. Here(r).queue = queue /\ Here(r).chat = chat
  BY DEF Here
<1>4. place # "tools" => Flow(Here(r))
  BY <1>1, Flows
<1> QED BY <1>1, <1>2, <1>3, <1>4 DEF Shape

LEMMA HooksRunStep == ASSUME IInv, NEW r \in Runs, HooksRun(r) PROVE IInv' /\ Good
<1>1. PICK place \in DOMAIN Polls : Step(r, place, Takes(Here(r), place))
  BY DEF HooksRun
<1>2. run[r].pc = place /\ place \in Places \ {"new", "ended", "gone"} /\ place # "tools"
  BY <1>1 DEF Step, Places, Polls
<1>3. Flow(Here(r)) /\ Shape(Here(r)) /\ Here(r).a.pc = place /\ Talking(r)
  BY <1>2, AtPlace
<1>4. Fine(Takes(Here(r), place)) /\ Kept(Here(r), Takes(Here(r), place))
  BY <1>3, TakesFine
<1> QED BY <1>1, <1>3, <1>4, SteppingKept

LEMMA HooksFailStep == ASSUME IInv, NEW r \in Runs, HooksFail(r) PROVE IInv' /\ Good
<1> DEFINE w == Here(r)
           X(place) == IF place \in {"openSteer", "openFollowUp"}
                       THEN GotFollowUps(w, <<>>) ELSE Throw(w)
<1>1. PICK place \in DOMAIN Polls : Step(r, place, X(place))
  BY DEF HooksFail
<1>2. /\ run[r].pc = place /\ place \in Places \ {"new", "ended", "gone"}
      /\ place \notin {"tools", "top", "prepare"}
  BY <1>1 DEF Step, Places, Polls
<1>3. /\ Flow(w) /\ w.a = run[r] /\ Talking(r)
      /\ place \in {"openSteer", "openFollowUp"} => w.a.hand = <<>> /\ w.a.pending = <<>>
  BY <1>2, AtPlace
<1> HIDE DEF w
<1>4. Fine(X(place)) /\ Kept(w, X(place))
  <2>1. CASE place \in {"openSteer", "openFollowUp"}
    <3>1. w \in Work /\ <<>> \in Seq(Msgs) /\ w.a.hand = <<>> /\ w.a.pending = <<>>
      BY <1>3, <2>1, EmptySeq DEF Flow, Sound
    <3>2. w = [w EXCEPT !.a.hand = <<>>]
      BY <3>1, Hands
    <3>3. Fine(GotFollowUps(w, <<>>)) /\ Kept(w, GotFollowUps(w, <<>>))
      BY <1>3, <3>1, <3>2, FollowUps
    <3> QED BY <2>1, <3>3
  <2>2. CASE place \notin {"openSteer", "openFollowUp"}
    BY <1>3, <2>2, Throws
  <2> QED BY <2>1, <2>2
<1> HIDE DEF X
<1> QED BY <1>1, <1>3, <1>4, SteppingKept DEF w

LEMMA CommitStep == ASSUME IInv, NEW r \in Runs, Commit(r) PROVE IInv' /\ Good
<1> DEFINE x == [Here(r) EXCEPT !.a.hand = @ \o run[r].pending,
                                !.a.pending = <<>>, !.a.pc = "prepare"]
<1>1. Step(r, "top", x) /\ run[r].pc = "top" /\ "top" \in Places \ {"new", "ended", "gone"}
  BY DEF Commit, Step, Places
<1>2. Flow(Here(r)) /\ Here(r).a = run[r] /\ Talking(r)
  BY <1>1, AtPlace
<1>3. x = [Here(r) EXCEPT !.a.hand = @ \o Here(r).a.pending, !.a.pending = <<>>, !.a.pc = "prepare"]
  BY <1>2
<1> HIDE DEF x
<1>4. Fine(x) /\ Kept(Here(r), x)
  BY <1>2, <1>3, Commits
<1> QED BY <1>1, <1>2, <1>4, SteppingKept

LEMMA PreparedStep == ASSUME IInv, NEW r \in Runs, Prepared(r) PROVE IInv' /\ Good
<1> DEFINE w == Here(r)
           told == IF run[r].open THEN [w EXCEPT !.a.hand = <<>>] ELSE Emit(w)
           x == [told EXCEPT !.a.open = TRUE, !.a.pc = "stream"]
<1>1. /\ Step(r, "prepare", x) /\ run[r].pc = "prepare"
      /\ "prepare" \in Places \ {"new", "ended", "gone"}
  BY DEF Prepared, Step, Places
<1>2. Flow(w) /\ w.a = run[r] /\ Talking(r) /\ w.a.pending = <<>>
  BY <1>1, AtPlace
<1>3. told = IF w.a.open THEN [w EXCEPT !.a.hand = <<>>] ELSE Emit(w)
  BY <1>2
<1> HIDE DEF w, told
<1>4. x = [told EXCEPT !.a.open = TRUE, !.a.pc = "stream"]
  OBVIOUS
<1> HIDE DEF x
<1>5. Fine(x) /\ Follows(w, x) /\ MakesNone(w, x)
  BY <1>2, <1>3, <1>4, Prepares
<1> QED BY <1>1, <1>2, <1>5, Stepping DEF w

LEMMA GateStopsStep == ASSUME IInv, NEW r \in Runs, GateStops(r) PROVE IInv' /\ Good
<1> DEFINE w == Here(r)
           x == LET told == Emit(w)
                IN  Finish(IF run[r].open THEN [told EXCEPT !.chat.tail = "assistant"] ELSE told,
                           "stopped")
<1>1. /\ Step(r, "prepare", x) /\ run[r].pc = "prepare"
      /\ "prepare" \in Places \ {"new", "ended", "gone"}
  BY DEF GateStops, Step, Places
<1>2. Flow(w) /\ w.a = run[r] /\ Talking(r) /\ w.a.pending = <<>>
  BY <1>1, AtPlace
<1>3. x = LET told == Emit(w)
          IN  Finish(IF w.a.open THEN [told EXCEPT !.chat.tail = "assistant"] ELSE told, "stopped")
  BY <1>2
<1> HIDE DEF w, x
<1>4. Fine(x) /\ Kept(w, x)
  BY <1>2, <1>3, GateStopped
<1> QED BY <1>1, <1>2, <1>4, SteppingKept DEF w

LEMMA CallFailsStep == ASSUME IInv, NEW r \in Runs, CallFails(r) PROVE IInv' /\ Good
<1>1. ASSUME NEW place \in {"prepare", "stream", "turnEnd", "yield"}, run[r].pc = place
      PROVE  Talking(r) /\ Fine(Throw(Here(r))) /\ Kept(Here(r), Throw(Here(r)))
  <2>1. place \in Places \ {"new", "ended", "gone"} /\ place # "tools"
    BY DEF Places
  <2> QED BY <1>1, <2>1, AtPlace, Throws
<1>2. CASE \E place \in {"prepare", "stream", "turnEnd", "yield"} : Step(r, place, Throw(Here(r)))
  <2>1. PICK place \in {"prepare", "stream", "turnEnd", "yield"} : Step(r, place, Throw(Here(r)))
    BY <1>2
  <2>2. run[r].pc = place
    BY <2>1 DEF Step
  <2> QED BY <1>1, <2>1, <2>2, SteppingKept
<1>3. CASE Step(r, "stream", [Throw(Here(r)) EXCEPT !.chat.tail = "tool"])
  <2>1. run[r].pc = "stream" /\ "tool" \in Tails
    BY <1>3 DEF Step, Tails
  <2>2. Talking(r) /\ Fine(Throw(Here(r))) /\ Kept(Here(r), Throw(Here(r)))
    BY <1>1, <2>1
  <2> DEFINE x == [Throw(Here(r)) EXCEPT !.chat.tail = "tool"]
  <2>3. Fine(x) /\ Kept(Here(r), x)
    BY <2>1, <2>2, Retailed
  <2> HIDE DEF x
  <2>4. Step(r, "stream", x)
    BY <1>3 DEF x
  <2> QED BY <2>2, <2>3, <2>4, SteppingKept
<1> QED BY <1>2, <1>3 DEF CallFails

LEMMA AnsweredStep ==
  ASSUME IInv, NEW r \in Runs, NEW answer \in Answers, Answered(r, answer)
  PROVE  IInv' /\ Good
<1>1. /\ Step(r, "stream", At(Here(r), answer)) /\ run[r].pc = "stream"
      /\ "stream" \in Places \ {"new", "ended", "gone"}
  BY DEF Answered, Step, Places
<1>2. /\ Flow(Here(r)) /\ Here(r).a = run[r] /\ Talking(r) /\ Here(r).a.hand = <<>>
      /\ Here(r).a.pending = <<>>
  BY <1>1, AtPlace
<1>3. /\ answer \in Places \ {"new", "ended", "gone"}
      /\ answer \notin {"stream", "tools", "turnEnd", "turn", "yield", "lateSteer", "lateFollowUp"}
  BY DEF Answers, Places
<1>4. Fine(At(Here(r), answer)) /\ Kept(Here(r), At(Here(r), answer))
  BY <1>2, <1>3, Arrives DEF Flow
<1> QED BY <1>1, <1>2, <1>4, SteppingKept

LEMMA RefusedStep == ASSUME IInv, NEW r \in Runs, Refused(r) PROVE IInv' /\ Good
<1> DEFINE X(calls) == Finish([Here(r) EXCEPT !.chat.tail = IF calls THEN "tool" ELSE "assistant"],
                              "error")
<1>1. PICK calls \in BOOLEAN : Step(r, "stream", X(calls))
  BY DEF Refused
<1>2. run[r].pc = "stream" /\ "stream" \in Places \ {"new", "ended", "gone"}
  BY <1>1 DEF Step, Places
<1>3. /\ Flow(Here(r)) /\ Talking(r) /\ Here(r).a.hand = <<>> /\ Here(r).a.pending = <<>>
  BY <1>2, AtPlace
<1>4. (IF calls THEN "tool" ELSE "assistant") \in Tails
  BY DEF Tails
<1>5. Fine(X(calls)) /\ Kept(Here(r), X(calls))
  BY <1>3, <1>4, Refuses
<1> HIDE DEF X
<1> QED BY <1>1, <1>3, <1>5, SteppingKept

LEMMA LeakStep == ASSUME IInv, NEW r \in Runs, Leak(r) PROVE IInv' /\ Good
<1> DEFINE w == Here(r)
           y == Loop([w EXCEPT !.a.leaks = @ + 1])
           x == IF run[r].leaks < MaxLeaks THEN y ELSE Throw(w)
<1>1. Step(r, "stream", x) /\ run[r].pc = "stream" /\ "stream" \in Places \ {"new", "ended", "gone"}
  BY DEF Leak, Step, Places
<1>2. /\ Flow(w) /\ w.a = run[r] /\ Talking(r) /\ w.a.hand = <<>> /\ Shape(w)
  BY <1>1, AtPlace
<1> HIDE DEF w
<1>3. Idles(w)
  BY <1>1, <1>2 DEF Idles, Shape
<1>4. CASE run[r].leaks < MaxLeaks
  <2>1. Fine(y) /\ Kept(w, y)
    BY <1>2, <1>3, <1>4, Resamples
  <2> HIDE DEF y
  <2> QED BY <1>1, <1>2, <1>4, <2>1, SteppingKept DEF w
<1>5. CASE ~(run[r].leaks < MaxLeaks)
  <2>1. Fine(Throw(w)) /\ Kept(w, Throw(w))
    BY <1>2, Throws
  <2> HIDE DEF y
  <2> QED BY <1>1, <1>2, <1>5, <2>1, SteppingKept DEF w
<1> QED BY <1>4, <1>5

LEMMA TakeAnswerStep == ASSUME IInv, NEW r \in Runs, TakeAnswer(r) PROVE IInv' /\ Good
<1>1. PICK answer \in Answers : Step(r, answer, Settle(Here(r), answer))
  BY DEF TakeAnswer
<1>2. /\ run[r].pc = answer /\ answer \in Places \ {"new", "ended", "gone"}
      /\ answer \notin {"tools", "first", "top", "prepare", "lateFollowUp"}
  BY <1>1 DEF Step, Places, Answers
<1>3. /\ Flow(Here(r)) /\ Talking(r) /\ Here(r).a.hand = <<>> /\ Here(r).a.pending = <<>>
  BY <1>2, AtPlace
<1>4. Fine(Settle(Here(r), answer)) /\ Kept(Here(r), Settle(Here(r), answer))
  BY <1>3, Settles
<1> QED BY <1>1, <1>3, <1>4, SteppingKept

LEMMA ToolsReturnStep == ASSUME IInv, NEW r \in Runs, ToolsReturn(r) PROVE IInv' /\ Good
<1> DEFINE Z(terminal) ==
        LET w == Results(Here(r))
            x == IF terminal /\ w.a.cut = "no" THEN [w EXCEPT !.a.cut = "terminal"] ELSE w
        IN  EndTurn([x EXCEPT !.a.more = x.a.cut # "terminal"])
<1>1. PICK terminal \in BOOLEAN : Step(r, "tools", Z(terminal))
  BY DEF ToolsReturn
<1>2. run[r].pc = "tools" /\ "tools" \in Places \ {"new", "ended", "gone"}
  BY <1>1 DEF Step, Places
<1>3. /\ Sound(Here(r)) /\ Shape(Here(r)) /\ Here(r).a = run[r] /\ run[r].how = "no" /\ Talking(r)
      /\ Here(r).a.hand = <<>> /\ Here(r).a.pending = <<>>
  BY <1>2, AtPlace
<1>4. Answering(Here(r))
  BY <1>2, <1>3 DEF Shape
<1>5. Fine(Z(terminal)) /\ Kept(Here(r), Z(terminal))
  <2>1. \A z : z = Z(terminal) => Fine(z) /\ Kept(Here(r), z)
    BY <1>3, <1>4, ToolsReturned
  <2> HIDE DEF Z
  <2> QED BY <2>1
<1> HIDE DEF Z
<1> QED BY <1>1, <1>3, <1>5, SteppingKept

LEMMA TurnEndsStep == ASSUME IInv, NEW r \in Runs, TurnEnds(r) PROVE IInv' /\ Good
<1>1. /\ Step(r, "turnEnd", AfterTurn(Here(r))) /\ run[r].pc = "turnEnd"
      /\ "turnEnd" \in Places \ {"new", "ended", "gone"}
  BY DEF TurnEnds, Step, Places
<1>2. /\ Flow(Here(r)) /\ Talking(r) /\ Here(r).a.hand = <<>> /\ Here(r).a.pending = <<>>
      /\ Shape(Here(r)) /\ Here(r).a = run[r]
  BY <1>1, AtPlace
<1>3. Replied(Here(r))
  BY <1>1, <1>2 DEF Replied, Shape
<1>4. Fine(AfterTurn(Here(r))) /\ Kept(Here(r), AfterTurn(Here(r)))
  BY <1>3, AfterTurns
<1> QED BY <1>1, <1>2, <1>4, SteppingKept

LEMMA YieldedStep == ASSUME IInv, NEW r \in Runs, Yielded(r) PROVE IInv' /\ Good
<1> DEFINE w == Here(r)
           x == IF late THEN Finish(w, "late")
                ELSE IF Asks(w, "lateSteer") THEN At(w, "lateSteer")
                ELSE GotLateSteering(w, <<>>)
<1>1. Step(r, "yield", x) /\ run[r].pc = "yield" /\ "yield" \in Places \ {"new", "ended", "gone"}
  BY DEF Yielded, Step, Places
<1>2. /\ Flow(w) /\ Talking(r) /\ w.a.hand = <<>> /\ w.a.pending = <<>> /\ Shape(w) /\ w.a = run[r]
  BY <1>1, AtPlace
<1> HIDE DEF w
<1>3. Idles(w)
  BY <1>1, <1>2 DEF Idles, Shape
<1>4. Fine(x) /\ Kept(w, x)
  <2>1. \A z : z = x => Fine(z) /\ Kept(w, z)
    BY <1>2, <1>3, Yieldings
  <2> HIDE DEF x
  <2> QED BY <2>1
<1> HIDE DEF x
<1> QED BY <1>1, <1>2, <1>4, SteppingKept DEF w

-----------------------------------------------------------------------------
\* Starting a run, and its last step.

LEMMA Claiming ==
  ASSUME IInv, NEW r \in Runs, Claims(r)
  PROVE  /\ Flow(Here(r)) /\ Here(r).a = New /\ run[r].how = "no"
         /\ \A s \in Runs : ~Talking(s)
         /\ Handed(Here(r), handed) /\ Here(r).queue = queue /\ Here(r).chat = chat
<1>1. Sound(Here(r)) /\ Shape(Here(r)) /\ Handed(Here(r), handed)
  BY DEF IInv
<1>2. Here(r).a = run[r] /\ Here(r).queue = queue /\ Here(r).chat = chat
  BY DEF Here
<1>3. Here(r).a = New
  BY <1>1, <1>2 DEF Claims, Shape
<1>4. \A s \in Runs : ~Talking(s)
  BY DEF IInv, AbortReachesTheRun, Claims, Claimed
<1>5. ~chat.owed
  BY <1>4 DEF IInv, Talking
<1> QED BY <1>1, <1>2, <1>3, <1>4, <1>5, NewIsLocal DEF Flow

LEMMA ContinueStep == ASSUME IInv, NEW r \in Runs, Continue(r) PROVE IInv' /\ Good
<1> DEFINE w == Here(r)
           x == IF chat.tail \in {"user", "tool"} THEN Start(w, FALSE)
                ELSE IF Asks(w, "openSteer") THEN At(w, "openSteer")
                ELSE GotOpening(w, <<>>)
<1>1. Claims(r) /\ Becomes(r, x, Claimed(r)) /\ handed' = handed
  BY DEF Continue
<1>2. /\ Flow(w) /\ w.a.hand = <<>> /\ w.a.pending = <<>> /\ run[r].how = "no"
      /\ \A s \in Runs : ~Talking(s)
      /\ Handed(w, handed)
  BY <1>1, Claiming, NewIsLocal
<1> HIDE DEF w
<1>3. Fine(x) /\ Kept(w, x)
  <2>1. Fine(Start(w, FALSE)) /\ Kept(w, Start(w, FALSE))
    BY <1>2, Starts
  <2>2. Fine(At(w, "openSteer")) /\ Kept(w, At(w, "openSteer"))
    <3>1. "openSteer" \in Places \ {"new", "ended", "gone"}
      BY DEF Places, Polls
    <3> QED BY <1>2, <3>1, Arrives DEF Flow
  <2>3. Fine(GotOpening(w, <<>>)) /\ Kept(w, GotOpening(w, <<>>))
    <3>1. w \in Work /\ <<>> \in Seq(Msgs)
      BY <1>2, EmptySeq DEF Flow, Sound
    <3>2. w = [w EXCEPT !.a.hand = <<>>]
      BY <1>2, <3>1, Hands
    <3> QED BY <1>2, <3>1, <3>2, Opens
  <2> QED BY <2>1, <2>2, <2>3
<1> HIDE DEF x
<1>4. Follows(w, x) /\ MakesNone(w, x)
  BY <1>3, KeptFollows
<1>5. Handed(x, handed') /\ handed' \in 0..MaxMessages
  BY <1>1, <1>2, <1>4 DEF Handed, MakesNone, IInv
<1> QED BY <1>1, <1>2, <1>3, <1>4, <1>5, Goes DEF w

LEMMA PromptStep == ASSUME IInv, NEW r \in Runs, Prompt(r) PROVE IInv' /\ Good
<1> DEFINE w == Here(r)
           n == handed + 1
           y == [w EXCEPT !.a.hand = <<n>>]
           x == Start(y, FALSE)
           f == Spread(w)
           g == Spread(y)
<1>1. Claims(r) /\ Becomes(r, x, Claimed(r)) /\ handed' = n /\ handed < MaxMessages
  BY DEF Prompt
<1>2. /\ Flow(w) /\ w.a = New /\ run[r].how = "no"
      /\ \A s \in Runs : ~Talking(s)
      /\ Handed(w, handed)
  BY <1>1, Claiming
<1>3. n \in Msgs /\ n \in 0..MaxMessages /\ handed \in Nat
  BY <1>1, Bounds DEF IInv, Msgs
<1> HIDE DEF w, n
<1>4. <<n>> \in Seq(Msgs) /\ <<n>> = Append(<<>>, n)
  BY <1>3
<1>5. w \in Work /\ Neat(f) /\ ~w.chat.owed /\ f \in [Spots -> Seq(Msgs)] /\ w.a \in Local
  BY <1>2, Fields DEF Flow, Sound
<1>6. /\ y \in Work /\ y.a = [w.a EXCEPT !.hand = <<n>>] /\ y.chat = w.chat /\ y.queue = w.queue
  BY <1>4, <1>5, Hands
<1>7. /\ y.a.hand = <<n>> /\ y.a.pending = <<>> /\ y.a.cut = w.a.cut /\ y.a.open = w.a.open
      /\ y.a.how = "no" /\ w.a.hand = <<>> /\ w.a.pending = <<>>
  BY <1>2, <1>5, <1>6, NewIsLocal, SMTT(30) DEF Local
<1> HIDE DEF y
<1>8. Adds(f, g, "hand", n)
  <2>1. g \in [Spots -> Seq(Msgs)]
    BY <1>6, Fields
  <2>2. /\ f["hand"] = <<>> /\ g["hand"] = <<n>> /\ g["said"] = f["said"]
        /\ g["pending"] = f["pending"] /\ g["steering"] = f["steering"]
        /\ g["followUps"] = f["followUps"] /\ g["asides"] = f["asides"]
    BY <1>6, <1>7 DEF Spread
  <2>3. ~Holds(f, n)
    BY <1>2, <1>3 DEF Handed, n
  <2> HIDE DEF f, g
  <2>4. \A s \in Spots \ {"hand"} : g[s] = f[s]
    BY <2>2 DEF Spots
  <2>5. "hand" \in Spots
    BY DEF Spots
  <2> QED BY <1>3, <1>4, <1>5, <2>1, <2>2, <2>3, <2>4, <2>5 DEF Adds
<1>9. Neat(g) /\ \A m \in Msgs : Holds(g, m) <=> Holds(f, m) \/ m = n
  <2> HIDE DEF f, g
  <2> QED BY <1>5, <1>8, Added
<1>10. Flow(y)
  BY <1>5, <1>6, <1>7, <1>9 DEF Flow, Sound
<1>11. Fine(x) /\ Kept(y, x)
  BY <1>7, <1>10, Starts
<1> HIDE DEF x
<1>12. Handed(x, handed')
  <2>1. MakesNone(y, x)
    BY <1>11, KeptFollows
  <2>2. \A m \in Msgs : Holds(f, m) => m <= handed
    BY <1>2 DEF Handed
  <2> HIDE DEF f, g
  <2> QED BY <1>1, <1>3, <1>9, <2>1, <2>2 DEF Handed, MakesNone, n, Msgs, g
<1>13. Follows(w, x)
  BY <1>6, <1>7, <1>9, <1>11 DEF Kept, Follows, Cut
<1> QED BY <1>1, <1>2, <1>3, <1>11, <1>12, <1>13, Goes DEF w

LEMMA CloseStep == ASSUME IInv, NEW r \in Runs, Close(r) PROVE IInv' /\ Good
<1> DEFINE x == Leaves(Here(r), "gone", run[r].how)
           b == [New EXCEPT !.pc = "gone", !.how = run[r].how]
<1>1. run[r].pc = "ended" /\ Becomes(r, x, agent) /\ handed' = handed
  BY DEF Close, Step
<1>2. /\ Sound(Here(r)) /\ Shape(Here(r)) /\ Handed(Here(r), handed)
      /\ run \in [Runs -> Local] /\ run[r] \in Local /\ chat \in Chat /\ queue \in Queues
  <2>1. Sound(Here(r)) /\ Here(r).chat = chat /\ Here(r).queue = queue
    BY DEF IInv, Here
  <2> QED BY <2>1, Fields DEF IInv, Sound
<1>3. /\ Here(r).a = run[r] /\ Here(r).queue = queue /\ Here(r).chat = chat
      /\ Here(r) = [a |-> run[r], queue |-> queue, chat |-> chat]
  BY DEF Here
<1>4. run[r].hand = <<>> /\ run[r].pending = <<>> /\ run[r].how # "no" /\ ~Talking(r)
  BY <1>1, <1>2, <1>3 DEF Shape, Talking
<1>5. x.a = b /\ x.queue = queue /\ x.chat = chat
  BY <1>3 DEF Leaves
<1>6. /\ b \in Local /\ b.hand = <<>> /\ b.pending = <<>> /\ b.pc = "gone" /\ b.how = run[r].how
  <2>1. run[r].how \in Ends /\ "gone" \in Places
    BY <1>2 DEF Local, Places
  <2> QED BY <2>1, NewIsLocal DEF Local
<1> HIDE DEF x, b
<1>7. /\ run' = [run EXCEPT ![r] = b] /\ queue' = queue /\ chat' = chat
      /\ agent' = Settled(r, agent) /\ late' = late /\ paused' = paused
  BY <1>1, <1>5, <1>6 DEF Becomes
<1>8. run' \in [Runs -> Local] /\ run'[r] = b /\ \A s \in Runs \ {r} : run'[s] = run[s]
  BY <1>2, <1>6, <1>7
<1>9. Sound(Here(r))' /\ Handed(Here(r), handed)' /\ Shape(Here(r))'
  <2>1. Here(r)' = [a |-> b, queue |-> Here(r).queue, chat |-> Here(r).chat]
    BY <1>3, <1>7, <1>8 DEF Here
  <2>2. /\ Sound(Here(r)')
        /\ \A m \in Msgs : Holds(Spread(Here(r)'), m) => Holds(Spread(Here(r)), m)
    BY <1>2, <1>6, <2>1, Bystander
  <2>3. Here(r)'.a = b
    BY <2>1
  <2>4. Shape(Here(r)')
    BY <1>4, <1>6, <2>3 DEF Shape
  <2> QED BY <1>1, <1>2, <2>2, <2>4 DEF Handed
<1>10. ASSUME NEW s \in Runs \ {r}
       PROVE  Sound(Here(s))' /\ Handed(Here(s), handed)' /\ Shape(Here(s))'
  <2>1. Here(s)' = Here(s)
    BY <1>7, <1>8 DEF Here
  <2> QED BY <1>1, <2>1 DEF IInv
<1>11. Sound(Bare)' /\ Handed(Bare, handed)'
  <2>1. Bare' = Bare
    BY <1>7 DEF Bare
  <2> QED BY <1>1, <2>1 DEF IInv
<1>12. /\ agent' = Idle \/ agent' = agent
       /\ \A s \in Runs : Talking(s) => agent' = agent
  <2>1. \A s \in Runs : Talking(s) => agent = Claimed(s) /\ s # r
    BY <1>4 DEF IInv, AbortReachesTheRun
  <2> QED BY <1>7, <2>1 DEF Settled, Claimed
<1>13. \A s \in Runs : Talking(s)' <=> Talking(s)
  BY <1>4, <1>6, <1>8 DEF Talking
<1>14. AbortReachesTheRun'
  <2>1. \A s \in Runs : Talking(s)' => agent' = Claimed(s)
    BY <1>12, <1>13 DEF IInv, AbortReachesTheRun
  <2>2. agent'.streaming => \E s \in Runs : Talking(s)'
    BY <1>12, <1>13 DEF IInv, AbortReachesTheRun, Idle
  <2> QED BY <2>1, <2>2 DEF AbortReachesTheRun, Claimed
<1>15. agent' \in [streaming : BOOLEAN, controller : {0} \cup Runs]
  <2>1. agent \in [streaming : BOOLEAN, controller : {0} \cup Runs]
    BY DEF IInv
  <2>2. Idle \in [streaming : BOOLEAN, controller : {0} \cup Runs]
    BY DEF Idle
  <2> QED BY <1>12, <2>1, <2>2
<1>16. agent'.controller # 0 => run'[agent'.controller].pc # "new"
  BY <1>6, <1>8, <1>12, <1>15 DEF IInv, Idle
<1>17. chat'.owed => \E s \in Runs : run'[s].pc = "tools"
  BY <1>1, <1>7, <1>8 DEF IInv
<1>18. IInv'
  <2>1. \A s \in Runs : Sound(Here(s))' /\ Handed(Here(s), handed)' /\ Shape(Here(s))'
    BY <1>9, <1>10
  <2> QED BY <1>1, <1>7, <1>8, <1>11, <1>14, <1>15, <1>16, <1>17, <2>1 DEF IInv
<1>19. TakesNothing /\ HeardOut
  BY <1>4, <1>6, <1>7, <1>8 DEF TakesNothing, HeardOut
<1>20. Vanishes
  <2>1. Held' = Held
    <3>1. \A s \in Runs : run'[s].hand = run[s].hand /\ run'[s].pending = run[s].pending
      BY <1>4, <1>6, <1>8
    <3> QED BY <1>7, <3>1 DEF Held
  <2> QED BY <2>1 DEF Vanishes
<1> QED BY <1>18, <1>19, <1>20 DEF Good

-----------------------------------------------------------------------------
\* The host and the user.

LEMMA Queued ==
  ASSUME NEW w, Sound(w), NEW q \in QueueNames, NEW left \in Seq(Msgs), NEW y,
         y = [a |-> w.a, queue |-> [w.queue EXCEPT ![q] = left], chat |-> w.chat]
  PROVE  /\ y.a = w.a /\ y.chat = w.chat
         /\ \A n \in Msgs : ~Holds(Spread(w), n) /\ left = Append(w.queue[q], n)
               => Sound(y) /\ \A m \in Msgs : Holds(Spread(y), m) <=> Holds(Spread(w), m) \/ m = n
         /\ Len(left) <= Len(w.queue[q]) /\ (\A i \in 1 .. Len(left) : left[i] = w.queue[q][i])
               => Sound(y) /\ \A m \in Msgs : Holds(Spread(y), m) => Holds(Spread(w), m)
<1> DEFINE f == Spread(w)
           g == Spread(y)
           u == [w.queue EXCEPT ![q] = left]
<1>1. /\ w \in Work /\ Neat(f) /\ f \in [Spots -> Seq(Msgs)]
      /\ w.a \in Local /\ w.chat \in Chat /\ w.queue \in Queues
  BY Fields DEF Sound
<1>2. u \in Queues /\ u[q] = left /\ \A s \in QueueNames \ {q} : u[s] = w.queue[s]
  BY <1>1 DEF Queues
<1>3. y.a = w.a /\ y.chat = w.chat /\ y.queue = u
  OBVIOUS
<1> HIDE DEF u
<1>4. y \in Work
  BY <1>1, <1>2, <1>3 DEF Work, u
<1>5. g \in [Spots -> Seq(Msgs)]
  BY <1>4, Fields
<1>6. /\ f["said"] = w.chat.said /\ f["hand"] = w.a.hand /\ f["pending"] = w.a.pending
      /\ f["steering"] = w.queue["steering"] /\ f["followUps"] = w.queue["followUps"]
      /\ f["asides"] = w.queue["asides"]
      /\ g["said"] = w.chat.said /\ g["hand"] = w.a.hand /\ g["pending"] = w.a.pending
      /\ g["steering"] = u["steering"] /\ g["followUps"] = u["followUps"]
      /\ g["asides"] = u["asides"]
  BY ONLY <1>3 DEF Spread
<1> HIDE DEF f, g
<1>7. /\ q \in Spots /\ f[q] = w.queue[q] /\ g[q] = left /\ \A s \in Spots \ {q} : g[s] = f[s]
  BY ONLY <1>2, <1>6, q \in QueueNames DEF Spots, QueueNames
<1>8. ASSUME NEW n \in Msgs, ~Holds(f, n), left = Append(w.queue[q], n)
      PROVE  Sound(y) /\ \A m \in Msgs : Holds(g, m) <=> Holds(f, m) \/ m = n
  <2>1. Adds(f, g, q, n)
    BY <1>1, <1>5, <1>7, <1>8 DEF Adds
  <2> QED BY <1>1, <1>4, <2>1, Added DEF Sound, g
<1>9. ASSUME Len(left) <= Len(w.queue[q]), \A i \in 1 .. Len(left) : left[i] = w.queue[q][i]
      PROVE  Sound(y) /\ \A m \in Msgs : Holds(g, m) => Holds(f, m)
  <2>1. Drops(f, g)
    <3>1. \A s \in Spots : Len(f[s]) \in Nat
      BY <1>1, LenProperties
    <3>2. ASSUME NEW s \in Spots
          PROVE  Len(g[s]) <= Len(f[s]) /\ \A i \in 1 .. Len(g[s]) : g[s][i] = f[s][i]
      <4>1. CASE s = q
        BY <1>7, <1>9, <4>1
      <4>2. CASE s # q
        BY <1>7, <3>1, <4>2
      <4> QED BY <4>1, <4>2
    <3> QED BY <1>1, <1>5, <3>2 DEF Drops
  <2> QED BY <1>1, <1>4, <2>1, Dropped DEF Sound, g
<1> QED BY <1>3, <1>8, <1>9 DEF f, g

LEMMA ShapeStays ==
  ASSUME NEW w, NEW y, y.a = w.a, y.chat = w.chat, Shape(w)
  PROVE  Shape(y)
BY DEF Shape, Answering

LEMMA RunStays ==
  ASSUME run' = run, queue' = queue \/ \A r \in Runs : run'[r] = run[r]
  PROVE  Good
BY DEF Good, TakesNothing, Vanishes, HeardOut

LEMMA HandInStep == ASSUME IInv, NEW q \in QueueNames, HandIn(q) PROVE IInv' /\ Good
<1> DEFINE n == handed + 1
           left == Append(queue[q], n)
<1>1. /\ handed < MaxMessages /\ handed' = n /\ queue' = [queue EXCEPT ![q] = left]
      /\ chat' = chat /\ agent' = agent /\ run' = run /\ late' = late /\ paused' = paused
  BY DEF HandIn
<1>2. n \in Msgs /\ n \in 0..MaxMessages /\ handed \in Nat
  BY <1>1, Bounds DEF IInv, Msgs
<1>3. Sound(Bare) /\ Bare.queue = queue /\ Bare.chat = chat /\ Bare.a = New
  BY DEF IInv, Bare
<1>4. queue \in Queues /\ left \in Seq(Msgs)
  <2>1. queue \in Queues
    BY <1>3, Fields DEF Sound
  <2> QED BY <1>2, <2>1, AppendProperties DEF Queues
<1> HIDE DEF left, n
<1>5. ASSUME NEW w, Sound(w), Handed(w, handed), w.queue = queue, NEW y,
             y = [a |-> w.a, queue |-> [w.queue EXCEPT ![q] = left], chat |-> w.chat]
      PROVE  Sound(y) /\ Handed(y, n) /\ y.a = w.a /\ y.chat = w.chat
  <2>1. ~Holds(Spread(w), n)
    BY <1>2, <1>5 DEF Handed, n
  <2>2. left = Append(w.queue[q], n)
    BY <1>5 DEF left
  <2>3. /\ y.a = w.a /\ y.chat = w.chat /\ Sound(y)
        /\ \A m \in Msgs : Holds(Spread(y), m) <=> Holds(Spread(w), m) \/ m = n
    <3>1. /\ y.a = w.a /\ y.chat = w.chat
          /\ \A k \in Msgs : ~Holds(Spread(w), k) /\ left = Append(w.queue[q], k)
                => Sound(y) /\ \A m \in Msgs : Holds(Spread(y), m) <=> Holds(Spread(w), m) \/ m = k
      BY <1>4, <1>5, Queued
    <3> QED BY ONLY <1>2, <2>1, <2>2, <3>1
  <2>4. Handed(y, n)
    <3> SUFFICES ASSUME NEW m \in Msgs, Holds(Spread(y), m) PROVE m <= n
      BY DEF Handed
    <3>1. CASE m = n
      BY <1>2, <3>1 DEF Msgs
    <3>2. CASE Holds(Spread(w), m)
      BY <1>2, <1>5, <3>2 DEF Handed, n, Msgs
    <3> QED BY <2>3, <3>1, <3>2
  <2> QED BY <2>3, <2>4
<1>6. Sound(Bare)' /\ Handed(Bare, handed)'
  <2>1. Bare' = [a |-> Bare.a, queue |-> [Bare.queue EXCEPT ![q] = left], chat |-> Bare.chat]
    BY <1>1, <1>3 DEF Bare
  <2>2. Handed(Bare, handed)
    BY DEF IInv
  <2> QED BY <1>1, <1>3, <1>5, <2>1, <2>2
<1>7. ASSUME NEW r \in Runs
      PROVE  Sound(Here(r))' /\ Handed(Here(r), handed)' /\ Shape(Here(r))'
  <2>1. Here(r).a = run[r] /\ Here(r).queue = queue /\ Here(r).chat = chat
    BY DEF Here
  <2>2. Here(r)' = [a |-> Here(r).a, queue |-> [Here(r).queue EXCEPT ![q] = left],
                    chat |-> Here(r).chat]
    BY <1>1, <2>1 DEF Here
  <2>3. Sound(Here(r)) /\ Handed(Here(r), handed) /\ Shape(Here(r))
    BY DEF IInv
  <2>4. Sound(Here(r)') /\ Handed(Here(r)', n) /\ Here(r)'.a = Here(r).a
        /\ Here(r)'.chat = Here(r).chat
    BY <1>5, <2>1, <2>2, <2>3
  <2> QED BY <1>1, <2>3, <2>4, ShapeStays
<1>8. AbortReachesTheRun'
  BY <1>1 DEF IInv, AbortReachesTheRun, Talking, Claimed
<1>9. IInv'
  BY <1>1, <1>2, <1>6, <1>7, <1>8 DEF IInv
<1> QED BY <1>1, <1>9, RunStays

LEMMA QueueCut ==
  ASSUME IInv, NEW q \in QueueNames, NEW left \in Seq(Msgs), Len(left) <= Len(queue[q]),
         \A i \in 1 .. Len(left) : left[i] = queue[q][i],
         queue' = [queue EXCEPT ![q] = left],
         handed' = handed, chat' = chat, agent' = agent, run' = run, late' = late,
         paused' = paused
  PROVE  IInv' /\ Good
<1>1. ASSUME NEW w, Sound(w), Handed(w, handed), w.queue = queue, NEW y,
             y = [a |-> w.a, queue |-> [w.queue EXCEPT ![q] = left], chat |-> w.chat]
      PROVE  Sound(y) /\ Handed(y, handed) /\ y.a = w.a /\ y.chat = w.chat
  BY <1>1, Queued DEF Handed
<1>2. Sound(Bare)' /\ Handed(Bare, handed)'
  <2>1. Bare' = [a |-> Bare.a, queue |-> [Bare.queue EXCEPT ![q] = left], chat |-> Bare.chat]
        /\ Bare.queue = queue
    BY DEF Bare
  <2>2. Sound(Bare) /\ Handed(Bare, handed)
    BY DEF IInv
  <2> QED BY <1>1, <2>1, <2>2
<1>3. ASSUME NEW r \in Runs
      PROVE  Sound(Here(r))' /\ Handed(Here(r), handed)' /\ Shape(Here(r))'
  <2>1. Here(r).a = run[r] /\ Here(r).queue = queue /\ Here(r).chat = chat
    BY DEF Here
  <2>2. Here(r)' = [a |-> Here(r).a, queue |-> [Here(r).queue EXCEPT ![q] = left],
                    chat |-> Here(r).chat]
    BY <2>1 DEF Here
  <2>3. Sound(Here(r)) /\ Handed(Here(r), handed) /\ Shape(Here(r))
    BY DEF IInv
  <2>4. Sound(Here(r)') /\ Handed(Here(r)', handed) /\ Here(r)'.a = Here(r).a
        /\ Here(r)'.chat = Here(r).chat
    BY <1>1, <2>1, <2>2, <2>3
  <2> QED BY <2>3, <2>4, ShapeStays
<1>4. AbortReachesTheRun'
  BY DEF IInv, AbortReachesTheRun, Talking, Claimed
<1>5. IInv'
  BY <1>2, <1>3, <1>4 DEF IInv
<1> QED BY <1>5, RunStays

LEMMA ClearStep == ASSUME IInv, NEW q \in QueueNames, Clear(q) PROVE IInv' /\ Good
<1>1. queue \in Queues
  <2>1. Sound(Bare) /\ Bare.queue = queue
    BY DEF IInv, Bare
  <2> QED BY <2>1, Fields DEF Sound
<1>2. <<>> \in Seq(Msgs) /\ Len(<<>>) = 0 /\ Len(queue[q]) \in Nat
  BY <1>1, EmptySeq, LenProperties DEF Queues
<1>3. /\ queue' = [queue EXCEPT ![q] = <<>>]
      /\ handed' = handed /\ chat' = chat /\ agent' = agent /\ run' = run /\ late' = late
      /\ paused' = paused
  BY DEF Clear
<1>4. Len(<<>>) <= Len(queue[q]) /\ \A i \in 1 .. Len(<<>>) : <<>>[i] = queue[q][i]
  BY <1>2
<1> QED BY <1>2, <1>3, <1>4, QueueCut

LEMMA PopLastStep == ASSUME IInv, NEW q \in QueueNames, PopLast(q) PROVE IInv' /\ Good
<1>1. queue[q] \in Seq(Msgs)
  <2>1. Sound(Bare) /\ Bare.queue = queue
    BY DEF IInv, Bare
  <2> QED BY <2>1, Fields DEF Sound, Queues
<1>2. /\ Front(queue[q]) \in Seq(Msgs) /\ Len(Front(queue[q])) <= Len(queue[q])
      /\ \A i \in 1 .. Len(Front(queue[q])) : Front(queue[q])[i] = queue[q][i]
  <2> DEFINE s == queue[q]
  <2>1. Len(s) \in Nat /\ Len(s) # 0 /\ \A i \in 1 .. Len(s) : s[i] \in Msgs
    BY <1>1, LenProperties, ElementOfSeq, EmptySeq DEF PopLast
  <2>2. Front(s) = SubSeq(s, 1, Len(s) - 1)
    BY DEF Front
  <2>3. /\ Front(s) \in Seq(Msgs) /\ Len(Front(s)) = Len(s) - 1
        /\ \A i \in 1 .. Len(s) - 1 : Front(s)[i] = s[i]
    BY <2>1, <2>2, <1>1, SubSeqProperties, Z3
  <2> QED BY <2>1, <2>3
<1>3. /\ queue' = [queue EXCEPT ![q] = Front(queue[q])]
      /\ handed' = handed /\ chat' = chat /\ agent' = agent /\ run' = run /\ late' = late
      /\ paused' = paused
  BY DEF PopLast
<1> HIDE DEF PopLast
<1> QED BY <1>2, <1>3, QueueCut

LEMMA AbortStep == ASSUME IInv, Abort PROVE IInv' /\ Good
<1> DEFINE c == agent.controller
           b == [run[c] EXCEPT !.cut = IF run[c].cut = "no" THEN "user" ELSE run[c].cut]
<1>1. /\ c \in Runs /\ run[c].pc # "new" /\ run \in [Runs -> Local] /\ run[c] \in Local
  BY DEF IInv, Abort
<1>2. /\ run' = [run EXCEPT ![c] = b] /\ handed' = handed /\ queue' = queue /\ chat' = chat
      /\ agent' = agent /\ late' = late /\ paused' = paused
  BY DEF Abort
<1>3. /\ b \in Local /\ b.hand = run[c].hand /\ b.pending = run[c].pending /\ b.pc = run[c].pc
      /\ b.how = run[c].how /\ b.open = run[c].open
  BY <1>1 DEF Local
<1> HIDE DEF c, b
<1>4. /\ run' \in [Runs -> Local] /\ run'[c] = b /\ \A s \in Runs \ {c} : run'[s] = run[s]
  BY <1>1, <1>2, <1>3
<1>5. ASSUME NEW s \in Runs
      PROVE  /\ run'[s].hand = run[s].hand /\ run'[s].pending = run[s].pending
             /\ run'[s].pc = run[s].pc /\ run'[s].how = run[s].how /\ run'[s].open = run[s].open
             /\ run'[s] \in Local /\ (run[s].pc = "new" => run'[s] = run[s])
  BY <1>1, <1>3, <1>4
<1>6. ASSUME NEW s \in Runs
      PROVE  Sound(Here(s))' /\ Handed(Here(s), handed)' /\ Shape(Here(s))'
  <2>1. Here(s) = [a |-> run[s], queue |-> queue, chat |-> chat]
    BY DEF Here
  <2>2. Here(s)' = [a |-> run'[s], queue |-> queue, chat |-> chat]
    BY <1>2 DEF Here
  <2>3. Spread(Here(s)') = Spread(Here(s))
    BY <1>5, <2>1, <2>2, SameSpread
  <2>4. Sound(Here(s)) /\ Handed(Here(s), handed) /\ Shape(Here(s))
    BY DEF IInv
  <2>5. Here(s)' \in Work
    BY <1>5, <2>1, <2>2, <2>4, Fields DEF Sound, Work
  <2>6. Sound(Here(s)') /\ Handed(Here(s)', handed)
    BY <2>3, <2>4, <2>5 DEF Sound, Handed
  <2>7. Shape(Here(s)')
    BY <1>5, <2>1, <2>2, <2>4 DEF Shape, Answering
  <2> QED BY <1>2, <2>6, <2>7
<1>7. Sound(Bare)' /\ Handed(Bare, handed)'
  <2>1. Bare' = Bare
    BY <1>2 DEF Bare
  <2> QED BY <1>2, <2>1 DEF IInv
<1>8. \A s \in Runs : Talking(s)' <=> Talking(s)
  BY <1>5 DEF Talking
<1>9. AbortReachesTheRun'
  BY <1>2, <1>8 DEF IInv, AbortReachesTheRun, Claimed
<1>10. IInv'
  <2>1. agent'.controller # 0 => run'[agent'.controller].pc # "new"
    BY <1>1, <1>2, <1>3, <1>4 DEF c
  <2>2. chat'.owed => \E s \in Runs : run'[s].pc = "tools"
    BY <1>2, <1>5 DEF IInv
  <2> QED BY <1>2, <1>4, <1>6, <1>7, <1>9, <2>1, <2>2 DEF IInv
<1>11. Held' = Held
  BY <1>2, <1>5 DEF Held
<1>12. Good
  BY <1>2, <1>5, <1>11 DEF Good, TakesNothing, Vanishes, HeardOut
<1> QED BY <1>10, <1>12

\* The deadline and the gate.
LEMMA Unmoved ==
  ASSUME IInv, handed' = handed, queue' = queue, chat' = chat, agent' = agent, run' = run,
         late' \in BOOLEAN, paused' \in BOOLEAN
  PROVE  IInv' /\ Good
<1>1. /\ Bare' = Bare /\ \A r \in Runs : Here(r)' = Here(r)
  BY DEF Bare, Here
<1>2. AbortReachesTheRun'
  BY DEF IInv, AbortReachesTheRun, Talking, Claimed
<1>3. IInv'
  BY <1>1, <1>2 DEF IInv
<1> QED BY <1>3, RunStays

-----------------------------------------------------------------------------
\* Every step.

LEMMA NextStep == ASSUME IInv, Next PROVE IInv' /\ Good
<1>1. ASSUME NEW r \in Runs, Prompt(r) \/ Continue(r) PROVE IInv' /\ Good
  BY <1>1, PromptStep, ContinueStep
<1>2. ASSUME NEW r \in Runs, RunStep(r) PROVE IInv' /\ Good
  BY <1>2, HooksRunStep, CommitStep, PreparedStep, RefusedStep, TakeAnswerStep,
     ToolsReturnStep, TurnEndsStep, YieldedStep DEF RunStep
<1>3. ASSUME NEW r \in Runs, HooksFail(r) \/ GateStops(r) \/ CallFails(r) \/ Leak(r) \/ Close(r)
      PROVE  IInv' /\ Good
  BY <1>3, HooksFailStep, GateStopsStep, CallFailsStep, LeakStep, CloseStep
<1>4. ASSUME NEW r \in Runs, NEW answer \in Answers, Answered(r, answer) PROVE IInv' /\ Good
  BY <1>4, AnsweredStep
<1>5. ASSUME NEW q \in {"steering", "followUps", "asides"}, HandIn(q) PROVE IInv' /\ Good
  BY <1>5, HandInStep DEF QueueNames
<1>6. ASSUME NEW q \in {"steering", "followUps"}, Clear(q) \/ PopLast(q) PROVE IInv' /\ Good
  BY <1>6, ClearStep, PopLastStep DEF QueueNames
<1>7. CASE Abort
  BY <1>7, AbortStep
<1>8. CASE DeadlinePasses \/ Pause \/ Resume
  BY <1>8, Unmoved DEF DeadlinePasses, Pause, Resume, IInv
<1> QED BY <1>1, <1>2, <1>3, <1>4, <1>5, <1>6, <1>7, <1>8 DEF Next

LEMMA StutterStep == ASSUME IInv, UNCHANGED vars PROVE IInv'
BY Unmoved DEF vars, IInv

LEMMA Initially == ASSUME Init PROVE IInv
<1> DEFINE q0 == [steering |-> <<>>, followUps |-> <<>>, asides |-> <<>>]
           c0 == [said |-> <<>>, tail |-> Opening, heard |-> 0, owed |-> FALSE]
           w0 == [a |-> New, queue |-> q0, chat |-> c0]
<1>1. /\ handed = 0 /\ queue = q0 /\ chat = c0 /\ agent = Idle /\ run = [r \in Runs |-> New]
      /\ late = FALSE /\ paused = FALSE
  BY DEF Init
<1>2. q0 \in Queues /\ c0 \in Chat /\ New \in Local
  <2>1. <<>> \in Seq(Msgs) /\ Opening \in Tails
    BY EmptySeq, OpeningAssumption DEF Tails
  <2>2. q0 \in Queues
    <3>1. q0 = [s \in QueueNames |-> q0[s]]
      BY DEF QueueNames
    <3>2. q0["steering"] = <<>> /\ q0["followUps"] = <<>> /\ q0["asides"] = <<>>
      OBVIOUS
    <3> HIDE DEF q0
    <3>3. \A s \in QueueNames : q0[s] \in Seq(Msgs)
      BY <2>1, <3>2 DEF QueueNames
    <3> QED BY <3>1, <3>3 DEF Queues
  <2>3. c0 \in Chat
    BY <2>1, Bounds DEF Chat
  <2> QED BY <2>2, <2>3, NewIsLocal
<1>3. w0 \in Work /\ w0.a = New /\ w0.queue = q0 /\ w0.chat = c0
  <2> HIDE DEF q0, c0
  <2> QED BY <1>2 DEF Work
<1>4. \A s \in Spots : Spread(w0)[s] = <<>>
  BY NewIsLocal DEF Spread, Spots
<1> HIDE DEF w0
<1>5. Neat(Spread(w0)) /\ \A m \in Msgs : ~Holds(Spread(w0), m)
  BY <1>4, EmptySeq DEF Neat, Holds, InSpot
<1>6. Sound(w0) /\ Handed(w0, 0) /\ Shape(w0)
  BY <1>3, <1>5, NewIsLocal DEF Sound, Handed, Shape
<1>7. Bare = w0 /\ \A r \in Runs : Here(r) = w0
  BY <1>1 DEF Bare, Here, w0
<1>8. AbortReachesTheRun
  BY <1>1, NewIsLocal DEF AbortReachesTheRun, Talking, Idle
<1>9. agent \in [streaming : BOOLEAN, controller : {0} \cup Runs] /\ agent.controller = 0
  BY <1>1 DEF Idle
<1> QED BY <1>1, <1>2, <1>6, <1>7, <1>8, <1>9, Bounds DEF IInv

-----------------------------------------------------------------------------
\* The theorems.

\* The invariant of the runs: each message is in one place at most, and was
\* handed in; what a run has in its hands goes with where it is; one run owns
\* the agent.
THEOREM Invariance == Spec => []IInv
<1>1. IInv /\ [Next]_vars => IInv'
  BY NextStep, StutterStep
<1> QED BY Initially, <1>1, PTL DEF Spec

LEMMA Typed == ASSUME IInv PROVE TypeOK
<1>1. Sound(Bare) /\ Bare.queue = queue /\ Bare.chat = chat
  BY DEF IInv, Bare
<1>2. queue \in Queues /\ chat \in Chat
  BY <1>1, Fields DEF Sound
<1> QED BY <1>2 DEF IInv, TypeOK, Queues, QueueNames, Chat, Tails, Local

\* Every variable of a run keeps its type, the bounds of the leaks and of the
\* continued turns included.
THEOREM TypeCorrect == Spec => []TypeOK
BY Invariance, Typed, PTL

\* One run at a time talks and owns the agent: #abortController is its own, and
\* isStreaming stays set until its agent_end, whichever way the runs before it
\* come to their finally clauses.
THEOREM AbortReaches == Spec => []AbortReachesTheRun
<1>1. IInv => AbortReachesTheRun
  BY DEF IInv
<1> QED BY Invariance, <1>1, PTL

LEMMA SoundTranscript == ASSUME IInv PROVE TranscriptSound
<1>1. Sound(Bare) /\ Bare.queue = queue /\ Bare.chat = chat
  BY DEF IInv, Bare
<1>2. IsInjective(chat.said)
  BY <1>1, NeatIs
<1>3. ASSUME NEW i \in Range(chat.said), i \in Held PROVE FALSE
  <2>1. ASSUME NEW q \in QueueNames, i \in Range(queue[q]) PROVE FALSE
    BY <1>1, <2>1, NeatIs
  <2>2. ASSUME NEW r \in Runs, i \in Range(run[r].hand) \/ i \in Range(run[r].pending) PROVE FALSE
    <3>1. Sound(Here(r)) /\ Here(r).a = run[r] /\ Here(r).chat = chat
      BY DEF IInv, Here
    <3> QED BY <2>2, <3>1, NeatIs
  <2> QED BY <1>3, <2>1, <2>2, HeldIs
<1>4. chat.owed => \E r \in Runs : run[r].pc = "tools" \/ run[r].pc \in Answers
  BY DEF IInv
<1> QED BY <1>2, <1>3, <1>4 DEF TranscriptSound

\* The transcript is sound: emitInputMessages says no message twice, nor one
\* that is still queued or pending, and an answer's calls are owed their results
\* only while the run that has them executes them.
THEOREM SoundTranscripts == Spec => []TranscriptSound
BY Invariance, SoundTranscript, PTL

LEMMA GoodSteps == IInv /\ [Next]_vars => [Good]_vars
BY NextStep

\* An aborted run, or one past its deadline, leaves the queues alone: the signal
\* is looked at again after the hooks of a poll.
THEOREM AbortedRunsTakeNothing == Spec => AbortedTakesNothing
<1>1. IInv /\ [Next]_vars => [TakesNothing]_vars
  BY GoodSteps DEF Good
<1>2. TakesNothing <=> \A r \in Runs : run'[r] # run[r] /\ run[r].pc # "new" /\ Cut(run[r])
                                          => queue' = queue
  BY DEF TakesNothing
<1> QED BY Invariance, <1>1, <1>2, PTL DEF Spec, AbortedTakesNothing

\* A message on its way is never lost but into the transcript, by the host, or
\* with a run that dies of its deadline or of an error, or strayed.
THEOREM MessagesDoNotVanish == Spec => NothingVanishes
<1>1. IInv /\ [Next]_vars => [Vanishes]_vars
  BY GoodSteps DEF Good
<1>2. Vanishes <=> \A i \in Held \ Held' :
        \/ i \in Range(chat'.said)
        \/ run' = run
        \/ \E r \in Runs : Dies(r) \/ Astray(r)
  BY DEF Vanishes
<1> QED BY Invariance, <1>1, <1>2, PTL DEF Spec, NothingVanishes

\* A run that is done has had an answer to all that was said.
THEOREM AllIsAnswered == Spec => NothingUnanswered
<1>1. IInv /\ [Next]_vars => [HeardOut]_vars
  BY GoodSteps DEF Good
<1>2. HeardOut <=> \A r \in Runs : run[r].how = "no" /\ run'[r].how = "done" /\ ~run[r].open
                                     => chat'.heard = Len(chat'.said)
  BY DEF HeardOut
<1> QED BY Invariance, <1>1, <1>2, PTL DEF Spec, NothingUnanswered
=============================================================================

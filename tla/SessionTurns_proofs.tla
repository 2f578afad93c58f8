------------------------- MODULE SessionTurns_proofs -------------------------
(***************************************************************************)
(* The safety of a session's turns, for any number of them, of messages    *)
(* and of aborts: Base ties the turns to the run of the agent, to the      *)
(* count in flight, to the queues and to the block; Good adds that whoever *)
(* holds the session up is under way, and that the session is settled at   *)
(* rest.  As the operators of the model are, the predicates and lemmas are *)
(* about values x of the whole state.                                      *)
(***************************************************************************)
EXTENDS SessionTurns, Queues_proofs

TurnStates == {"off", "asked", "setup", "built", "waiting", "running",
               "recovery", "preflight", "ending", "done"}
Holder == [st : TurnStates, cut : BOOLEAN, parked : Seq(Msgs), block : BOOLEAN]
Flags == [count : Nat, blocked : BOOLEAN, suppressed : BOOLEAN,
          aborting : BOOLEAN, observers : BOOLEAN, settling : Nat]
Runner == [by : Turns \cup {None}, st : {"idle", "claimed", "working", "closing"},
           cut : BOOLEAN, tail : {"assistant", "toolResult", "other"},
           steering : Seq(Msgs), followUps : Seq(Msgs)]
Letter == [st : {"new", "queued", "seen", "withdrawn"}, from : {"user", "parent"},
           tried : {"no", "tried", "overruled"}]
Aborter == [st : {"new", "tasks", "idle", "done"}, tasks : SUBSET Resumes, waits : BOOLEAN]
World == [turn : [Turns -> Holder], session : Flags, agent : Runner,
          msg : [Msgs -> Letter], record : [Records -> {"new", "pending", "passed", "seen"}],
          abort : [Aborts -> Aborter]]

\* The turns that have begun and are not over.
Holding(x) == {t \in Turns : x.turn[t].st \notin {"off", "asked", "done"}}

\* The states that turns of each kind go through.
KindsKnown(x) ==
    /\ \A p \in Prompts : x.turn[p].st \notin {"preflight", "ending"}
    /\ \A r \in Resumes : x.turn[r].st \in {"off", "preflight", "running", "ending"}
    /\ \A w \in Wakes : /\ x.turn[w].st \in {"off", "running", "recovery"}
                        /\ x.turn[w].st = "off" => x.turn[w].parked = <<>>

\* The run of the agent is the run of the one turn that is running.
RunKnown(x) ==
    /\ \A t \in Turns : x.turn[t].st = "running" <=> x.agent.by = t
    /\ x.agent.st = "idle" <=> x.agent.by = None

\* What an abort waits for is there.
AbortsKnown(x) ==
    \A k \in Aborts : /\ x.abort[k].waits => x.agent.by # None
                      /\ \A r \in x.abort[k].tasks : x.turn[r].st # "off"

\* Not more is counted in flight than there is.
Counted(x) == IsFiniteSet(Holding(x)) /\ x.session.count <= Cardinality(Holding(x))

\* A message is queued in one place, once.
Parked(x, w) == ToSet(x.turn[w].parked)
Placed(x) ==
    /\ IsInjective(x.agent.steering) /\ IsInjective(x.agent.followUps)
    /\ \A w \in Wakes : IsInjective(x.turn[w].parked)
    /\ \A m \in Msgs :
        /\ x.msg[m].st = "queued" <=> m \in Queued(x) \/ \E w \in Wakes : m \in Parked(x, w)
        /\ ~(m \in ToSet(x.agent.steering) /\ m \in ToSet(x.agent.followUps))
        /\ \A w \in Wakes : m \in Parked(x, w) =>
              m \notin Queued(x) /\ \A v \in Wakes \ {w} : m \notin Parked(x, v)

\* Behind a block there is no steering message of a user that nothing was tried with.
Lifted(x) == x.session.blocked => \A m \in ToSet(x.agent.steering) :
                                     x.msg[m].from = "user" => x.msg[m].tried # "no"

Base(x) == /\ x \in World /\ KindsKnown(x) /\ RunKnown(x) /\ AbortsKnown(x)
           /\ Counted(x) /\ Placed(x) /\ Lifted(x)

\* While the session says that an abort is under way, one is.
Under(x, k) == x.abort[k].st \in {"tasks", "idle"}
AbortingKnown(x) == x.session.aborting => \E k \in Aborts : Under(x, k)

\* AtRest and RestIsSettled, of a value.
Resting(x) == /\ Active(x, Turns) = {} /\ x.session.settling = 0
              /\ \A k \in Aborts : ~Under(x, k)
Settled(x) ==
    /\ x.session.count = 0 /\ ~x.session.aborting /\ x.agent.by = None
    /\ \A i \in Pending(x) : x.record[i] = "passed"
    /\ \A m \in ToSet(x.agent.steering) : x.msg[m].from = "user" => x.msg[m].tried # "no"
    /\ HasQueued(x) => \/ x.session.blocked
                       \/ /\ x.agent.steering = <<>>
                          /\ x.session.suppressed \/ x.agent.tail = "other"

Good(x) == Base(x) /\ AbortingKnown(x) /\ (Resting(x) => Settled(x))

IInv == Good(Now)

\* There is a resume and a wake left; Roomy, of a value.
Room(x) == \A S \in {Resumes, Wakes} : \E t \in S : x.turn[t].st = "off"

-----------------------------------------------------------------------------
\* What stays when the turns, the run and the queues do.

\* None is no turn, and a turn is of one kind.
LEMMA Bounds ==
    /\ None \notin Turns /\ Prompts \subseteq Turns /\ Resumes \subseteq Turns /\ Wakes \subseteq Turns
    /\ Turns = Prompts \cup Resumes \cup Wakes
    /\ Prompts \cap Resumes = {} /\ Prompts \cap Wakes = {} /\ Resumes \cap Wakes = {}
BY TurnsAssumption DEF Turns

\* The fields of a state.
LEMMA Fields ==
    ASSUME NEW x \in World
    PROVE  /\ x.turn \in [Turns -> Holder] /\ x.session \in Flags /\ x.agent \in Runner
           /\ x.msg \in [Msgs -> Letter] /\ x.abort \in [Aborts -> Aborter]
           /\ x.record \in [Records -> {"new", "pending", "passed", "seen"}]
BY DEF World

SameTurns(x, y) == \A t \in Turns : /\ y.turn[t].st = x.turn[t].st
                                    /\ y.turn[t].parked = x.turn[t].parked
SameRun(x, y) == y.agent.by = x.agent.by /\ y.agent.st = x.agent.st
SameQueues(x, y) == /\ y.agent.steering = x.agent.steering /\ y.agent.followUps = x.agent.followUps
                    /\ \A m \in Msgs : y.msg[m].st = x.msg[m].st
StillLifted(x, y) == /\ y.session.blocked => x.session.blocked
                     /\ ToSet(y.agent.steering) \subseteq ToSet(x.agent.steering)
                     /\ \A m \in Msgs : /\ y.msg[m].from = x.msg[m].from
                                        /\ x.msg[m].tried # "no" => y.msg[m].tried # "no"

\* The turns stay.
LEMMA TurnsStay ==
    ASSUME NEW x, NEW y, SameTurns(x, y)
    PROVE  /\ Holding(y) = Holding(x) /\ (Room(x) => Room(y))
           /\ \A S \in SUBSET Turns : Active(y, S) = Active(x, S)
<1>1. Holding(y) = Holding(x)
  BY DEF SameTurns, Holding
<1>2. Room(x) => Room(y)
  BY Bounds DEF SameTurns, Room
<1>3. \A S \in SUBSET Turns : Active(y, S) = Active(x, S)
  BY DEF SameTurns, Active
<1> QED
  BY <1>1, <1>2, <1>3

\* The queues and what is set aside stay.
LEMMA PlacedStays ==
    ASSUME NEW x, NEW y, Placed(x), SameQueues(x, y),
           \A w \in Wakes : y.turn[w].parked = x.turn[w].parked
    PROVE  Placed(y)
<1>1. Queued(y) = Queued(x) /\ \A w \in Wakes : Parked(y, w) = Parked(x, w)
  BY DEF SameQueues, Queued, Parked
<1> QED
  BY <1>1 DEF Placed, SameQueues

\* The block does not fall on new steering messages.
LEMMA LiftedStays ==
    ASSUME NEW x, NEW y, Lifted(x), StillLifted(x, y), x.agent.steering \in Seq(Msgs)
    PROVE  Lifted(y)
<1>1. ToSet(x.agent.steering) \subseteq Msgs
  BY SetOf
<1> QED
  BY <1>1 DEF Lifted, StillLifted

\* The turns, the run and the aborts stay, and so does the count.
LEMMA TurnsKnown ==
    ASSUME NEW x, NEW y, Base(x), SameTurns(x, y), SameRun(x, y), y.abort = x.abort,
           y.session.count = x.session.count
    PROVE  KindsKnown(y) /\ RunKnown(y) /\ AbortsKnown(y) /\ Counted(y)
<1>1. KindsKnown(x) /\ RunKnown(x) /\ AbortsKnown(x) /\ Counted(x) /\ x \in World
  BY DEF Base
<1>2. KindsKnown(y)
  BY <1>1, Bounds DEF SameTurns, KindsKnown
<1>3. RunKnown(y)
  BY <1>1 DEF SameTurns, SameRun, RunKnown
<1>4. AbortsKnown(y)
  <2>1. \A k \in Aborts : x.abort[k].tasks \subseteq Turns
    BY <1>1, Fields, Bounds DEF Aborter
  <2> QED
    BY <1>1, <2>1 DEF SameTurns, SameRun, AbortsKnown
<1>5. Counted(y)
  BY <1>1, TurnsStay DEF Counted
<1> QED
  BY <1>2, <1>3, <1>4, <1>5

\* Nothing of it all changes.
LEMMA BaseStays ==
    ASSUME NEW x, NEW y, Base(x), y \in World, SameTurns(x, y), SameRun(x, y),
           y.abort = x.abort, y.session.count = x.session.count, SameQueues(x, y),
           StillLifted(x, y)
    PROVE  Base(y)
<1>1. Placed(x) /\ Lifted(x) /\ x.agent.steering \in Seq(Msgs)
  BY Fields DEF Base, Runner
<1>2. Placed(y)
  BY <1>1, PlacedStays, Bounds DEF SameTurns
<1>3. Lifted(y)
  BY <1>1, LiftedStays
<1> QED
  BY <1>2, <1>3, TurnsKnown DEF Base

\* A state in which something is under way is not at rest.
LEMMA Busy ==
    ASSUME NEW x, Base(x), AbortingKnown(x),
           \/ Active(x, Turns) # {} \/ x.session.settling # 0
           \/ \E k \in Aborts : Under(x, k)
    PROVE  Good(x)
BY DEF Good, Resting

-----------------------------------------------------------------------------
\* Marks and notes.

\* A mark changes what was tried with what is queued.
Marked(x, y) ==
    /\ y \in World /\ y.turn = x.turn /\ y.session = x.session /\ y.agent = x.agent
    /\ y.record = x.record /\ y.abort = x.abort
    /\ \A m \in Msgs : /\ y.msg[m].st = x.msg[m].st /\ y.msg[m].from = x.msg[m].from
                       /\ x.msg[m].tried # "no" => y.msg[m].tried # "no"
                       /\ m \in Queued(x) => y.msg[m].tried # "no"
LEMMA MarkIs == ASSUME NEW x \in World, NEW as \in {"tried", "overruled"}
                PROVE  Marked(x, Mark(x, as))
<1> DEFINE y == Mark(x, as)
<1> DEFINE f == [m \in Msgs |->
                    IF m \in Queued(x) /\ x.msg[m].tried # "tried"
                    THEN [x.msg[m] EXCEPT !.tried = as] ELSE x.msg[m]]
<1>1. y = [x EXCEPT !.msg = f]
  BY DEF Mark
<1>2. \A m \in Msgs : /\ f[m] \in Letter /\ f[m].st = x.msg[m].st /\ f[m].from = x.msg[m].from
                      /\ x.msg[m].tried # "no" => f[m].tried # "no"
                      /\ m \in Queued(x) => f[m].tried # "no"
  <2> TAKE m \in Msgs
  <2>1. x.msg[m] \in Letter
    BY Fields
  <2> DEFINE l == [x.msg[m] EXCEPT !.tried = as]
  <2>2. l \in Letter /\ l.st = x.msg[m].st /\ l.from = x.msg[m].from /\ l.tried # "no"
    BY ONLY <2>1, as \in {"tried", "overruled"} DEF Letter
  <2>3. f[m] = IF m \in Queued(x) /\ x.msg[m].tried # "tried" THEN l ELSE x.msg[m]
    OBVIOUS
  <2> HIDE DEF l, f
  <2> QED
    BY ONLY <2>1, <2>2, <2>3
<1>3. f \in [Msgs -> Letter]
  BY <1>2
<1> HIDE DEF f
<1> HIDE DEF y
<1>4. /\ y \in World /\ y.turn = x.turn /\ y.session = x.session /\ y.agent = x.agent
      /\ y.record = x.record /\ y.abort = x.abort /\ y.msg = f
  BY ONLY <1>1, <1>3, x \in World DEF World
<1>5. Marked(x, y)
  BY <1>2, <1>4 DEF Marked
<1> QED
  BY <1>5 DEF y

\* A mark leaves the invariant as it is.
LEMMA MarkKeeps ==
    ASSUME NEW x, Base(x), NEW as \in {"tried", "overruled"}, NEW y, y = Mark(x, as)
    PROVE  /\ Base(y) /\ \A m \in ToSet(y.agent.steering) : y.msg[m].tried # "no"
<1>1. x \in World /\ ToSet(x.agent.steering) \subseteq Queued(x) \cap Msgs
  <2>1. x \in World /\ x.agent.steering \in Seq(Msgs)
    BY Fields DEF Base, Runner
  <2> QED
    BY <2>1, SetOf DEF Queued
<1>2. /\ y \in World /\ y.turn = x.turn /\ y.session = x.session /\ y.agent = x.agent
      /\ y.record = x.record /\ y.abort = x.abort
      /\ \A m \in Msgs : /\ y.msg[m].st = x.msg[m].st /\ y.msg[m].from = x.msg[m].from
                         /\ x.msg[m].tried # "no" => y.msg[m].tried # "no"
                         /\ m \in Queued(x) => y.msg[m].tried # "no"
  BY <1>1, MarkIs DEF Marked
<1>3. SameTurns(x, y) /\ SameRun(x, y) /\ SameQueues(x, y) /\ StillLifted(x, y)
  BY <1>2 DEF SameTurns, SameRun, SameQueues, StillLifted
<1> QED
  BY <1>1, <1>2, <1>3, BaseStays

\* A block is put on a queue of marked messages.
LEMMA BlockKeeps ==
    ASSUME NEW x, Base(x), NEW y, y = Block(x)
    PROVE  /\ Base(y) /\ y.turn = x.turn /\ y.agent = x.agent /\ y.record = x.record
           /\ y.abort = x.abort /\ y.session.aborting = x.session.aborting
<1> DEFINE z == Mark(x, "tried")
<1>1. /\ Base(z) /\ z \in World /\ z.turn = x.turn /\ z.session = x.session /\ z.agent = x.agent
      /\ z.record = x.record /\ z.abort = x.abort
      /\ \A m \in ToSet(z.agent.steering) : z.msg[m].tried # "no"
  BY MarkKeeps, MarkIs DEF Base, Marked
<1> DEFINE n == [z.session EXCEPT !.blocked = HasQueued(x)]
<1>2. y = [z EXCEPT !.session = n]
  BY <1>1 DEF Block, World
<1> HIDE DEF z
<1>3. n \in Flags /\ n.count = z.session.count /\ n.aborting = z.session.aborting
  <2>1. z.session \in Flags /\ HasQueued(x) \in BOOLEAN
    BY <1>1, Fields DEF HasQueued
  <2> QED
    BY ONLY <2>1 DEF Flags
<1> HIDE DEF n
<1>4. /\ y \in World /\ y.turn = z.turn /\ y.session = n /\ y.agent = z.agent
      /\ y.msg = z.msg /\ y.record = z.record /\ y.abort = z.abort
  BY ONLY <1>1, <1>2, <1>3 DEF World
<1>5. SameTurns(z, y) /\ SameRun(z, y) /\ SameQueues(z, y)
  BY <1>4 DEF SameTurns, SameRun, SameQueues
<1>6. KindsKnown(y) /\ RunKnown(y) /\ AbortsKnown(y) /\ Counted(y)
  BY <1>1, <1>3, <1>4, <1>5, TurnsKnown
<1>7. Placed(y)
  BY <1>1, <1>4, <1>5, PlacedStays DEF Base
<1>8. Lifted(y)
  BY <1>1, <1>4 DEF Lifted
<1> QED
  BY <1>1, <1>3, <1>4, <1>6, <1>7, <1>8 DEF Base

\* Nothing changes but the records of peer messages.
Noted(x, y) == /\ y \in World /\ y.turn = x.turn /\ y.session = x.session /\ y.agent = x.agent
               /\ y.msg = x.msg /\ y.abort = x.abort
LEMMA NotedIs ==
    ASSUME NEW x \in World, NEW f \in [Records -> {"new", "pending", "passed", "seen"}]
    PROVE  Noted(x, [x EXCEPT !.record = f]) /\ [x EXCEPT !.record = f].record = f
<1> DEFINE y == [x EXCEPT !.record = f]
<1>1. /\ y \in World /\ y.turn = x.turn /\ y.session = x.session /\ y.agent = x.agent
      /\ y.msg = x.msg /\ y.record = f /\ y.abort = x.abort
  BY DEF World
<1> QED
  BY <1>1 DEF Noted

\* Peer messages are taken into the transcript.
LEMMA SeeIs == ASSUME NEW x \in World, NEW is PROVE Noted(x, See(x, is))
<1> DEFINE f == [i \in Records |-> IF i \in is THEN "seen" ELSE x.record[i]]
<1>1. f \in [Records -> {"new", "pending", "passed", "seen"}]
  BY Fields
<1>2. See(x, is) = [x EXCEPT !.record = f]
  BY DEF See
<1> HIDE DEF f
<1> QED
  BY <1>1, <1>2, NotedIs

\* That keeps the invariant.
LEMMA NotedKeeps == ASSUME NEW x, NEW y, Base(x), Noted(x, y) PROVE Base(y)
<1>1. SameTurns(x, y) /\ SameRun(x, y) /\ SameQueues(x, y) /\ StillLifted(x, y)
  BY DEF Noted, SameTurns, SameRun, SameQueues, StillLifted
<1> QED
  BY <1>1, BaseStays DEF Noted

-----------------------------------------------------------------------------
\* Turns that begin.

\* One turn more, and one more in flight.
LEMMA OneMore ==
    ASSUME NEW x, Counted(x), x.session.count \in Nat, NEW t \in Turns, t \notin Holding(x),
           NEW y, Holding(y) = Holding(x) \cup {t}, y.session.count = x.session.count + 1
    PROVE  Counted(y)
<1>1. IsFiniteSet(Holding(x)) /\ Cardinality(Holding(x)) \in Nat
  BY FS_CardinalityType DEF Counted
<1>2. /\ IsFiniteSet(Holding(x) \cup {t})
      /\ Cardinality(Holding(x) \cup {t}) = Cardinality(Holding(x)) + 1
  BY <1>1, FS_AddElement
<1> QED
  BY <1>1, <1>2 DEF Counted

\* One turn less; the count may be one too many.
OverCounted(x) == IsFiniteSet(Holding(x)) /\ x.session.count <= Cardinality(Holding(x)) + 1
LEMMA OneLess ==
    ASSUME NEW x, Counted(x), x.session.count \in Nat, NEW t \in Holding(x),
           NEW y, Holding(y) = Holding(x) \ {t}, y.session.count = x.session.count
    PROVE  OverCounted(y)
<1>1. IsFiniteSet(Holding(x)) /\ Cardinality(Holding(x)) \in Nat
  BY FS_CardinalityType DEF Counted
<1>2. /\ IsFiniteSet(Holding(x) \ {t})
      /\ Cardinality(Holding(x) \ {t}) = Cardinality(Holding(x)) - 1
  BY <1>1, FS_RemoveElement
<1> QED
  BY <1>1, <1>2 DEF Counted, OverCounted

\* The state with one turn set, and counted.
Begins(x, y, t, r) ==
    /\ y \in World /\ y.turn = [x.turn EXCEPT ![t] = r]
    /\ y.session = [x.session EXCEPT !.count = @ + 1] /\ y.agent = x.agent
    /\ y.msg = x.msg /\ y.record = x.record /\ y.abort = x.abort
LEMMA BeginIs == ASSUME NEW x \in World, NEW t \in Turns, NEW r \in Holder
                 PROVE  Begins(x, BeginInFlight(x, t, r), t, r)
<1> DEFINE y == BeginInFlight(x, t, r)
           f == [x.turn EXCEPT ![t] = r]
           n == [x.session EXCEPT !.count = @ + 1]
<1>1. y = [x EXCEPT !.session = n, !.turn = f]
  BY DEF BeginInFlight, World
<1>2. f \in [Turns -> Holder]
  BY Fields
<1>3. n \in Flags
  BY Fields DEF Flags
<1> HIDE DEF f, n, y
<1>4. /\ y \in World /\ y.turn = f /\ y.session = n /\ y.agent = x.agent
      /\ y.msg = x.msg /\ y.record = x.record /\ y.abort = x.abort
  BY ONLY <1>1, <1>2, <1>3, x \in World DEF World
<1>5. Begins(x, y, t, f[t])
  BY <1>4 DEF Begins, f, n
<1>6. f[t] = r
  BY Fields DEF f
<1> QED
  BY <1>5, <1>6 DEF y

\* The session is in flight.
Started(x, y) == /\ Base(y) /\ y.abort = x.abort /\ y.session.aborting = x.session.aborting
                 /\ Streaming(y) /\ Active(y, Turns) # {}

\* A prompt or a resume begins.
LEMMA StartKeeps ==
    ASSUME NEW x, Base(x), NEW t \in Turns, x.turn[t].st \in {"off", "asked"},
           NEW s, (t \in Prompts /\ s = "setup") \/ (t \in Resumes /\ s = "preflight"),
           NEW y, y = BeginInFlight(x, t, [Off EXCEPT !.st = s])
    PROVE  Started(x, y) /\ y.session.observers = x.session.observers
<1> DEFINE r == [Off EXCEPT !.st = s]
<1>1. x \in World /\ x.turn \in [Turns -> Holder] /\ x.session \in Flags
  BY Fields DEF Base
<1>2. r \in Holder /\ r.st = s /\ s \in {"setup", "preflight"}
  BY OfNone DEF Off, Holder, TurnStates
<1>3. Begins(x, y, t, r)
  BY <1>1, <1>2, BeginIs
<1> HIDE DEF r
<1>4. /\ y \in World /\ y.agent = x.agent /\ y.msg = x.msg /\ y.abort = x.abort
      /\ y.turn[t] = r /\ \A u \in Turns \ {t} : y.turn[u] = x.turn[u]
  BY <1>1, <1>3 DEF Begins
<1>5. /\ y.session.count = x.session.count + 1 /\ y.session.blocked = x.session.blocked
      /\ y.session.aborting = x.session.aborting /\ x.session.count \in Nat
      /\ y.session.observers = x.session.observers
  BY <1>1, <1>3 DEF Begins, Flags
<1>6. KindsKnown(y)
  <2>1. \A p \in Prompts : y.turn[p].st \notin {"preflight", "ending"}
    BY <1>2, <1>4, Bounds DEF Base, KindsKnown
  <2>2. \A u \in Resumes : y.turn[u].st \in {"off", "preflight", "running", "ending"}
    BY <1>2, <1>4, Bounds DEF Base, KindsKnown
  <2>3. \A w \in Wakes : y.turn[w] = x.turn[w]
    BY <1>4, Bounds
  <2> QED
    BY <2>1, <2>2, <2>3 DEF Base, KindsKnown
<1>7. RunKnown(y)
  BY <1>2, <1>4 DEF Base, RunKnown
<1>8. AbortsKnown(y)
  <2>1. \A u \in Turns : x.turn[u].st # "off" => y.turn[u].st # "off"
    BY <1>2, <1>4
  <2>2. \A k \in Aborts : x.abort[k].tasks \subseteq Turns
    BY <1>1, Fields, Bounds DEF Aborter
  <2> QED
    BY <1>4, <2>1, <2>2 DEF Base, AbortsKnown
<1>9. Counted(y)
  <2>1. Holding(y) = Holding(x) \cup {t} /\ t \notin Holding(x)
    BY <1>2, <1>4 DEF Holding
  <2> QED
    BY <1>5, <2>1, OneMore DEF Base
<1>10. Placed(y) /\ Lifted(y)
  <2>1. \A w \in Wakes : y.turn[w].parked = x.turn[w].parked
    BY <1>4, Bounds
  <2>2. SameQueues(x, y) /\ StillLifted(x, y)
    BY <1>4, <1>5 DEF SameQueues, StillLifted
  <2>3. x.agent.steering \in Seq(Msgs) /\ Placed(x) /\ Lifted(x)
    BY <1>1, Fields DEF Runner, Base
  <2> QED
    BY <2>1, <2>2, <2>3, PlacedStays, LiftedStays
<1>11. Streaming(y) /\ Active(y, Turns) # {}
  BY <1>2, <1>4, <1>5 DEF Streaming, Active
<1> QED
  BY <1>4, <1>5, <1>6, <1>7, <1>8, <1>9, <1>10, <1>11 DEF Base, Started

\* A turn that is free.
LEMMA FreeIs == ASSUME NEW x, Room(x), NEW S \in {Resumes, Wakes}
                PROVE  FreeOf(x, S) \in S /\ x.turn[FreeOf(x, S)].st = "off"
BY DEF Room, FreeOf

\* There is a turn left to begin with, or nothing will begin.
Able(x) == Room(x) \/ Streaming(x)

\* A resume is scheduled, or there is no call for one.
NoCall(x) == x.session.blocked \/ ~CanAutoContinue(x) \/ ~HasQueued(x)
LEMMA ScheduleKeeps ==
    ASSUME NEW x, Base(x), Able(x), NEW y, y = ScheduleDrain(x)
    PROVE  (y = x /\ NoCall(x)) \/ Started(x, y)
<1>1. CASE NoCall(x)
  BY <1>1 DEF ScheduleDrain, NoCall
<1>2. CASE ~NoCall(x)
  <2>1. Room(x)
    BY <1>2 DEF NoCall, CanAutoContinue, Able
  <2>2. y = BeginInFlight(x, FreeOf(x, Resumes), [Off EXCEPT !.st = "preflight"])
    BY <1>2 DEF NoCall, ScheduleDrain, StartResume
  <2>3. FreeOf(x, Resumes) \in Resumes /\ x.turn[FreeOf(x, Resumes)].st = "off"
    BY <2>1, FreeIs
  <2> QED
    BY <2>2, <2>3, Bounds, StartKeeps
<1> QED
  BY <1>1, <1>2

\* A wake begins, and sets follow-ups aside.
LEMMA WakeKeeps ==
    ASSUME NEW x, Base(x), Room(x), ~Streaming(x), NEW is, NEW y, y = WakeFor(x, is)
    PROVE  Started(x, y)
<1> DEFINE w == FreeOf(x, Wakes)
           parked == IF x.agent.steering = <<>> /\ ~CanAutoContinue(x)
                     THEN x.agent.followUps ELSE <<>>
           block == parked # <<>> /\ x.session.blocked
           r == [Off EXCEPT !.st = "running", !.parked = parked, !.block = block]
           z == See(BeginInFlight(x, w, r), is)
           left == IF parked # <<>> THEN <<>> ELSE x.agent.followUps
           flags == [z.session EXCEPT !.blocked = @ /\ ~block]
           runner == [x.agent EXCEPT !.by = w, !.st = "working", !.cut = FALSE,
                                     !.followUps = left]
<1>1. w \in Wakes /\ x.turn[w].st = "off" /\ w \in Turns
  BY FreeIs, Bounds
<1>2. /\ x \in World /\ x.turn \in [Turns -> Holder] /\ x.session \in Flags /\ x.agent \in Runner
      /\ x.agent.steering \in Seq(Msgs) /\ x.agent.followUps \in Seq(Msgs)
      /\ x.agent.by = None /\ x.session.count \in Nat /\ x.session.blocked \in BOOLEAN
  <2>1. /\ x \in World /\ x.turn \in [Turns -> Holder] /\ x.session \in Flags
        /\ x.agent \in Runner
    BY Fields DEF Base
  <2>2. x.agent.by = None
    BY DEF Streaming
  <2> QED
    BY <2>1, <2>2 DEF Runner, Flags
<1>3. /\ parked \in Seq(Msgs) /\ block \in BOOLEAN
      /\ parked \in {<<>>, x.agent.followUps}
  BY <1>2, OfNone
<1>4. y = [z EXCEPT !.session = flags, !.agent = runner]
  BY DEF WakeFor
<1> HIDE DEF parked, block, w
<1>5. r \in Holder /\ r.st = "running" /\ r.parked = parked
  <2>1. Off \in Holder /\ "running" \in TurnStates
    BY OfNone DEF Off, Holder, TurnStates
  <2> QED
    BY ONLY <1>3, <2>1 DEF Holder
<1> HIDE DEF r
<1>6. /\ Begins(x, BeginInFlight(x, w, r), w, r)
      /\ Noted(BeginInFlight(x, w, r), z)
  <2>1. Begins(x, BeginInFlight(x, w, r), w, r)
    BY <1>1, <1>2, <1>5, BeginIs
  <2>2. Noted(BeginInFlight(x, w, r), z)
    BY <2>1, SeeIs DEF Begins
  <2> QED
    BY <2>1, <2>2
<1> HIDE DEF z
<1>7. /\ z \in World /\ z.turn = [x.turn EXCEPT ![w] = r]
      /\ z.session = [x.session EXCEPT !.count = @ + 1] /\ z.agent = x.agent
      /\ z.msg = x.msg /\ z.abort = x.abort
  BY <1>6 DEF Begins, Noted
<1>8. /\ left \in Seq(Msgs)
      /\ (parked = <<>> /\ left = x.agent.followUps) \/ (parked = x.agent.followUps /\ left = <<>>)
  BY <1>2, <1>3, <1>7, OfNone
<1>9. /\ flags \in Flags /\ flags.count = x.session.count + 1
      /\ flags.aborting = x.session.aborting
      /\ flags.blocked => x.session.blocked
  <2>1. z.session \in Flags /\ z.session.count = x.session.count + 1
        /\ z.session.aborting = x.session.aborting /\ z.session.blocked = x.session.blocked
    BY <1>2, <1>7, Fields DEF Flags
  <2> QED
    BY <1>2, <1>3, <2>1 DEF Flags
<1>10. /\ runner \in Runner /\ runner.by = w /\ runner.st = "working"
       /\ runner.steering = x.agent.steering /\ runner.followUps = left
  BY <1>1, <1>2, <1>8, <1>7 DEF Runner
<1> HIDE DEF flags, runner, left
<1>11. /\ y \in World /\ y.turn = z.turn /\ y.session = flags /\ y.agent = runner
       /\ y.msg = z.msg /\ y.abort = z.abort
  BY ONLY <1>4, <1>7, <1>9, <1>10 DEF World
<1>12. /\ y.turn[w].st = "running" /\ y.turn[w].parked = parked
       /\ \A u \in Turns \ {w} : y.turn[u] = x.turn[u]
  BY <1>1, <1>2, <1>5, <1>7, <1>11
<1>13. KindsKnown(y)
  BY <1>1, <1>12, Bounds DEF Base, KindsKnown
<1>14. RunKnown(y)
  <2>1. \A u \in Turns : x.turn[u].st # "running"
    BY <1>2, Bounds DEF Base, RunKnown
  <2> QED
    BY <1>1, <1>10, <1>11, <1>12, <2>1, Bounds DEF RunKnown
<1>15. AbortsKnown(y)
  <2>1. \A u \in Turns : x.turn[u].st # "off" => y.turn[u].st # "off"
    BY <1>12
  <2>2. \A k \in Aborts : x.abort[k].tasks \subseteq Turns
    BY <1>2, Fields, Bounds DEF Aborter
  <2> QED
    BY <1>1, <1>7, <1>10, <1>11, <2>1, <2>2, Bounds DEF Base, AbortsKnown
<1>16. Counted(y)
  <2>1. Holding(y) = Holding(x) \cup {w} /\ w \notin Holding(x)
    BY <1>1, <1>12 DEF Holding
  <2> QED
    BY <1>1, <1>2, <1>9, <1>11, <2>1, OneMore DEF Base
<1>17. Lifted(y)
  <2>1. StillLifted(x, y)
    BY <1>7, <1>9, <1>10, <1>11 DEF StillLifted
  <2> QED
    BY <1>2, <2>1, LiftedStays DEF Base
<1>18. Placed(y)
  <2>1. Placed(x) /\ x.turn[w].parked = <<>> /\ Parked(x, w) = {}
    BY <1>1, OfNone DEF Base, KindsKnown, Parked
  <2>2. y.agent.steering = x.agent.steering /\ y.agent.followUps = left /\ y.msg = x.msg
    BY <1>7, <1>10, <1>11
  <2>3. \A v \in Wakes \ {w} : y.turn[v] = x.turn[v] /\ Parked(y, v) = Parked(x, v)
    BY <1>12, Bounds DEF Parked
  <2>4. CASE parked = <<>> /\ left = x.agent.followUps
    <3>1. \A v \in Wakes : y.turn[v].parked = x.turn[v].parked
      BY <1>12, <2>1, <2>3, <2>4
    <3> QED
      BY <2>1, <2>2, <2>4, <3>1, PlacedStays DEF SameQueues
  <2>5. CASE parked = x.agent.followUps /\ left = <<>>
    <3>1. Parked(y, w) = ToSet(x.agent.followUps) /\ ToSet(y.agent.followUps) = {}
      BY <1>12, <2>2, <2>5, OfNone DEF Parked
    <3>2. /\ Queued(y) = ToSet(x.agent.steering)
          /\ Queued(x) = ToSet(x.agent.steering) \cup ToSet(x.agent.followUps)
      BY <2>2, <3>1 DEF Queued
    <3>3. \A v \in Wakes : IsInjective(y.turn[v].parked)
      BY <1>12, <2>1, <2>3, <2>5 DEF Placed
    <3>4. ASSUME NEW m \in Msgs
          PROVE  /\ y.msg[m].st = "queued" <=>
                       m \in Queued(y) \/ \E v \in Wakes : m \in Parked(y, v)
                 /\ ~(m \in ToSet(y.agent.steering) /\ m \in ToSet(y.agent.followUps))
                 /\ \A v \in Wakes : m \in Parked(y, v) =>
                       m \notin Queued(y) /\ \A u \in Wakes \ {v} : m \notin Parked(y, u)
      BY <1>1, <2>1, <2>2, <2>3, <3>1, <3>2 DEF Placed
    <3>5. IsInjective(y.agent.steering) /\ IsInjective(y.agent.followUps)
      BY <2>1, <2>2, <2>5, OfNone DEF Placed
    <3> QED
      BY <3>3, <3>4, <3>5 DEF Placed
  <2> QED
    BY <1>8, <2>4, <2>5
<1>19. Streaming(y) /\ Active(y, Turns) # {}
  BY <1>1, <1>10, <1>11, <1>12, Bounds DEF Streaming, Active
<1> QED
  BY <1>7, <1>9, <1>11, <1>13, <1>14, <1>15, <1>16, <1>17, <1>18, <1>19 DEF Base, Started

-----------------------------------------------------------------------------
\* The session settles.

\* The invariant but for the count.
Uncounted(x) == /\ x \in World /\ KindsKnown(x) /\ RunKnown(x) /\ AbortsKnown(x)
                /\ Placed(x) /\ Lifted(x)

\* Nothing changes but the flags.
Flagged(x, y, n) == /\ y \in World /\ y.turn = x.turn /\ y.session = n /\ y.agent = x.agent
                    /\ y.msg = x.msg /\ y.record = x.record /\ y.abort = x.abort
LEMMA FlagsKeep ==
    ASSUME NEW x, Uncounted(x), NEW n \in Flags, n.blocked => x.session.blocked,
           IsFiniteSet(Holding(x)), n.count <= Cardinality(Holding(x)),
           NEW y, y = [x EXCEPT !.session = n]
    PROVE  Base(y) /\ Flagged(x, y, n)
<1>1. x \in World
  BY DEF Uncounted
<1>2. /\ y \in World /\ y.turn = x.turn /\ y.session = n /\ y.agent = x.agent
      /\ y.msg = x.msg /\ y.record = x.record /\ y.abort = x.abort
  BY ONLY <1>1, n \in Flags, y = [x EXCEPT !.session = n] DEF World
<1>3. KindsKnown(y) /\ RunKnown(y) /\ AbortsKnown(y)
  BY <1>2 DEF Uncounted, KindsKnown, RunKnown, AbortsKnown
<1>4. Counted(y)
  <2>1. Holding(y) = Holding(x)
    BY <1>2 DEF Holding
  <2> QED
    BY <1>2, <2>1 DEF Counted
<1>5. Placed(y)
  BY <1>2, PlacedStays DEF Uncounted, SameQueues
<1>6. Lifted(y)
  BY <1>2 DEF Uncounted, Lifted
<1> QED
  BY <1>2, <1>3, <1>4, <1>5, <1>6 DEF Base, Flagged

\* What holds where a drain has had its turn.
Drained(x, y) == /\ Base(y) /\ Able(y) /\ y.abort = x.abort
                 /\ y.session.aborting = x.session.aborting
                 /\ AbortingKnown(x) => Good(y)

\* A drain that has started something.
LEMMA StartedDrains == ASSUME NEW x, NEW y, Started(x, y) PROVE Drained(x, y)
<1>1. AbortingKnown(x) => AbortingKnown(y)
  BY DEF Started, AbortingKnown, Under
<1> QED
  BY <1>1, Busy DEF Started, Drained, Able

\* At rest nothing runs, and nothing is counted.
LEMMA RestIsIdle == ASSUME NEW x, Base(x), Resting(x)
                    PROVE  x.session.count = 0 /\ x.agent.by = None /\ ~Streaming(x)
<1>1. x.session.count \in Nat /\ x.agent.by \in Turns \cup {None}
  <2>1. x.session \in Flags /\ x.agent \in Runner
    BY Fields DEF Base
  <2> QED
    BY <2>1 DEF Flags, Runner
<1>2. \A t \in Turns : x.turn[t].st \in {"off", "done"}
  BY DEF Resting, Active
<1>3. x.agent.by = None
  BY <1>1, <1>2 DEF Base, RunKnown
<1>4. x.session.count = 0
  <2>1. Holding(x) = {}
    BY <1>2 DEF Holding
  <2>2. x.session.count <= 0
    BY <2>1, FS_EmptySet DEF Base, Counted
  <2> QED
    BY <1>1, <2>2
<1> QED
  BY <1>3, <1>4 DEF Streaming

\* Nothing is started where nothing calls for it: a state at rest is settled.
LEMMA QuietSettles ==
    ASSUME NEW x, Base(x), NoCall(x), ~x.session.aborting, Resting(x),
           \A i \in Pending(x) : x.record[i] = "passed"
    PROVE  Settled(x)
<1>1. /\ x.session.suppressed \in BOOLEAN /\ x.agent.steering \in Seq(Msgs)
      /\ x.agent.tail \in {"assistant", "toolResult", "other"}
  <2>1. x.session \in Flags /\ x.agent \in Runner
    BY Fields DEF Base
  <2> QED
    BY <2>1 DEF Flags, Runner
<1>2. x.session.count = 0 /\ x.agent.by = None /\ ~Streaming(x)
  BY RestIsIdle
<1>3. HasQueued(x) => \/ x.session.blocked
                      \/ /\ x.agent.steering = <<>>
                         /\ x.session.suppressed \/ x.agent.tail = "other"
  BY <1>1, <1>2 DEF NoCall, CanAutoContinue
<1>4. \A m \in ToSet(x.agent.steering) : x.msg[m].from = "user" => x.msg[m].tried # "no"
  <2>1. CASE x.session.blocked
    BY <2>1 DEF Base, Lifted
  <2>2. CASE x.agent.steering = <<>>
    BY <2>2, OfNone
  <2> QED
    BY <1>3, <2>1, <2>2 DEF HasQueued
<1> QED
  BY <1>2, <1>3, <1>4 DEF Settled

\* Peer messages left behind go into a wake, or wait for the resume that is to come.
Stranded(x, y) ==
    \/ Started(x, y)
    \/ /\ Base(y) /\ y.turn = x.turn /\ y.session = x.session /\ y.agent = x.agent
       /\ y.msg = x.msg /\ y.abort = x.abort
       /\ Streaming(x) \/ \A i \in Pending(y) : y.record[i] = "passed"
LEMMA StrandedKeeps ==
    ASSUME NEW x, Base(x), Able(x), NEW y, y = ResumeStrandedIrcAsides(x)
    PROVE  Stranded(x, y)
<1>1. CASE Streaming(x) \/ Pending(x) = {}
  BY <1>1 DEF ResumeStrandedIrcAsides, Stranded
<1>2. CASE ~(Streaming(x) \/ Pending(x) = {}) /\ CanAutoContinue(x) /\ HasQueued(x)
  <2> DEFINE f == [i \in Records |-> IF i \in Pending(x) THEN "passed" ELSE x.record[i]]
  <2>1. x \in World /\ f \in [Records -> {"new", "pending", "passed", "seen"}]
    BY Fields DEF Base
  <2>2. y = [x EXCEPT !.record = f]
    BY <1>2 DEF ResumeStrandedIrcAsides
  <2>3. \A i \in Records : f[i] \in {"pending", "passed"} => f[i] = "passed"
    BY DEF Pending
  <2> HIDE DEF f
  <2>4. Noted(x, y) /\ y.record = f
    BY <2>1, <2>2, NotedIs
  <2>5. \A i \in Pending(y) : y.record[i] = "passed"
    BY <2>3, <2>4 DEF Pending
  <2> QED
    BY <2>4, <2>5, NotedKeeps DEF Noted, Stranded
<1>3. CASE ~(Streaming(x) \/ Pending(x) = {}) /\ ~(CanAutoContinue(x) /\ HasQueued(x))
  <2>1. y = WakeFor(x, Pending(x))
    BY <1>3 DEF ResumeStrandedIrcAsides
  <2>2. Room(x)
    BY <1>3 DEF Able
  <2> QED
    BY <1>3, <2>1, <2>2, WakeKeeps DEF Stranded
<1> QED
  BY <1>1, <1>2, <1>3

\* The drain of what is left behind.
LEMMA DrainKeeps ==
    ASSUME NEW x, Base(x), Able(x), NEW y, y = DrainStranded(x)
    PROVE  Drained(x, y)
<1>1. CASE x.session.aborting
  <2>1. y = x
    BY <1>1 DEF DrainStranded
  <2>2. AbortingKnown(x) => Good(x)
    BY <1>1, Busy DEF AbortingKnown
  <2> QED
    BY <2>1, <2>2 DEF Drained
<1>2. CASE ~x.session.aborting
  <2> DEFINE z == ScheduleDrain(x)
  <2>1. y = ResumeStrandedIrcAsides(z)
    BY <1>2 DEF DrainStranded
  <2>2. (z = x /\ NoCall(x)) \/ Started(x, z)
    BY ScheduleKeeps
  <2> HIDE DEF z
  <2>3. CASE Started(x, z)
    <3>1. y = z
      BY <2>1, <2>3 DEF Started, ResumeStrandedIrcAsides
    <3> QED
      BY <2>3, <3>1, StartedDrains
  <2>4. CASE z = x /\ NoCall(x)
    <3>1. Stranded(x, y)
      BY <2>1, <2>4, StrandedKeeps
    <3>2. CASE Started(x, y)
      BY <3>2, StartedDrains
    <3>3. CASE ~Started(x, y)
      <4>1. /\ Base(y) /\ y.turn = x.turn /\ y.session = x.session /\ y.agent = x.agent
            /\ y.msg = x.msg /\ y.abort = x.abort
            /\ Streaming(x) \/ \A i \in Pending(y) : y.record[i] = "passed"
        BY <3>1, <3>3 DEF Stranded
      <4>2. Able(y) /\ NoCall(y) /\ (Streaming(y) <=> Streaming(x)) /\ AbortingKnown(y)
        BY <1>2, <2>4, <4>1 DEF Able, Room, Streaming, NoCall, CanAutoContinue, HasQueued,
                                AbortingKnown
      <4>3. ASSUME Resting(y) PROVE Settled(y)
        <5>1. ~Streaming(y)
          BY <4>1, <4>3, RestIsIdle
        <5> QED
          BY <1>2, <4>1, <4>2, <4>3, <5>1, QuietSettles
      <4> QED
        BY <4>1, <4>2, <4>3 DEF Drained, Good
    <3> QED
      BY <3>2, <3>3
  <2> QED
    BY <2>2, <2>3, <2>4
<1> QED
  BY <1>1, <1>2

\* Nothing is in flight any more: observers hear it, or the drain has its turn.
LEMMA SettleKeeps ==
    ASSUME NEW x, Base(x), Able(x), NEW y, y = Settle(x)
    PROVE  Drained(x, y)
<1>1. CASE ~x.session.observers
  BY <1>1, DrainKeeps DEF Settle
<1>2. CASE x.session.observers
  <2> DEFINE later == x.session.settling + 1
             n == [x.session EXCEPT !.observers = FALSE, !.settling = later]
  <2>1. x \in World /\ x.session \in Flags
    BY Fields DEF Base
  <2>2. y = [x EXCEPT !.session = n]
    BY <1>2, <2>1 DEF Settle, World
  <2>3. /\ n \in Flags /\ n.count = x.session.count /\ n.settling # 0
        /\ n.aborting = x.session.aborting /\ n.blocked = x.session.blocked
    <3>1. later \in Nat /\ later # 0
      BY <2>1 DEF Flags
    <3> HIDE DEF later
    <3> QED
      BY <2>1, <3>1 DEF Flags
  <2> HIDE DEF n
  <2>4. Uncounted(x) /\ IsFiniteSet(Holding(x)) /\ n.count <= Cardinality(Holding(x))
    BY <2>3 DEF Base, Uncounted, Counted
  <2>5. Base(y) /\ Flagged(x, y, n)
    BY <2>2, <2>3, <2>4, FlagsKeep
  <2>6. /\ y.turn = x.turn /\ y.abort = x.abort /\ y.agent = x.agent /\ y.session = n
    BY <2>5 DEF Flagged
  <2>7. Able(y) /\ (AbortingKnown(x) => AbortingKnown(y))
    BY <2>3, <2>6 DEF Able, Room, Streaming, AbortingKnown, Under
  <2>8. AbortingKnown(x) => Good(y)
    BY <2>3, <2>5, <2>6, <2>7, Busy
  <2> QED
    BY <2>3, <2>5, <2>6, <2>7, <2>8 DEF Drained
<1> QED
  BY <1>1, <1>2

\* A turn that is over leaves the count.
LEMMA EndKeeps ==
    ASSUME NEW x, Uncounted(x), OverCounted(x), Room(x), NEW y, y = EndInFlight(x)
    PROVE  Drained(x, y)
<1> DEFINE n == IF x.session.count = 0 THEN 0 ELSE x.session.count - 1
           flags == [x.session EXCEPT !.count = n]
           z == [x EXCEPT !.session = flags]
<1>1. x \in World /\ x.session \in Flags /\ x.session.count \in Nat
  <2>1. x \in World /\ x.session \in Flags
    BY Fields DEF Uncounted
  <2> QED
    BY <2>1 DEF Flags
<1>2. y = IF n = 0 THEN Settle(z) ELSE z
  BY DEF EndInFlight
<1>3. /\ n \in Nat /\ IsFiniteSet(Holding(x)) /\ Cardinality(Holding(x)) \in Nat
      /\ n <= Cardinality(Holding(x))
  <2>1. IsFiniteSet(Holding(x)) /\ Cardinality(Holding(x)) \in Nat
    BY FS_CardinalityType DEF OverCounted
  <2> QED
    BY <1>1, <2>1 DEF OverCounted
<1> HIDE DEF n
<1>4. /\ flags \in Flags /\ flags.count = n /\ flags.aborting = x.session.aborting
      /\ flags.blocked = x.session.blocked
  BY <1>1, <1>3 DEF Flags
<1> HIDE DEF flags
<1>5. Base(z) /\ Flagged(x, z, flags)
  BY <1>3, <1>4, FlagsKeep
<1> HIDE DEF z
<1>6. z.turn = x.turn /\ z.abort = x.abort /\ z.session = flags
  BY <1>5 DEF Flagged
<1>7. Able(z) /\ (AbortingKnown(x) <=> AbortingKnown(z))
  BY <1>4, <1>6 DEF Able, Room, AbortingKnown, Under
<1>8. CASE n = 0
  <2>1. Drained(z, y)
    BY <1>2, <1>5, <1>7, <1>8, SettleKeeps
  <2> QED
    BY <1>4, <1>6, <1>7, <2>1 DEF Drained
<1>9. CASE n # 0
  <2>1. Holding(z) # {}
    <3>1. Holding(z) = Holding(x)
      BY <1>6 DEF Holding
    <3>2. Holding(x) # {}
      BY <1>3, <1>9, FS_EmptySet
    <3> QED
      BY <3>1, <3>2
  <2>2. Active(z, Turns) # {}
    BY <2>1 DEF Holding, Active
  <2>3. AbortingKnown(x) => Good(z)
    BY <1>5, <1>7, <2>2, Busy
  <2> QED
    BY <1>2, <1>4, <1>5, <1>6, <1>7, <1>9, <2>3 DEF Drained
<1> QED
  BY <1>8, <1>9

\* An abort forgets what was in flight.
LEMMA ResetKeeps ==
    ASSUME NEW x, Base(x), Room(x), NEW y, y = ResetInFlight(x)
    PROVE  Drained(x, y)
<1> DEFINE flags == [x.session EXCEPT !.count = 0]
           z == [x EXCEPT !.session = flags]
<1>1. x \in World /\ x.session \in Flags
  BY Fields DEF Base
<1>2. y = Settle(z)
  BY DEF ResetInFlight
<1>3. /\ flags \in Flags /\ flags.count = 0 /\ flags.aborting = x.session.aborting
      /\ flags.blocked = x.session.blocked
  BY <1>1 DEF Flags
<1> HIDE DEF flags
<1>4. Uncounted(x) /\ IsFiniteSet(Holding(x)) /\ flags.count <= Cardinality(Holding(x))
  <2>1. IsFiniteSet(Holding(x)) /\ Cardinality(Holding(x)) \in Nat
    BY FS_CardinalityType DEF Base, Counted
  <2> QED
    BY <1>3, <2>1 DEF Base, Uncounted
<1>5. Base(z) /\ Flagged(x, z, flags)
  BY <1>3, <1>4, FlagsKeep
<1> HIDE DEF z
<1>6. z.turn = x.turn /\ z.abort = x.abort /\ z.session = flags
  BY <1>5 DEF Flagged
<1>7. Able(z) /\ (AbortingKnown(x) <=> AbortingKnown(z))
  BY <1>3, <1>6 DEF Able, Room, AbortingKnown, Under
<1>8. Drained(z, y)
  BY <1>2, <1>5, <1>7, SettleKeeps
<1> QED
  BY <1>3, <1>6, <1>7, <1>8 DEF Drained

-----------------------------------------------------------------------------
\* Turns that end.

\* A turn that is no wake ends; aborts that waited for it have it off their list.
LEMMA TurnOver ==
    ASSUME NEW x, Base(x), Room(x), NEW t \in Turns \ Wakes,
           x.turn[t].st \notin {"off", "asked", "done", "running"},
           NEW r \in Holder, (t \in Prompts /\ r.st = "done") \/ (t \in Resumes /\ r.st = "off"),
           NEW z, z \in World, z.turn = [x.turn EXCEPT ![t] = r], z.session = x.session,
           z.agent = x.agent, z.msg = x.msg,
           \A k \in Aborts : /\ z.abort[k].tasks \subseteq x.abort[k].tasks \ {t}
                             /\ z.abort[k].st = x.abort[k].st
                             /\ z.abort[k].waits = x.abort[k].waits
    PROVE  /\ Uncounted(z) /\ OverCounted(z) /\ Room(z)
           /\ AbortingKnown(x) => AbortingKnown(z)
<1>1. /\ x \in World /\ x.turn \in [Turns -> Holder] /\ x.session.count \in Nat
      /\ x.agent.steering \in Seq(Msgs)
  <2>1. x \in World /\ x.turn \in [Turns -> Holder] /\ x.session \in Flags /\ x.agent \in Runner
    BY Fields DEF Base
  <2> QED
    BY <2>1 DEF Flags, Runner
<1>2. z.turn[t] = r /\ \A u \in Turns \ {t} : z.turn[u] = x.turn[u]
  BY <1>1
<1>3. KindsKnown(z)
  <2>1. \A w \in Wakes : z.turn[w] = x.turn[w]
    BY <1>2, Bounds
  <2>2. \A p \in Prompts : z.turn[p].st \notin {"preflight", "ending"}
    BY <1>2, Bounds DEF Base, KindsKnown
  <2>3. \A u \in Resumes : z.turn[u].st \in {"off", "preflight", "running", "ending"}
    BY <1>2, Bounds DEF Base, KindsKnown
  <2> QED
    BY <2>1, <2>2, <2>3 DEF Base, KindsKnown
<1>4. RunKnown(z)
  BY <1>2 DEF Base, RunKnown
<1>5. AbortsKnown(z)
  <2>1. \A k \in Aborts : x.abort[k].tasks \subseteq Turns
    BY <1>1, Fields, Bounds DEF Aborter
  <2> QED
    BY <1>2, <2>1 DEF Base, AbortsKnown
<1>6. OverCounted(z)
  <2>1. Holding(z) = Holding(x) \ {t} /\ t \in Holding(x)
    BY <1>2 DEF Holding
  <2> QED
    BY <1>1, <2>1, OneLess DEF Base
<1>7. Placed(z) /\ Lifted(z)
  <2>1. \A w \in Wakes : z.turn[w].parked = x.turn[w].parked
    BY <1>2, Bounds
  <2>2. SameQueues(x, z) /\ StillLifted(x, z)
    BY DEF SameQueues, StillLifted
  <2> QED
    BY <1>1, <2>1, <2>2, PlacedStays, LiftedStays DEF Base
<1>8. Room(z)
  <2>1. \A u \in Turns : x.turn[u].st = "off" => z.turn[u].st = "off"
    BY <1>2
  <2> QED
    BY <2>1, Bounds DEF Room
<1>9. AbortingKnown(x) => AbortingKnown(z)
  BY DEF AbortingKnown, Under
<1> QED
  BY <1>3, <1>4, <1>5, <1>6, <1>7, <1>8, <1>9 DEF Uncounted

\* A prompt returns.
LEMMA EndPromptKeeps ==
    ASSUME NEW x, Base(x), AbortingKnown(x), Room(x), NEW p \in Prompts,
           x.turn[p].st \in {"setup", "built", "waiting", "recovery"}, NEW y, y = EndPrompt(x, p)
    PROVE  Good(y)
<1> DEFINE r == [Off EXCEPT !.st = "done"]
           f == [x.turn EXCEPT ![p] = r]
           z == [x EXCEPT !.turn = f]
<1>1. x \in World /\ p \in Turns \ Wakes /\ y = EndInFlight(z)
  BY Bounds DEF Base, EndPrompt
<1>2. r \in Holder /\ r.st = "done"
  BY OfNone DEF Off, Holder, TurnStates
<1> HIDE DEF r
<1>3. f \in [Turns -> Holder]
  BY <1>1, <1>2, Fields
<1>4. /\ z \in World /\ z.turn = f /\ z.session = x.session /\ z.agent = x.agent
      /\ z.msg = x.msg /\ z.abort = x.abort
  <2> HIDE DEF f
  <2> QED
    BY ONLY <1>1, <1>3 DEF World
<1> HIDE DEF z
<1>5. \A k \in Aborts : p \notin x.abort[k].tasks
  BY <1>1, Fields, Bounds DEF Aborter
<1>6. /\ Uncounted(z) /\ OverCounted(z) /\ Room(z) /\ AbortingKnown(z)
  BY <1>1, <1>2, <1>4, <1>5, TurnOver
<1> QED
  BY <1>1, <1>6, EndKeeps DEF Drained

\* A resume is over; it leaves the tasks that aborts wait for.
LEMMA EndResumeKeeps ==
    ASSUME NEW x, Base(x), AbortingKnown(x), Room(x), NEW r \in Resumes,
           x.turn[r].st \in {"preflight", "ending"}, NEW y, y = EndResume(x, r)
    PROVE  Good(y)
<1> DEFINE f == [x.turn EXCEPT ![r] = Off]
           g == [k \in Aborts |-> [x.abort[k] EXCEPT !.tasks = @ \ {r}]]
           z == [x EXCEPT !.turn = f, !.abort = g]
<1>1. x \in World /\ r \in Turns \ Wakes /\ y = EndInFlight(z)
  BY Bounds DEF Base, EndResume
<1>2. Off \in Holder /\ Off.st = "off"
  BY OfNone DEF Off, Holder, TurnStates
<1>3. f \in [Turns -> Holder]
  BY <1>1, <1>2, Fields
<1>4. /\ g \in [Aborts -> Aborter]
      /\ \A k \in Aborts : /\ g[k].tasks = x.abort[k].tasks \ {r} /\ g[k].st = x.abort[k].st
                           /\ g[k].waits = x.abort[k].waits
  <2>1. ASSUME NEW k \in Aborts
        PROVE  /\ g[k] \in Aborter /\ g[k].tasks = x.abort[k].tasks \ {r}
               /\ g[k].st = x.abort[k].st /\ g[k].waits = x.abort[k].waits
    <3>1. x.abort[k] \in Aborter /\ g[k] = [x.abort[k] EXCEPT !.tasks = @ \ {r}]
      BY <1>1, Fields
    <3> QED
      BY ONLY <3>1 DEF Aborter
  <2> QED
    BY <2>1
<1> HIDE DEF g
<1>5. /\ z \in World /\ z.turn = f /\ z.session = x.session /\ z.agent = x.agent
      /\ z.msg = x.msg /\ z.abort = g
  <2> HIDE DEF f
  <2> QED
    BY ONLY <1>1, <1>3, <1>4 DEF World
<1> HIDE DEF z
<1>6. Uncounted(z) /\ OverCounted(z) /\ Room(z) /\ AbortingKnown(z)
  BY <1>1, <1>2, <1>4, <1>5, TurnOver
<1> QED
  BY <1>1, <1>6, EndKeeps DEF Drained

\* A wake is over: what it set aside is in front of the follow-ups again, and so is the
\* block it had lifted.
LEMMA EndWakeKeeps ==
    ASSUME NEW x, Base(x), AbortingKnown(x), Room(x), NEW w \in Wakes,
           x.turn[w].st = "recovery", NEW y, y = EndWake(x, w)
    PROVE  Good(y)
<1> DEFINE back == x.turn[w].parked
           v == IF x.turn[w].block /\ ~x.session.blocked THEN Mark(x, "overruled") ELSE x
           f == [v.turn EXCEPT ![w] = Off]
           n == [v.session EXCEPT !.observers = TRUE, !.blocked = @ \/ x.turn[w].block]
           a == [v.agent EXCEPT !.followUps = back \o @]
           z == [v EXCEPT !.turn = f, !.session = n, !.agent = a]
<1>1. /\ x \in World /\ x.turn[w] \in Holder /\ w \in Turns /\ back \in Seq(Msgs)
      /\ x.turn[w].block \in BOOLEAN
  <2>1. x \in World /\ x.turn \in [Turns -> Holder] /\ w \in Turns
    BY Fields, Bounds DEF Base
  <2> QED
    BY <2>1 DEF Holder
<1>2. /\ Base(v) /\ v \in World /\ v.turn = x.turn /\ v.session = x.session
      /\ v.agent = x.agent /\ v.abort = x.abort
      /\ x.turn[w].block /\ ~x.session.blocked =>
            \A m \in ToSet(v.agent.steering) : v.msg[m].tried # "no"
  <2>1. CASE x.turn[w].block /\ ~x.session.blocked
    <3>1. v = Mark(x, "overruled")
      BY <2>1
    <3> HIDE DEF v
    <3> QED
      BY <1>1, <3>1, MarkIs, MarkKeeps DEF Marked
  <2>2. CASE ~(x.turn[w].block /\ ~x.session.blocked)
    BY <1>1, <2>2
  <2> QED
    BY <2>1, <2>2
<1>3. y = EndInFlight(z)
  BY DEF EndWake
<1> HIDE DEF v
<1>4. /\ v.turn \in [Turns -> Holder] /\ v.session \in Flags /\ v.session.count \in Nat
      /\ v.agent \in Runner /\ v.agent.steering \in Seq(Msgs) /\ v.agent.followUps \in Seq(Msgs)
  <2>1. v.turn \in [Turns -> Holder] /\ v.session \in Flags /\ v.agent \in Runner
    BY <1>2, Fields
  <2> QED
    BY <2>1 DEF Flags, Runner
<1>5. f \in [Turns -> Holder] /\ f[w] = Off /\ \A u \in Turns \ {w} : f[u] = v.turn[u]
  <2>1. Off \in Holder
    BY OfNone DEF Off, Holder, TurnStates
  <2> QED
    BY <1>1, <1>4, <2>1
<1>6. /\ n \in Flags /\ n.count = v.session.count /\ n.aborting = v.session.aborting
      /\ n.blocked => v.session.blocked \/ x.turn[w].block
  BY <1>1, <1>4 DEF Flags
<1> HIDE DEF back
<1>7. /\ back \o v.agent.followUps \in Seq(Msgs)
      /\ ToSet(back \o v.agent.followUps) = ToSet(back) \cup ToSet(v.agent.followUps)
      /\ IsInjective(back) /\ IsInjective(v.agent.followUps)
         /\ ToSet(back) \cap ToSet(v.agent.followUps) = {}
         => IsInjective(back \o v.agent.followUps)
  BY <1>1, <1>4, Concatenated
<1>8. /\ a \in Runner /\ a.by = v.agent.by /\ a.st = v.agent.st
      /\ a.steering = v.agent.steering /\ a.followUps = back \o v.agent.followUps
  BY <1>4, <1>7 DEF Runner
<1> HIDE DEF f, n, a
<1>9. /\ z \in World /\ z.turn = f /\ z.session = n /\ z.agent = a /\ z.msg = v.msg
      /\ z.abort = v.abort
  BY ONLY <1>2, <1>5, <1>6, <1>8 DEF World
<1> HIDE DEF z
<1>10. Off.st = "off" /\ Off.parked = <<>>
  BY DEF Off
<1>11. KindsKnown(z)
  <2>1. \A p \in Prompts \cup Resumes : z.turn[p] = v.turn[p]
    BY <1>5, <1>9, Bounds
  <2>2. \A u \in Wakes \ {w} : z.turn[u] = v.turn[u]
    BY <1>5, <1>9, Bounds
  <2> QED
    BY <1>2, <1>5, <1>9, <1>10, <2>1, <2>2 DEF Base, KindsKnown
<1>12. RunKnown(z)
  BY <1>2, <1>5, <1>8, <1>9, <1>10 DEF Base, RunKnown
<1>13. AbortsKnown(z)
  <2>1. \A k \in Aborts : v.abort[k].tasks \subseteq Resumes
    BY <1>2, Fields DEF Aborter
  <2>2. \A r \in Resumes : z.turn[r] = v.turn[r]
    BY <1>5, <1>9, Bounds
  <2> QED
    BY <1>2, <1>8, <1>9, <2>1, <2>2 DEF Base, AbortsKnown
<1>14. OverCounted(z)
  <2>1. Holding(z) = Holding(v) \ {w} /\ w \in Holding(v)
    BY <1>1, <1>2, <1>5, <1>9, <1>10 DEF Holding
  <2> QED
    BY <1>2, <1>4, <1>6, <1>9, <2>1, OneLess DEF Base
<1>15. Lifted(z)
  <2>1. SUFFICES ASSUME z.session.blocked, NEW m \in ToSet(z.agent.steering),
                        z.msg[m].from = "user"
                 PROVE  z.msg[m].tried # "no"
    BY DEF Lifted
  <2>2. CASE v.session.blocked
    BY <1>2, <1>8, <1>9, <2>1, <2>2 DEF Base, Lifted
  <2>3. CASE ~v.session.blocked
    BY <1>2, <1>6, <1>8, <1>9, <2>1, <2>3
  <2> QED
    BY <2>2, <2>3
<1>16. Placed(z)
  <2>1. /\ Parked(v, w) = ToSet(back) /\ Parked(z, w) = {} /\ z.turn[w].parked = <<>>
        /\ \A u \in Wakes \ {w} : z.turn[u] = v.turn[u] /\ Parked(z, u) = Parked(v, u)
    BY <1>2, <1>5, <1>9, <1>10, Bounds, OfNone DEF Parked, back
  <2>2. /\ ToSet(v.agent.followUps) \subseteq Queued(v) /\ ToSet(back) \subseteq Msgs
        /\ ToSet(v.agent.steering) \subseteq Queued(v)
    BY <1>1, SetOf DEF Queued
  <2>3. /\ z.agent.steering = v.agent.steering /\ z.msg = v.msg
        /\ z.agent.followUps = back \o v.agent.followUps
    BY <1>8, <1>9
  <2>4. ToSet(z.agent.followUps) = ToSet(back) \cup ToSet(v.agent.followUps)
    BY <1>7, <2>3
  <2>5. Queued(z) = Queued(v) \cup ToSet(back)
    BY <2>3, <2>4 DEF Queued
  <2>6. /\ IsInjective(v.agent.steering) /\ IsInjective(v.agent.followUps) /\ IsInjective(back)
        /\ \A u \in Wakes : IsInjective(z.turn[u].parked)
        /\ ToSet(back) \cap ToSet(v.agent.followUps) = {}
        /\ ToSet(back) \cap ToSet(v.agent.steering) = {}
    BY <1>2, <2>1, <2>2, OfNone DEF Base, Placed, back
  <2>7. ASSUME NEW m \in Msgs
        PROVE  /\ z.msg[m].st = "queued" <=>
                     m \in Queued(z) \/ \E u \in Wakes : m \in Parked(z, u)
               /\ ~(m \in ToSet(z.agent.steering) /\ m \in ToSet(z.agent.followUps))
               /\ \A u \in Wakes : m \in Parked(z, u) =>
                     m \notin Queued(z) /\ \A s \in Wakes \ {u} : m \notin Parked(z, s)
    <3>1. /\ v.msg[m].st = "queued" <=>
                m \in Queued(v) \/ \E u \in Wakes : m \in Parked(v, u)
          /\ ~(m \in ToSet(v.agent.steering) /\ m \in ToSet(v.agent.followUps))
          /\ \A u \in Wakes : m \in Parked(v, u) =>
                m \notin Queued(v) /\ \A s \in Wakes \ {u} : m \notin Parked(v, s)
      BY <1>2 DEF Base, Placed
    <3>2. z.msg[m].st = "queued" <=>
             m \in Queued(z) \/ \E u \in Wakes : m \in Parked(z, u)
      BY <2>1, <2>3, <2>5, <3>1
    <3>3. ~(m \in ToSet(z.agent.steering) /\ m \in ToSet(z.agent.followUps))
      BY <2>3, <2>4, <2>6, <3>1
    <3>4. \A u \in Wakes : m \in Parked(z, u) =>
             m \notin Queued(z) /\ \A s \in Wakes \ {u} : m \notin Parked(z, s)
      BY <2>1, <2>5, <3>1
    <3> QED
      BY <3>2, <3>3, <3>4
  <2>8. IsInjective(z.agent.steering) /\ IsInjective(z.agent.followUps)
    BY <1>7, <2>3, <2>6
  <2> QED
    BY <2>6, <2>7, <2>8 DEF Placed
<1>17. Room(z) /\ AbortingKnown(z)
  <2>1. \A u \in Turns : x.turn[u].st = "off" => z.turn[u].st = "off"
    BY <1>2, <1>5, <1>9, <1>10
  <2>2. Room(z)
    BY <2>1, Bounds DEF Room
  <2>3. AbortingKnown(z)
    BY <1>2, <1>6, <1>9 DEF AbortingKnown, Under
  <2> QED
    BY <2>2, <2>3
<1>18. Uncounted(z)
  BY <1>9, <1>11, <1>12, <1>13, <1>15, <1>16 DEF Uncounted
<1> QED
  BY <1>3, <1>14, <1>17, <1>18, EndKeeps DEF Drained

-----------------------------------------------------------------------------
\* The run of the agent.

\* The run is over; its turn is not.
LEMMA RunOverKeeps ==
    ASSUME NEW x, Base(x), AbortingKnown(x), x.agent.by # None,
           NEW tail \in {"assistant", "toolResult"}, NEW y, y = RunOver(x, tail)
    PROVE  Good(y)
<1> DEFINE t == x.agent.by
           s == IF t \in Resumes THEN "ending" ELSE "recovery"
           h == [x.turn[t] EXCEPT !.st = s]
           f == [x.turn EXCEPT ![t] = h]
           a == [x.agent EXCEPT !.by = None, !.st = "idle", !.cut = FALSE, !.tail = tail]
           g == [k \in Aborts |-> [x.abort[k] EXCEPT !.waits = FALSE]]
<1>1. /\ x \in World /\ x.turn \in [Turns -> Holder] /\ x.agent \in Runner
      /\ x.agent.steering \in Seq(Msgs) /\ t \in Turns /\ x.turn[t] \in Holder
      /\ x.turn[t].st = "running"
  <2>1. x \in World /\ x.turn \in [Turns -> Holder] /\ x.agent \in Runner
    BY Fields DEF Base
  <2>2. t \in Turns /\ x.agent.steering \in Seq(Msgs)
    BY <2>1 DEF Runner
  <2> QED
    BY <2>1, <2>2 DEF Base, RunKnown
<1>2. y = [x EXCEPT !.turn = f, !.agent = a, !.abort = g]
  BY DEF RunOver
<1>3. s \in {"ending", "recovery"} /\ (s = "ending" <=> t \in Resumes)
  OBVIOUS
<1> HIDE DEF s, t
<1>4. h \in Holder /\ h.st = s /\ h.parked = x.turn[t].parked
  BY <1>1, <1>3 DEF Holder, TurnStates
<1> HIDE DEF h
<1>5. f \in [Turns -> Holder] /\ f[t] = h /\ \A u \in Turns \ {t} : f[u] = x.turn[u]
  BY <1>1, <1>4
<1>6. /\ a \in Runner /\ a.by = None /\ a.st = "idle" /\ a.steering = x.agent.steering
      /\ a.followUps = x.agent.followUps
  BY <1>1 DEF Runner
<1>7. /\ g \in [Aborts -> Aborter]
      /\ \A k \in Aborts : g[k].tasks = x.abort[k].tasks /\ g[k].st = x.abort[k].st /\ ~g[k].waits
  <2>1. ASSUME NEW k \in Aborts
        PROVE  /\ g[k] \in Aborter /\ g[k].tasks = x.abort[k].tasks
               /\ g[k].st = x.abort[k].st /\ ~g[k].waits
    <3>1. x.abort[k] \in Aborter /\ g[k] = [x.abort[k] EXCEPT !.waits = FALSE]
      BY <1>1, Fields
    <3> QED
      BY ONLY <3>1 DEF Aborter
  <2> QED
    BY <2>1
<1> HIDE DEF f, a, g
<1>8. /\ y \in World /\ y.turn = f /\ y.session = x.session /\ y.agent = a
      /\ y.msg = x.msg /\ y.abort = g
  BY ONLY <1>1, <1>2, <1>5, <1>6, <1>7 DEF World
<1>9. KindsKnown(y)
  <2>1. \A u \in Turns \ {t} : y.turn[u] = x.turn[u]
    BY <1>5, <1>8
  <2>2. y.turn[t].st = s /\ y.turn[t].parked = x.turn[t].parked
    BY <1>4, <1>5, <1>8
  <2> QED
    BY <1>1, <1>3, <2>1, <2>2, Bounds DEF Base, KindsKnown
<1>10. RunKnown(y)
  <2>1. \A u \in Turns \ {t} : x.turn[u].st # "running"
    BY DEF Base, RunKnown, t
  <2> QED
    BY <1>3, <1>4, <1>5, <1>6, <1>8, <2>1, Bounds DEF RunKnown
<1>11. AbortsKnown(y)
  <2>1. \A k \in Aborts : x.abort[k].tasks \subseteq Turns
    BY <1>1, Fields, Bounds DEF Aborter
  <2>2. \A u \in Turns : x.turn[u].st # "off" => y.turn[u].st # "off"
    BY <1>3, <1>4, <1>5, <1>8
  <2> QED
    BY <1>7, <1>8, <2>1, <2>2 DEF Base, AbortsKnown
<1>12. Counted(y)
  <2>1. Holding(y) = Holding(x)
    BY <1>1, <1>3, <1>4, <1>5, <1>8 DEF Holding
  <2> QED
    BY <1>8, <2>1 DEF Base, Counted
<1>13. Placed(y) /\ Lifted(y)
  <2>1. \A w \in Wakes : y.turn[w].parked = x.turn[w].parked
    BY <1>4, <1>5, <1>8, Bounds
  <2>2. SameQueues(x, y) /\ StillLifted(x, y)
    BY <1>6, <1>8 DEF SameQueues, StillLifted
  <2> QED
    BY <1>1, <2>1, <2>2, PlacedStays, LiftedStays DEF Base
<1>14. AbortingKnown(y) /\ Active(y, Turns) # {}
  <2>1. AbortingKnown(y)
    BY <1>7, <1>8 DEF AbortingKnown, Under
  <2>2. t \in Active(y, Turns)
    BY <1>1, <1>3, <1>4, <1>5, <1>8 DEF Active
  <2> QED
    BY <2>1, <2>2
<1> QED
  BY <1>8, <1>9, <1>10, <1>11, <1>12, <1>13, <1>14, Busy DEF Base

\* A prompt or a resume has the agent.
LEMMA StartRunKeeps ==
    ASSUME NEW x, Base(x), AbortingKnown(x), x.agent.by = None, NEW t \in Prompts \cup Resumes,
           x.turn[t].st \notin {"off", "asked", "done"}, NEW st \in {"claimed", "working"},
           NEW y, y = StartRun(x, t, st)
    PROVE  Good(y)
<1> DEFINE h == [x.turn[t] EXCEPT !.st = "running"]
           f == [x.turn EXCEPT ![t] = h]
           a == [x.agent EXCEPT !.by = t, !.st = st, !.cut = FALSE]
<1>1. /\ x \in World /\ x.turn \in [Turns -> Holder] /\ x.agent \in Runner
      /\ x.agent.steering \in Seq(Msgs) /\ t \in Turns \ Wakes /\ x.turn[t] \in Holder
  <2>1. x \in World /\ x.turn \in [Turns -> Holder] /\ x.agent \in Runner /\ t \in Turns \ Wakes
    BY Fields, Bounds DEF Base
  <2> QED
    BY <2>1 DEF Runner
<1>2. y = [x EXCEPT !.turn = f, !.agent = a]
  BY DEF StartRun, World
<1>3. h \in Holder /\ h.st = "running" /\ h.parked = x.turn[t].parked
  BY <1>1 DEF Holder, TurnStates
<1> HIDE DEF h
<1>4. f \in [Turns -> Holder] /\ f[t] = h /\ \A u \in Turns \ {t} : f[u] = x.turn[u]
  BY <1>1, <1>3
<1>5. /\ a \in Runner /\ a.by = t /\ a.st # "idle" /\ a.steering = x.agent.steering
      /\ a.followUps = x.agent.followUps
  BY <1>1 DEF Runner
<1> HIDE DEF f, a
<1>6. /\ y \in World /\ y.turn = f /\ y.session = x.session /\ y.agent = a
      /\ y.msg = x.msg /\ y.abort = x.abort
  BY ONLY <1>1, <1>2, <1>4, <1>5 DEF World
<1>7. KindsKnown(y)
  <2>1. \A u \in Turns \ {t} : y.turn[u] = x.turn[u]
    BY <1>4, <1>6
  <2>2. y.turn[t].st = "running" /\ y.turn[t].parked = x.turn[t].parked
    BY <1>3, <1>4, <1>6
  <2> QED
    BY <1>1, <2>1, <2>2, Bounds DEF Base, KindsKnown
<1>8. RunKnown(y)
  <2>1. \A u \in Turns : x.turn[u].st # "running"
    BY Bounds DEF Base, RunKnown
  <2> QED
    BY <1>1, <1>3, <1>4, <1>5, <1>6, <2>1, Bounds DEF RunKnown
<1>9. AbortsKnown(y)
  <2>1. \A k \in Aborts : x.abort[k].tasks \subseteq Turns
    BY <1>1, Fields, Bounds DEF Aborter
  <2>2. \A u \in Turns : x.turn[u].st # "off" => y.turn[u].st # "off"
    BY <1>3, <1>4, <1>6
  <2> QED
    BY <1>1, <1>5, <1>6, <2>1, <2>2, Bounds DEF Base, AbortsKnown
<1>10. Counted(y)
  <2>1. Holding(y) = Holding(x)
    BY <1>1, <1>3, <1>4, <1>6 DEF Holding
  <2> QED
    BY <1>6, <2>1 DEF Base, Counted
<1>11. Placed(y) /\ Lifted(y)
  <2>1. \A w \in Wakes : y.turn[w].parked = x.turn[w].parked
    BY <1>1, <1>4, <1>6, Bounds
  <2>2. SameQueues(x, y) /\ StillLifted(x, y)
    BY <1>5, <1>6 DEF SameQueues, StillLifted
  <2> QED
    BY <1>1, <2>1, <2>2, PlacedStays, LiftedStays DEF Base
<1>12. AbortingKnown(y) /\ Active(y, Turns) # {}
  <2>1. AbortingKnown(y)
    BY <1>6 DEF AbortingKnown, Under
  <2>2. t \in Active(y, Turns)
    BY <1>1, <1>3, <1>4, <1>6 DEF Active
  <2> QED
    BY <2>1, <2>2
<1> QED
  BY <1>6, <1>7, <1>8, <1>9, <1>10, <1>11, <1>12, Busy DEF Base

-----------------------------------------------------------------------------
\* What enters and leaves the queues.

\* The oldest message of a queue, and the rest.
LEMMA OldestAndRest ==
    ASSUME NEW S, NEW q \in Seq(S), IsInjective(q)
    PROVE  /\ Rest(q) \in Seq(S) /\ IsInjective(Rest(q))
           /\ ToSet(Heads(q)) \subseteq ToSet(q) /\ ToSet(Rest(q)) = ToSet(q) \ ToSet(Heads(q))
<1>1. CASE q = <<>>
  BY <1>1, OfNone DEF Rest, Heads
<1>2. CASE q # <<>>
  <2> DEFINE r == Tail(q)
  <2>1. /\ Heads(q) = <<Head(q)>> /\ Rest(q) = r /\ Head(q) = q[1]
    BY <1>2 DEF Heads, Rest
  <2>2. /\ r \in Seq(S) /\ Len(r) = Len(q) - 1 /\ Len(q) \in Nat /\ Len(q) # 0
        /\ \A i \in 1 .. Len(r) : r[i] = q[i + 1]
    BY <1>2, HeadTailProperties, LenProperties, EmptySeq
  <2>3. DOMAIN r = 1 .. Len(q) - 1 /\ DOMAIN q = 1 .. Len(q)
    BY <2>2, LenProperties
  <2> HIDE DEF r
  <2>4. \A i, j \in 1 .. Len(q) : q[i] = q[j] => i = j
    BY <2>3 DEF IsInjective
  <2>5. ToSet(Heads(q)) = {q[1]} /\ q[1] \in ToSet(q)
    <3>1. ToSet(<<q[1]>>) = {q[1]}
      <4>1. DOMAIN <<q[1]>> = {1} /\ <<q[1]>>[1] = q[1]
        OBVIOUS
      <4> QED
        BY ONLY <4>1 DEF ToSet
    <3>2. 1 \in DOMAIN q
      BY ONLY <2>2, <2>3
    <3>3. q[1] \in ToSet(q)
      BY ONLY <3>2 DEF ToSet
    <3> QED
      BY <2>1, <3>1, <3>3
  <2>6. ToSet(r) = ToSet(q) \ {q[1]}
    <3>1. ASSUME NEW i \in 1 .. Len(q) - 1 PROVE r[i] \in ToSet(q) \ {q[1]}
      <4>1. r[i] = q[i + 1] /\ i + 1 \in 1 .. Len(q) /\ i + 1 # 1 /\ 1 \in 1 .. Len(q)
        BY <2>2
      <4> QED
        BY <2>3, <2>4, <4>1 DEF ToSet
    <3>2. ASSUME NEW i \in 1 .. Len(q), q[i] # q[1] PROVE q[i] \in ToSet(r)
      <4>1. i # 1
        BY <3>2
      <4>2. i - 1 \in 1 .. Len(q) - 1 /\ (i - 1) + 1 = i
        BY <2>2, <4>1
      <4>3. r[i - 1] = q[i]
        BY <2>2, <4>2
      <4> QED
        BY <2>3, <4>2, <4>3 DEF ToSet
    <3> QED
      BY <2>3, <3>1, <3>2 DEF ToSet
  <2>7. IsInjective(r)
    <3> SUFFICES ASSUME NEW i \in 1 .. Len(q) - 1, NEW j \in 1 .. Len(q) - 1, r[i] = r[j]
                 PROVE  i = j
      BY <2>3 DEF IsInjective
    <3>1. i + 1 \in 1 .. Len(q) /\ j + 1 \in 1 .. Len(q) /\ q[i + 1] = q[j + 1]
      BY <2>2
    <3>2. i + 1 = j + 1
      BY <2>4, <3>1
    <3> QED
      BY <3>2
  <2> QED
    BY <2>1, <2>2, <2>5, <2>6, <2>7
<1> QED
  BY <1>1, <1>2

\* Messages that leave the queues for good.
Left(x, y, out) ==
    /\ y \in World /\ y.turn = x.turn /\ y.session = x.session /\ y.record = x.record
    /\ y.abort = x.abort /\ y.agent.by = x.agent.by /\ y.agent.st = x.agent.st
    /\ y.agent.tail = x.agent.tail
    /\ IsInjective(y.agent.steering) /\ IsInjective(y.agent.followUps)
    /\ ToSet(y.agent.steering) = ToSet(x.agent.steering) \ out
    /\ ToSet(y.agent.followUps) = ToSet(x.agent.followUps) \ out
    /\ out \subseteq Queued(x)
    /\ \A m \in Msgs : /\ y.msg[m].from = x.msg[m].from /\ y.msg[m].tried = x.msg[m].tried
                       /\ m \in out => y.msg[m].st # "queued"
                       /\ m \notin out => y.msg[m].st = x.msg[m].st
LEMMA LeftKeeps == ASSUME NEW x, Base(x), NEW y, NEW out, Left(x, y, out)
                   PROVE  Base(y)
<1>1. /\ y \in World /\ y.turn = x.turn /\ y.session = x.session /\ y.abort = x.abort
      /\ y.agent.by = x.agent.by /\ y.agent.st = x.agent.st
  BY DEF Left
<1>2. KindsKnown(y) /\ RunKnown(y) /\ AbortsKnown(y) /\ Counted(y)
  <2>1. SameTurns(x, y) /\ SameRun(x, y)
    BY <1>1 DEF SameTurns, SameRun
  <2> QED
    BY <1>1, <2>1, TurnsKnown
<1>3. Lifted(y)
  <2>1. StillLifted(x, y)
    BY DEF Left, StillLifted
  <2>2. x.agent.steering \in Seq(Msgs)
    BY Fields DEF Base, Runner
  <2> QED
    BY <2>1, <2>2, LiftedStays DEF Base
<1>4. Placed(y)
  <2>1. Queued(y) = Queued(x) \ out /\ \A w \in Wakes : Parked(y, w) = Parked(x, w)
    BY <1>1 DEF Left, Queued, Parked
  <2>2. \A w \in Wakes : IsInjective(y.turn[w].parked)
    BY <1>1 DEF Base, Placed
  <2>3. ASSUME NEW m \in Msgs
        PROVE  /\ y.msg[m].st = "queued" <=>
                     m \in Queued(y) \/ \E w \in Wakes : m \in Parked(y, w)
               /\ ~(m \in ToSet(y.agent.steering) /\ m \in ToSet(y.agent.followUps))
               /\ \A w \in Wakes : m \in Parked(y, w) =>
                     m \notin Queued(y) /\ \A v \in Wakes \ {w} : m \notin Parked(y, v)
    BY <2>1 DEF Base, Placed, Left
  <2> QED
    BY <2>2, <2>3 DEF Placed, Left
<1> QED
  BY <1>1, <1>2, <1>3, <1>4 DEF Base

\* What a poll leaves as it is.
Polled(x, y) == /\ Base(y) /\ y.turn = x.turn /\ y.abort = x.abort
                /\ y.session.aborting = x.session.aborting /\ y.agent.by = x.agent.by

\* A poll takes the oldest messages, with or without the block.
LEMMA PollsKeep ==
    ASSUME NEW x, Base(x), NEW wf \in BOOLEAN, NEW wr \in BOOLEAN, NEW y \in Polls(x, wf, wr)
    PROVE  Polled(x, y)
<1> DEFINE ms == ToSet(Heads(x.agent.steering))
                 \cup (IF wf THEN ToSet(Heads(x.agent.followUps)) ELSE {})
           a == [x.agent EXCEPT !.steering = Rest(@), !.followUps = IF wf THEN Rest(@) ELSE @]
           g == [m \in Msgs |-> IF m \in ms THEN [x.msg[m] EXCEPT !.st = "seen"] ELSE x.msg[m]]
           v == [x EXCEPT !.agent = a, !.msg = g]
           z == IF wr THEN See(v, Pending(x)) ELSE v
<1>1. /\ x \in World /\ x.agent \in Runner /\ x.agent.steering \in Seq(Msgs)
      /\ x.agent.followUps \in Seq(Msgs) /\ x.msg \in [Msgs -> Letter]
      /\ IsInjective(x.agent.steering) /\ IsInjective(x.agent.followUps)
      /\ \A m \in Msgs : ~(m \in ToSet(x.agent.steering) /\ m \in ToSet(x.agent.followUps))
  <2>1. x \in World /\ x.agent \in Runner /\ x.msg \in [Msgs -> Letter] /\ Placed(x)
    BY Fields DEF Base
  <2> QED
    BY <2>1 DEF Runner, Placed
<1>2. y = z \/ y = [z EXCEPT !.session.blocked = FALSE]
  BY DEF Polls
<1>3. /\ Rest(x.agent.steering) \in Seq(Msgs) /\ IsInjective(Rest(x.agent.steering))
      /\ ToSet(Heads(x.agent.steering)) \subseteq ToSet(x.agent.steering)
      /\ ToSet(Rest(x.agent.steering)) =
            ToSet(x.agent.steering) \ ToSet(Heads(x.agent.steering))
      /\ Rest(x.agent.followUps) \in Seq(Msgs) /\ IsInjective(Rest(x.agent.followUps))
      /\ ToSet(Heads(x.agent.followUps)) \subseteq ToSet(x.agent.followUps)
      /\ ToSet(Rest(x.agent.followUps)) =
            ToSet(x.agent.followUps) \ ToSet(Heads(x.agent.followUps))
  BY <1>1, OldestAndRest
<1>4. /\ a \in Runner /\ a.by = x.agent.by /\ a.st = x.agent.st /\ a.tail = x.agent.tail
      /\ a.steering = Rest(x.agent.steering)
      /\ a.followUps = IF wf THEN Rest(x.agent.followUps) ELSE x.agent.followUps
  BY <1>1, <1>3 DEF Runner
<1> HIDE DEF a
<1>5. /\ ToSet(x.agent.steering) \subseteq Msgs /\ ToSet(x.agent.followUps) \subseteq Msgs
  BY <1>1, SetOf
<1>6. /\ IsInjective(a.steering) /\ IsInjective(a.followUps) /\ ms \subseteq Queued(x)
      /\ ToSet(a.steering) = ToSet(x.agent.steering) \ ms
      /\ ToSet(a.followUps) = ToSet(x.agent.followUps) \ ms
  BY <1>1, <1>3, <1>4, <1>5 DEF Queued
<1> HIDE DEF ms
<1>7. /\ g \in [Msgs -> Letter]
      /\ \A m \in Msgs : /\ g[m].from = x.msg[m].from /\ g[m].tried = x.msg[m].tried
                         /\ m \in ms => g[m].st # "queued"
                         /\ m \notin ms => g[m].st = x.msg[m].st
  <2>1. ASSUME NEW m \in Msgs
        PROVE  /\ g[m] \in Letter /\ g[m].from = x.msg[m].from /\ g[m].tried = x.msg[m].tried
               /\ m \in ms => g[m].st # "queued"
               /\ m \notin ms => g[m].st = x.msg[m].st
    <3>1. /\ x.msg[m] \in Letter
          /\ g[m] = IF m \in ms THEN [x.msg[m] EXCEPT !.st = "seen"] ELSE x.msg[m]
      BY <1>1
    <3> QED
      BY ONLY <3>1 DEF Letter
  <2> QED
    BY <2>1
<1> HIDE DEF g
<1>8. /\ v \in World /\ v.turn = x.turn /\ v.session = x.session /\ v.agent = a
      /\ v.msg = g /\ v.record = x.record /\ v.abort = x.abort
  BY ONLY <1>1, <1>4, <1>7 DEF World
<1> HIDE DEF v
<1>9. Base(v)
  <2>1. Left(x, v, ms)
    BY <1>4, <1>6, <1>7, <1>8 DEF Left
  <2> QED
    BY <2>1, LeftKeeps
<1>10. Base(z) /\ z.turn = x.turn /\ z.session = x.session /\ z.abort = x.abort /\ z.agent = a
  <2>1. CASE wr
    <3>1. z = See(v, Pending(x))
      BY <2>1
    <3> HIDE DEF z
    <3>2. Noted(v, z)
      BY <1>8, <3>1, SeeIs
    <3> QED
      BY <1>8, <1>9, <3>2, NotedKeeps DEF Noted
  <2>2. CASE ~wr
    BY <1>8, <1>9, <2>2
  <2> QED
    BY <2>1, <2>2
<1> HIDE DEF z
<1>11. CASE y = z
  BY <1>4, <1>10, <1>11 DEF Polled
<1>12. CASE y = [z EXCEPT !.session.blocked = FALSE]
  <2> DEFINE n == [z.session EXCEPT !.blocked = FALSE]
  <2>1. z \in World /\ z.session \in Flags
    BY <1>10, Fields DEF Base
  <2>2. y = [z EXCEPT !.session = n]
    BY <1>12
  <2>3. n \in Flags /\ ~n.blocked /\ n.count = z.session.count /\ n.aborting = z.session.aborting
    BY <2>1 DEF Flags
  <2> HIDE DEF n
  <2>4. Uncounted(z) /\ IsFiniteSet(Holding(z)) /\ n.count <= Cardinality(Holding(z))
    BY <1>10, <2>3 DEF Base, Uncounted, Counted
  <2>5. Base(y) /\ Flagged(z, y, n)
    BY <2>2, <2>3, <2>4, FlagsKeep
  <2> QED
    BY <1>4, <1>10, <2>3, <2>5 DEF Flagged, Polled
<1> QED
  BY <1>2, <1>11, <1>12

\* A message that enters a queue.
Entered(x, y) == /\ Base(y) /\ y.turn = x.turn /\ y.session = x.session /\ y.record = x.record
                 /\ y.abort = x.abort /\ y.agent.by = x.agent.by
LEMMA EnqueueKeeps ==
    ASSUME NEW x, Base(x), NEW m \in Msgs, x.msg[m].st = "new", NEW mode,
           NEW from \in {"user", "parent"}, from = "user" => ~x.session.blocked,
           NEW y, y = Enqueue(x, m, mode, from)
    PROVE  Entered(x, y)
<1> DEFINE l == [st |-> "queued", from |-> from, tried |-> "no"]
           g == [x.msg EXCEPT ![m] = l]
           a == IF mode = "steer" THEN [x.agent EXCEPT !.steering = Append(@, m)]
                ELSE [x.agent EXCEPT !.followUps = Append(@, m)]
<1>1. /\ x \in World /\ x.agent \in Runner /\ x.agent.steering \in Seq(Msgs)
      /\ x.agent.followUps \in Seq(Msgs) /\ x.msg \in [Msgs -> Letter] /\ Placed(x)
  <2>1. x \in World /\ x.agent \in Runner /\ x.msg \in [Msgs -> Letter] /\ Placed(x)
    BY Fields DEF Base
  <2> QED
    BY <2>1 DEF Runner
<1>2. y = [x EXCEPT !.msg = g, !.agent = a]
  BY DEF Enqueue
<1>3. l \in Letter /\ l.st = "queued" /\ l.from = from
  BY DEF Letter
<1> HIDE DEF l
<1>4. g \in [Msgs -> Letter] /\ g[m] = l /\ \A n \in Msgs \ {m} : g[n] = x.msg[n]
  BY <1>1, <1>3
<1>5. /\ m \notin Queued(x) /\ \A w \in Wakes : m \notin Parked(x, w)
      /\ m \notin ToSet(x.agent.steering) /\ m \notin ToSet(x.agent.followUps)
  BY <1>1 DEF Placed, Queued
<1>6. /\ a \in Runner /\ a.by = x.agent.by /\ a.st = x.agent.st
      /\ \/ /\ a.steering = Append(x.agent.steering, m) /\ a.followUps = x.agent.followUps
         \/ /\ a.steering = x.agent.steering /\ a.followUps = Append(x.agent.followUps, m)
  <2>1. Append(x.agent.steering, m) \in Seq(Msgs) /\ Append(x.agent.followUps, m) \in Seq(Msgs)
    BY <1>1, Pushed
  <2> QED
    BY <1>1, <2>1 DEF Runner
<1> HIDE DEF a
<1>7. /\ ToSet(a.steering) \cup ToSet(a.followUps) = Queued(x) \cup {m}
      /\ ToSet(a.steering) \subseteq ToSet(x.agent.steering) \cup {m}
      /\ IsInjective(a.steering) /\ IsInjective(a.followUps)
      /\ \A n \in Msgs : ~(n \in ToSet(a.steering) /\ n \in ToSet(a.followUps))
  <2>1. /\ IsInjective(x.agent.steering) /\ IsInjective(x.agent.followUps)
        /\ \A n \in Msgs : ~(n \in ToSet(x.agent.steering) /\ n \in ToSet(x.agent.followUps))
    BY <1>1 DEF Placed
  <2>2. /\ ToSet(Append(x.agent.steering, m)) = ToSet(x.agent.steering) \cup {m}
        /\ ToSet(Append(x.agent.followUps, m)) = ToSet(x.agent.followUps) \cup {m}
        /\ IsInjective(Append(x.agent.steering, m)) /\ IsInjective(Append(x.agent.followUps, m))
    BY <1>1, <1>5, <2>1, Pushed
  <2> QED
    BY <1>5, <1>6, <2>1, <2>2 DEF Queued
<1> HIDE DEF g
<1>8. /\ y \in World /\ y.turn = x.turn /\ y.session = x.session /\ y.agent = a
      /\ y.msg = g /\ y.record = x.record /\ y.abort = x.abort
  BY ONLY <1>1, <1>2, <1>4, <1>6 DEF World
<1>9. KindsKnown(y) /\ RunKnown(y) /\ AbortsKnown(y) /\ Counted(y)
  <2>1. SameTurns(x, y) /\ SameRun(x, y)
    BY <1>6, <1>8 DEF SameTurns, SameRun
  <2> QED
    BY <1>8, <2>1, TurnsKnown
<1>10. Lifted(y)
  <2>1. ASSUME y.session.blocked, NEW n \in ToSet(y.agent.steering), y.msg[n].from = "user"
        PROVE  y.msg[n].tried # "no"
    <3>1. n # m
      BY <1>3, <1>4, <1>8, <2>1
    <3>2. n \in ToSet(x.agent.steering) /\ n \in Msgs
      <4>1. n \in ToSet(x.agent.steering)
        BY <1>7, <1>8, <2>1, <3>1
      <4> QED
        BY <1>1, <4>1, SetOf
    <3> QED
      BY <1>4, <1>8, <2>1, <3>1, <3>2 DEF Base, Lifted
  <2> QED
    BY <2>1 DEF Lifted
<1>11. Placed(y)
  <2>1. Queued(y) = Queued(x) \cup {m} /\ \A w \in Wakes : Parked(y, w) = Parked(x, w)
    BY <1>7, <1>8 DEF Queued, Parked
  <2>2. \A w \in Wakes : IsInjective(y.turn[w].parked)
    BY <1>1, <1>8 DEF Placed
  <2>3. ASSUME NEW n \in Msgs
        PROVE  /\ y.msg[n].st = "queued" <=>
                     n \in Queued(y) \/ \E w \in Wakes : n \in Parked(y, w)
               /\ \A w \in Wakes : n \in Parked(y, w) =>
                     n \notin Queued(y) /\ \A v \in Wakes \ {w} : n \notin Parked(y, v)
    <3>1. CASE n = m
      BY <1>3, <1>4, <1>5, <1>8, <2>1, <3>1
    <3>2. CASE n # m
      BY <1>1, <1>4, <1>8, <2>1, <3>2 DEF Placed
    <3> QED
      BY <3>1, <3>2
  <2> QED
    BY <1>7, <1>8, <2>2, <2>3 DEF Placed
<1> QED
  BY <1>6, <1>8, <1>9, <1>10, <1>11 DEF Base, Entered

\* A queue that holds nothing is the empty one.
LEMMA HoldsNone == ASSUME NEW S, NEW q \in Seq(S) PROVE q = <<>> <=> ToSet(q) = {}
<1>1. ASSUME q # <<>> PROVE ToSet(q) # {}
  <2>1. Len(q) \in Nat /\ Len(q) # 0
    BY <1>1, EmptySeq, LenProperties
  <2> QED
    BY <2>1, SetOf
<1> QED
  BY <1>1, OfNone

-----------------------------------------------------------------------------
\* Every action arrives at a good state.

Arrives == \E y : Becomes(y) /\ Good(y)

\* Where an action starts from.
LEMMA Here == ASSUME IInv, Roomy
              PROVE  Good(Now) /\ Base(Now) /\ AbortingKnown(Now) /\ Room(Now) /\ Now \in World
BY DEF IInv, Good, Base, Roomy, Room, Now
LEMMA NowIs == /\ Now.turn = turn /\ Now.session = session /\ Now.agent = agent /\ Now.msg = msg
               /\ Now.record = record /\ Now.abort = abort
BY DEF Now

\* Where turns and aborts are as they were, rest is where it was.
LEMMA RestStays ==
    ASSUME NEW x, NEW y, SameTurns(x, y), y.abort = x.abort,
           y.session.settling = x.session.settling
    PROVE  Resting(y) <=> Resting(x)
<1>1. Active(y, Turns) = Active(x, Turns)
  BY TurnsStay
<1> QED
  BY <1>1 DEF Resting, Under

\* clearQueue.
LEMMA ClearsArrives == ASSUME IInv, Roomy, NEW all \in BOOLEAN, Clears(all) PROVE Arrives
<1> DEFINE out == {m \in Queued(Now) : all \/ msg[m].from = "user"}
           s == Rid(agent.steering, out)
           f == Rid(agent.followUps, out)
           a == [agent EXCEPT !.steering = s, !.followUps = f]
           g == [m \in Msgs |-> IF m \in out THEN [msg[m] EXCEPT !.st = "withdrawn"] ELSE msg[m]]
           x == [Now EXCEPT !.agent = a, !.msg = g]
           n == [x.session EXCEPT !.blocked = @ /\ HasQueued(x)]
           y == [x EXCEPT !.session = n]
<1>1. /\ Now \in World /\ Base(Now) /\ AbortingKnown(Now) /\ agent \in Runner
      /\ agent.steering \in Seq(Msgs) /\ agent.followUps \in Seq(Msgs)
      /\ msg \in [Msgs -> Letter] /\ session \in Flags /\ session.blocked \in BOOLEAN
      /\ IsInjective(agent.steering) /\ IsInjective(agent.followUps)
  <2>1. /\ Now \in World /\ Base(Now) /\ AbortingKnown(Now) /\ agent \in Runner
        /\ msg \in [Msgs -> Letter] /\ session \in Flags /\ Placed(Now)
    BY Here, Fields, NowIs DEF Base
  <2> QED
    BY <2>1, NowIs DEF Runner, Flags, Placed
<1>2. Becomes(y)
  <2>1. y = [x EXCEPT !.session.blocked = @ /\ HasQueued(x)]
    OBVIOUS
  <2> QED
    BY <2>1, NowIs DEF Clears, Rid
<1>3. out \subseteq Queued(Now)
  OBVIOUS
<1> HIDE DEF out
<1>4. /\ s \in Seq(Msgs) /\ f \in Seq(Msgs) /\ IsInjective(s) /\ IsInjective(f)
      /\ ToSet(s) = ToSet(agent.steering) \ out /\ ToSet(f) = ToSet(agent.followUps) \ out
  BY <1>1, Filtered
<1> HIDE DEF s, f
<1>5. /\ a \in Runner /\ a.by = agent.by /\ a.st = agent.st /\ a.tail = agent.tail
      /\ a.steering = s /\ a.followUps = f
  BY <1>1, <1>4 DEF Runner
<1>6. /\ g \in [Msgs -> Letter]
      /\ \A m \in Msgs : /\ g[m].from = msg[m].from /\ g[m].tried = msg[m].tried
                         /\ m \in out => g[m].st # "queued"
                         /\ m \notin out => g[m].st = msg[m].st
  <2>1. ASSUME NEW m \in Msgs
        PROVE  /\ g[m] \in Letter /\ g[m].from = msg[m].from /\ g[m].tried = msg[m].tried
               /\ m \in out => g[m].st # "queued"
               /\ m \notin out => g[m].st = msg[m].st
    <3>1. /\ msg[m] \in Letter
          /\ g[m] = IF m \in out THEN [msg[m] EXCEPT !.st = "withdrawn"] ELSE msg[m]
      BY <1>1
    <3> QED
      BY ONLY <3>1 DEF Letter
  <2> QED
    BY <2>1
<1> HIDE DEF a, g
<1>7. /\ x \in World /\ x.turn = Now.turn /\ x.session = Now.session /\ x.agent = a
      /\ x.msg = g /\ x.record = Now.record /\ x.abort = Now.abort
  BY ONLY <1>1, <1>5, <1>6 DEF World
<1> HIDE DEF x
<1>8. Base(x)
  <2>1. Left(Now, x, out)
    BY <1>3, <1>4, <1>5, <1>6, <1>7, NowIs DEF Left
  <2> QED
    BY <1>1, <2>1, LeftKeeps
<1>9. /\ n \in Flags /\ n.count = session.count /\ n.aborting = session.aborting
      /\ n.suppressed = session.suppressed /\ n.settling = session.settling
      /\ n.blocked <=> session.blocked /\ HasQueued(x)
  <2>1. x.session = session /\ HasQueued(x) \in BOOLEAN
    BY <1>7, NowIs DEF HasQueued
  <2> QED
    BY ONLY <1>1, <2>1 DEF Flags
<1>10. Base(y) /\ Flagged(x, y, n)
  <2>1. Uncounted(x) /\ IsFiniteSet(Holding(x)) /\ n.count <= Cardinality(Holding(x))
    BY <1>7, <1>8, <1>9, NowIs DEF Base, Uncounted, Counted
  <2>2. n.blocked => x.session.blocked
    BY <1>7, <1>9, NowIs
  <2> HIDE DEF n
  <2> QED
    BY <1>8, <1>9, <2>1, <2>2, FlagsKeep
<1> HIDE DEF n, y
<1>11. /\ y.turn = turn /\ y.abort = abort /\ y.agent = a /\ y.session = n /\ y.msg = g
       /\ y.record = record
  BY <1>7, <1>10, NowIs DEF Flagged
<1>12. AbortingKnown(y)
  BY <1>1, <1>9, <1>11, NowIs DEF AbortingKnown, Under
<1>13. ASSUME Resting(y) PROVE Settled(y)
  <2>1. Settled(Now)
    <3>1. Resting(Now)
      BY <1>9, <1>11, <1>13, NowIs, RestStays DEF SameTurns
    <3> QED
      BY <3>1, Here DEF Good
  <2>2. /\ ToSet(agent.steering) \subseteq Msgs /\ ToSet(s) \subseteq ToSet(agent.steering)
        /\ HasQueued(x) => HasQueued(Now)
        /\ agent.steering = <<>> => s = <<>>
    <3>1. /\ s = <<>> <=> ToSet(s) = {}
          /\ f = <<>> <=> ToSet(f) = {}
          /\ agent.steering = <<>> <=> ToSet(agent.steering) = {}
          /\ agent.followUps = <<>> <=> ToSet(agent.followUps) = {}
      BY <1>1, <1>4, HoldsNone
    <3>2. ToSet(agent.steering) \subseteq Msgs
      BY <1>1, SetOf
    <3> QED
      BY <1>4, <1>5, <1>7, <3>1, <3>2, NowIs DEF HasQueued
  <2>3. y.session.count = 0 /\ ~y.session.aborting /\ y.agent.by = None
    BY <1>5, <1>9, <1>11, <2>1, NowIs DEF Settled
  <2>4. \A i \in Pending(y) : y.record[i] = "passed"
    BY <1>11, <2>1, NowIs DEF Settled, Pending
  <2>5. \A m \in ToSet(y.agent.steering) : y.msg[m].from = "user" => y.msg[m].tried # "no"
    BY <1>5, <1>6, <1>11, <2>1, <2>2, NowIs DEF Settled
  <2>6. HasQueued(y) => \/ y.session.blocked
                        \/ /\ y.agent.steering = <<>>
                           /\ y.session.suppressed \/ y.agent.tail = "other"
    <3>1. HasQueued(y) => HasQueued(x)
      BY <1>7, <1>11 DEF HasQueued
    <3> QED
      BY <1>5, <1>9, <1>11, <2>1, <2>2, <3>1, NowIs DEF Settled
  <2> QED
    BY <2>3, <2>4, <2>5, <2>6 DEF Settled
<1> QED
  BY <1>2, <1>10, <1>12, <1>13 DEF Arrives, Good

\* A turn goes on to its next state, with no run begun or ended.
MayMove(t, old, s) ==
    /\ old \in TurnStates \ {"running"} /\ s \in TurnStates \ {"running", "off", "done"}
    /\ old \in {"off", "asked", "done"} <=> s = "asked"
    /\ t \in Prompts => s \notin {"preflight", "ending"}
    /\ t \in Resumes => s \in {"preflight", "ending"}
LEMMA MoveKeeps ==
    ASSUME NEW x, Base(x), AbortingKnown(x), NEW t \in Turns \ Wakes, NEW s,
           MayMove(t, x.turn[t].st, s), NEW y, y = [x EXCEPT !.turn[t].st = s]
    PROVE  Good(y)
<1> DEFINE h == [x.turn[t] EXCEPT !.st = s]
           f == [x.turn EXCEPT ![t] = h]
<1>1. /\ x \in World /\ x.turn \in [Turns -> Holder] /\ x.turn[t] \in Holder
      /\ x.agent \in Runner /\ x.agent.steering \in Seq(Msgs) /\ s \in TurnStates
  <2>1. /\ x \in World /\ x.turn \in [Turns -> Holder] /\ x.agent \in Runner
        /\ s \in TurnStates
    BY Fields DEF Base, MayMove
  <2> QED
    BY <2>1 DEF Runner
<1>2. y = [x EXCEPT !.turn = f]
  OBVIOUS
<1>3. h \in Holder /\ h.st = s /\ h.parked = x.turn[t].parked
  BY <1>1 DEF Holder
<1> HIDE DEF h
<1>4. f \in [Turns -> Holder] /\ f[t] = h /\ \A u \in Turns \ {t} : f[u] = x.turn[u]
  BY <1>1, <1>3
<1> HIDE DEF f
<1>5. /\ y \in World /\ y.turn = f /\ y.session = x.session /\ y.agent = x.agent
      /\ y.msg = x.msg /\ y.abort = x.abort
  BY ONLY <1>1, <1>2, <1>4 DEF World
<1>6. /\ \A u \in Turns \ {t} : y.turn[u] = x.turn[u]
      /\ y.turn[t].st = s /\ y.turn[t].parked = x.turn[t].parked
  BY <1>3, <1>4, <1>5
<1>7. KindsKnown(y)
  <2>1. \A w \in Wakes : y.turn[w] = x.turn[w]
    BY <1>6, Bounds
  <2> QED
    BY <1>6, <2>1, Bounds DEF Base, KindsKnown, MayMove
<1>8. RunKnown(y)
  BY <1>5, <1>6 DEF Base, RunKnown, MayMove
<1>9. AbortsKnown(y)
  <2>1. \A k \in Aborts : x.abort[k].tasks \subseteq Turns
    BY <1>1, Fields, Bounds DEF Aborter
  <2>2. \A u \in Turns : x.turn[u].st # "off" => y.turn[u].st # "off"
    BY <1>6 DEF MayMove
  <2> QED
    BY <1>5, <2>1, <2>2 DEF Base, AbortsKnown
<1>10. Counted(y)
  <2>1. Holding(y) = Holding(x)
    BY <1>6 DEF Holding, MayMove
  <2> QED
    BY <1>5, <2>1 DEF Base, Counted
<1>11. Placed(y) /\ Lifted(y)
  <2>1. \A w \in Wakes : y.turn[w].parked = x.turn[w].parked
    BY <1>6, Bounds
  <2>2. SameQueues(x, y) /\ StillLifted(x, y)
    BY <1>5 DEF SameQueues, StillLifted
  <2> QED
    BY <1>1, <2>1, <2>2, PlacedStays, LiftedStays DEF Base
<1>12. AbortingKnown(y) /\ Active(y, Turns) # {}
  <2>1. AbortingKnown(y)
    BY <1>5 DEF AbortingKnown, Under
  <2>2. t \in Active(y, Turns)
    BY <1>6 DEF Active, MayMove
  <2> QED
    BY <2>1, <2>2
<1> QED
  BY <1>5, <1>7, <1>8, <1>9, <1>10, <1>11, <1>12, Busy DEF Base

\* The end of the transcript changes.
Tailed(x, y) == /\ y \in World /\ y.turn = x.turn /\ y.session = x.session /\ y.msg = x.msg
                /\ y.record = x.record /\ y.abort = x.abort
                /\ y.agent.by = x.agent.by /\ y.agent.st = x.agent.st
                /\ y.agent.steering = x.agent.steering /\ y.agent.followUps = x.agent.followUps
LEMMA TailKeeps ==
    ASSUME NEW x, Base(x), NEW tail \in {"assistant", "toolResult", "other"},
           NEW y, y = [x EXCEPT !.agent.tail = tail]
    PROVE  Base(y) /\ Tailed(x, y) /\ y.agent.tail = tail
<1> DEFINE a == [x.agent EXCEPT !.tail = tail]
<1>1. x \in World /\ x.agent \in Runner
  BY Fields DEF Base
<1>2. y = [x EXCEPT !.agent = a]
  OBVIOUS
<1>3. /\ a \in Runner /\ a.by = x.agent.by /\ a.st = x.agent.st /\ a.tail = tail
      /\ a.steering = x.agent.steering /\ a.followUps = x.agent.followUps
  BY <1>1 DEF Runner
<1> HIDE DEF a
<1>4. /\ y \in World /\ y.turn = x.turn /\ y.session = x.session /\ y.agent = a
      /\ y.msg = x.msg /\ y.record = x.record /\ y.abort = x.abort
  BY ONLY <1>1, <1>2, <1>3 DEF World
<1>5. SameTurns(x, y) /\ SameRun(x, y) /\ SameQueues(x, y) /\ StillLifted(x, y)
  BY <1>3, <1>4 DEF SameTurns, SameRun, SameQueues, StillLifted
<1> QED
  BY <1>3, <1>4, <1>5, BaseStays DEF Tailed

\* prompt() asks.
LEMMA PromptAskedArrives ==
    ASSUME IInv, Roomy, NEW p \in Prompts, PromptAsked(p) PROVE Arrives
<1> DEFINE n == [session EXCEPT !.suppressed = FALSE]
           x == [Now EXCEPT !.session = n]
           y == [x EXCEPT !.turn[p].st = "asked"]
<1>1. /\ Now \in World /\ Base(Now) /\ AbortingKnown(Now) /\ session \in Flags
      /\ p \in Turns \ Wakes
  BY Here, Fields, NowIs, Bounds
<1>2. Becomes(y)
  BY DEF PromptAsked, Becomes, Now
<1>3. /\ n \in Flags /\ n.count = session.count /\ n.aborting = session.aborting
      /\ n.blocked = session.blocked
  BY <1>1 DEF Flags
<1> HIDE DEF n
<1>4. Uncounted(Now) /\ IsFiniteSet(Holding(Now)) /\ n.count <= Cardinality(Holding(Now))
  BY <1>1, <1>3, NowIs DEF Base, Uncounted, Counted
<1>5. Base(x) /\ Flagged(Now, x, n)
  BY <1>3, <1>4, NowIs, FlagsKeep
<1> HIDE DEF x
<1>6. AbortingKnown(x) /\ x.turn[p].st = "off"
  BY <1>1, <1>3, <1>5, NowIs DEF AbortingKnown, Under, Flagged, PromptAsked
<1>7. MayMove(p, x.turn[p].st, "asked")
  BY <1>6, Bounds DEF MayMove, TurnStates
<1>8. Good(y)
  BY <1>1, <1>5, <1>6, <1>7, MoveKeeps
<1> QED
  BY <1>2, <1>8 DEF Arrives

\* Its turn begins.
LEMMA PromptBeginsArrives ==
    ASSUME IInv, Roomy, NEW p \in Prompts, PromptBegins(p) PROVE Arrives
<1> DEFINE y == BeginInFlight(Now, p, [Off EXCEPT !.st = "setup"])
<1>1. Base(Now) /\ AbortingKnown(Now) /\ p \in Turns /\ Now.turn[p].st = "asked"
  BY Here, NowIs, Bounds DEF PromptBegins
<1>2. Becomes(y)
  BY DEF PromptBegins
<1> HIDE DEF y
<1>3. Started(Now, y)
  BY <1>1, StartKeeps DEF y
<1>4. Good(y)
  BY <1>1, <1>3, StartedDrains DEF Drained
<1> QED
  BY <1>2, <1>4 DEF Arrives

\* It fails, or is given up, or ends.
LEMMA PromptEndsArrives ==
    ASSUME IInv, Roomy, NEW p \in Prompts, PromptFails(p) \/ PromptGivesUp(p) \/ PromptEnds(p)
    PROVE  Arrives
<1> DEFINE y == EndPrompt(Now, p)
<1>1. /\ Base(Now) /\ AbortingKnown(Now) /\ Room(Now)
      /\ Now.turn[p].st \in {"setup", "built", "waiting", "recovery"}
  BY Here, NowIs DEF PromptFails, PromptGivesUp, PromptEnds
<1>2. Becomes(y)
  BY DEF PromptFails, PromptGivesUp, PromptEnds
<1> HIDE DEF y
<1>3. Good(y)
  BY <1>1, EndPromptKeeps DEF y
<1> QED
  BY <1>2, <1>3 DEF Arrives

\* Peer messages go into the transcript first.
LEMMA PromptFlushesArrives ==
    ASSUME IInv, Roomy, NEW p \in Prompts, PromptFlushes(p) PROVE Arrives
<1> DEFINE is == Pending(Now)
           z == See(Now, is)
           tail == IF is # {} /\ agent.by = None THEN "other" ELSE z.agent.tail
           x == [z EXCEPT !.agent.tail = tail]
           y == [x EXCEPT !.turn[p].st = "built"]
<1>1. Now \in World /\ Base(Now) /\ AbortingKnown(Now) /\ p \in Turns \ Wakes
  BY Here, Bounds
<1>2. Becomes(y)
  BY DEF PromptFlushes, Becomes, See, Now
<1>3. Noted(Now, z) /\ Base(z)
  BY <1>1, SeeIs, NotedKeeps
<1> HIDE DEF is, z
<1>4. tail \in {"assistant", "toolResult", "other"}
  BY <1>3, Fields DEF Base, Runner
<1> HIDE DEF tail
<1>5. Base(x) /\ Tailed(z, x)
  BY <1>3, <1>4, TailKeeps
<1> HIDE DEF x
<1>6. AbortingKnown(x) /\ x.turn[p].st = "setup"
  BY <1>1, <1>3, <1>5, NowIs DEF AbortingKnown, Under, Noted, Tailed, PromptFlushes
<1>7. MayMove(p, x.turn[p].st, "built")
  BY <1>6, Bounds DEF MayMove, TurnStates
<1>8. Good(y)
  BY <1>1, <1>5, <1>6, <1>7, MoveKeeps
<1> QED
  BY <1>2, <1>8 DEF Arrives

\* It is sent, or has been cut, or waits for the agent.
LEMMA PromptSendsArrives ==
    ASSUME IInv, Roomy, NEW p \in Prompts, PromptSends(p) \/ PromptRetries(p) PROVE Arrives
<1>1. Base(Now) /\ AbortingKnown(Now) /\ Room(Now) /\ p \in Turns \ Wakes
  BY Here, Bounds
<1>2. CASE PromptSends(p) /\ turn[p].cut
  <2> DEFINE y == EndPrompt(Now, p)
  <2>1. Becomes(y) /\ Now.turn[p].st = "built"
    BY <1>2, NowIs DEF PromptSends
  <2> HIDE DEF y
  <2>2. Good(y)
    BY <1>1, <2>1, EndPromptKeeps DEF y
  <2> QED
    BY <2>1, <2>2 DEF Arrives
<1>3. CASE PromptSends(p) /\ ~turn[p].cut /\ agent.by # None
  <2> DEFINE y == [Now EXCEPT !.turn[p].st = "waiting"]
  <2>1. Becomes(y) /\ Now.turn[p].st = "built"
    BY <1>3, NowIs DEF PromptSends
  <2>2. MayMove(p, Now.turn[p].st, "waiting")
    BY <2>1, Bounds DEF MayMove, TurnStates
  <2>3. Good(y)
    BY <1>1, <2>2, MoveKeeps
  <2> QED
    BY <2>1, <2>3 DEF Arrives
<1>4. CASE (PromptSends(p) /\ ~turn[p].cut /\ agent.by = None) \/ PromptRetries(p)
  <2> DEFINE y == StartRun(Now, p, "working")
  <2>1. /\ Becomes(y) /\ Now.turn[p].st \in {"built", "waiting"} /\ Now.agent.by = None
    BY <1>4, NowIs DEF PromptSends, PromptRetries
  <2> HIDE DEF y
  <2>2. Good(y)
    BY <1>1, <2>1, StartRunKeeps DEF y
  <2> QED
    BY <2>1, <2>2 DEF Arrives
<1> QED
  BY <1>2, <1>3, <1>4

\* A wake ends.
LEMMA WakeEndsArrives ==
    ASSUME IInv, Roomy, NEW w \in Wakes, WakeEnds(w) PROVE Arrives
<1> DEFINE y == EndWake(Now, w)
<1>1. /\ Base(Now) /\ AbortingKnown(Now) /\ Room(Now) /\ Now.turn[w].st = "recovery"
  BY Here, NowIs DEF WakeEnds
<1>2. Becomes(y)
  BY DEF WakeEnds
<1> HIDE DEF y
<1>3. Good(y)
  BY <1>1, EndWakeKeeps DEF y
<1> QED
  BY <1>2, <1>3 DEF Arrives

\* The queue of the state is blocked.
LEMMA BlockedHere ==
    ASSUME IInv, Roomy, NEW x, x = Block(Now)
    PROVE  /\ Base(x) /\ AbortingKnown(x) /\ Room(x) /\ x.turn = turn /\ x.agent = agent
           /\ x.abort = abort
<1>1. /\ Base(x) /\ x.turn = turn /\ x.agent = agent /\ x.abort = abort
      /\ x.session.aborting = session.aborting
  BY Here, NowIs, BlockKeeps
<1> QED
  BY <1>1, Here, NowIs DEF AbortingKnown, Under, Room

\* A resume is skipped or refused, or ends.
LEMMA ResumeEndsArrives ==
    ASSUME IInv, Roomy, NEW r \in Resumes, ResumeSkipped(r) \/ ResumeRefused(r) \/ ResumeEnds(r)
    PROVE  Arrives
<1>1. /\ Base(Now) /\ AbortingKnown(Now) /\ Room(Now)
      /\ turn[r].st \in {"preflight", "ending"} /\ Now.turn[r].st \in {"preflight", "ending"}
  BY Here, NowIs DEF ResumeSkipped, ResumeRefused, ResumeEnds
<1>2. CASE Becomes(EndResume(Now, r))
  <2> DEFINE y == EndResume(Now, r)
  <2>1. Becomes(y)
    BY <1>2
  <2> HIDE DEF y
  <2>2. Good(y)
    BY <1>1, EndResumeKeeps DEF y
  <2> QED
    BY <2>1, <2>2 DEF Arrives
<1>3. CASE Becomes(EndResume(Block(Now), r))
  <2> DEFINE x == Block(Now)
             y == EndResume(x, r)
  <2>1. Becomes(y)
    BY <1>3
  <2> HIDE DEF x
  <2>2. Base(x) /\ AbortingKnown(x) /\ Room(x) /\ x.turn = turn
    BY BlockedHere DEF x
  <2> HIDE DEF y
  <2>3. Good(y)
    BY <1>1, <2>2, EndResumeKeeps DEF y
  <2> QED
    BY <2>1, <2>3 DEF Arrives
<1> QED
  BY <1>2, <1>3 DEF ResumeSkipped, ResumeRefused, ResumeEnds

\* The block is lifted.
LEMMA Unblocked ==
    ASSUME IInv, Roomy, NEW n \in Flags, n.blocked => session.blocked,
           n.count = session.count, n.aborting = session.aborting,
           NEW x, x = [Now EXCEPT !.session = n]
    PROVE  Base(x) /\ AbortingKnown(x) /\ Room(x) /\ Flagged(Now, x, n)
<1>1. Base(Now) /\ AbortingKnown(Now) /\ Room(Now)
  BY Here
<1>2. Uncounted(Now) /\ IsFiniteSet(Holding(Now)) /\ n.count <= Cardinality(Holding(Now))
  BY <1>1, NowIs DEF Base, Uncounted, Counted
<1>3. Base(x) /\ Flagged(Now, x, n)
  BY <1>2, NowIs, FlagsKeep
<1> QED
  BY <1>1, <1>3, NowIs DEF AbortingKnown, Under, Room, Flagged

\* A resume continues the agent, or finds it busy.
LEMMA ResumeContinuesArrives ==
    ASSUME IInv, Roomy, NEW r \in Resumes, ResumeContinues(r) PROVE Arrives
<1> DEFINE n == [session EXCEPT !.blocked = @ /\ ~Preflight]
           x == [Now EXCEPT !.session = n]
<1>1. /\ session \in Flags /\ session.blocked \in BOOLEAN /\ Preflight \in BOOLEAN
      /\ r \in Turns \ Wakes /\ r \notin Prompts
  <2>1. session \in Flags
    BY Here, Fields, NowIs
  <2> QED
    BY <2>1, Bounds, BoundsAssumption DEF Flags
<1>2. x = [Now EXCEPT !.session.blocked = @ /\ ~Preflight]
  BY NowIs
<1>3. /\ n \in Flags /\ n.count = session.count /\ n.aborting = session.aborting
      /\ n.blocked => session.blocked
  BY ONLY <1>1 DEF Flags
<1> HIDE DEF n
<1>4. Base(x) /\ AbortingKnown(x) /\ Room(x) /\ Flagged(Now, x, n)
  BY <1>3, Unblocked
<1>5. Becomes(IF agent.by # None THEN [Block(x) EXCEPT !.turn[r].st = "ending"]
              ELSE StartRun(x, r, "claimed"))
  BY <1>2 DEF ResumeContinues
<1> HIDE DEF x
<1>6. x.turn = turn /\ x.agent = agent /\ turn[r].st = "preflight"
  BY <1>4, NowIs DEF Flagged, ResumeContinues
<1>7. CASE agent.by # None
  <2> DEFINE z == Block(x)
             y == [z EXCEPT !.turn[r].st = "ending"]
  <2>1. Becomes(y)
    BY <1>5, <1>7
  <2> HIDE DEF z
  <2>2. /\ Base(z) /\ z.turn = x.turn /\ z.abort = x.abort
        /\ z.session.aborting = x.session.aborting
    BY <1>4, BlockKeeps DEF z
  <2>3. AbortingKnown(z) /\ MayMove(r, z.turn[r].st, "ending")
    BY <1>1, <1>4, <1>6, <2>2 DEF AbortingKnown, Under, MayMove, TurnStates
  <2>4. Good(y)
    BY <1>1, <2>2, <2>3, MoveKeeps
  <2> QED
    BY <2>1, <2>4 DEF Arrives
<1>8. CASE agent.by = None
  <2> DEFINE y == StartRun(x, r, "claimed")
  <2>1. Becomes(y)
    BY <1>5, <1>8
  <2> HIDE DEF y
  <2>2. Good(y)
    BY <1>4, <1>6, <1>8, StartRunKeeps DEF y
  <2> QED
    BY <2>1, <2>2 DEF Arrives
<1> QED
  BY <1>7, <1>8

-----------------------------------------------------------------------------
\* The run of the agent.

\* The run goes on: only its own state changes.
LEMMA RunMoves ==
    ASSUME NEW x, Base(x), AbortingKnown(x), x.agent.by # None, NEW st \in {"working", "closing"},
           NEW y, y = [x EXCEPT !.agent.st = st]
    PROVE  Good(y) /\ y.agent.by = x.agent.by
<1> DEFINE a == [x.agent EXCEPT !.st = st]
<1>1. x \in World /\ x.agent \in Runner /\ x.agent.steering \in Seq(Msgs) /\ x.agent.by \in Turns
  <2>1. x \in World /\ x.agent \in Runner
    BY Fields DEF Base
  <2> QED
    BY <2>1 DEF Runner
<1>2. y = [x EXCEPT !.agent = a]
  OBVIOUS
<1>3. /\ a \in Runner /\ a.by = x.agent.by /\ a.st = st
      /\ a.steering = x.agent.steering /\ a.followUps = x.agent.followUps
  BY <1>1 DEF Runner
<1> HIDE DEF a
<1>4. /\ y \in World /\ y.turn = x.turn /\ y.session = x.session /\ y.agent = a
      /\ y.msg = x.msg /\ y.record = x.record /\ y.abort = x.abort
  BY ONLY <1>1, <1>2, <1>3 DEF World
<1>5. KindsKnown(y) /\ AbortsKnown(y) /\ Counted(y)
  <2>1. Holding(y) = Holding(x)
    BY <1>4 DEF Holding
  <2> QED
    BY <1>3, <1>4, <2>1 DEF Base, KindsKnown, AbortsKnown, Counted
<1>6. RunKnown(y)
  BY <1>3, <1>4 DEF Base, RunKnown
<1>7. Placed(y) /\ Lifted(y)
  <2>1. SameQueues(x, y) /\ StillLifted(x, y)
    BY <1>3, <1>4 DEF SameQueues, StillLifted
  <2> QED
    BY <1>1, <1>4, <2>1, PlacedStays, LiftedStays DEF Base
<1>8. AbortingKnown(y) /\ Active(y, Turns) # {}
  <2>1. AbortingKnown(y)
    BY <1>4 DEF AbortingKnown, Under
  <2>2. x.agent.by \in Active(y, Turns)
    BY <1>1, <1>4 DEF Active, Base, RunKnown
  <2> QED
    BY <2>1, <2>2
<1> QED
  BY <1>3, <1>4, <1>5, <1>6, <1>7, <1>8, Busy DEF Base

\* After a poll the run goes on.
LEMMA PollsGood ==
    ASSUME NEW x, Base(x), AbortingKnown(x), x.agent.by # None, NEW wf \in BOOLEAN,
           NEW wr \in BOOLEAN, NEW y \in Polls(x, wf, wr)
    PROVE  Good(y)
<1>1. Polled(x, y)
  BY PollsKeep
<1>2. x.agent.by \in Turns
  BY Fields DEF Base, Runner
<1>3. AbortingKnown(y)
  BY <1>1 DEF Polled, AbortingKnown, Under
<1>4. x.agent.by \in Active(y, Turns)
  BY <1>1, <1>2 DEF Polled, Active, Base, RunKnown
<1> QED
  BY <1>1, <1>3, <1>4, Busy DEF Polled

\* The agent refuses what is queued: its run is over.
LEMMA RefusedArrives ==
    ASSUME IInv, Roomy, agent.by # None, Becomes(RunOver(Block(Now), "assistant")) PROVE Arrives
<1> DEFINE x == Block(Now)
           y == RunOver(x, "assistant")
<1>1. Becomes(y)
  OBVIOUS
<1> HIDE DEF x
<1>2. Base(x) /\ AbortingKnown(x) /\ x.agent = agent
  BY BlockedHere DEF x
<1> HIDE DEF y
<1>3. Good(y)
  BY <1>2, RunOverKeeps DEF y
<1> QED
  BY <1>1, <1>3 DEF Arrives

\* While a run is in some state, it is the run of a turn.
LEMMA RunIsThere == ASSUME IInv, Roomy, agent.st # "idle"
                    PROVE  agent.by # None /\ Now.agent.by # None
BY Here, NowIs DEF Base, RunKnown

\* A continuation opens.
LEMMA RunClaimsArrives == ASSUME IInv, Roomy, RunClaims PROVE Arrives
<1> DEFINE opens == [Now EXCEPT !.agent.st = "working"]
<1>1. Base(Now) /\ AbortingKnown(Now) /\ agent.by # None /\ Now.agent.by # None
  BY Here, RunIsThere DEF RunClaims
<1>2. \/ \E y \in Polls(opens, agent.steering = <<>>, FALSE) : Becomes(y)
      \/ \E y \in Polls(opens, FALSE, FALSE) : Becomes(y)
      \/ Becomes(opens)
      \/ Becomes(RunOver(Block(Now), "assistant"))
  BY DEF RunClaims
<1> HIDE DEF opens
<1>3. Good(opens) /\ opens.agent.by # None
  BY <1>1, RunMoves DEF opens
<1>4. Base(opens) /\ AbortingKnown(opens)
  BY <1>3 DEF Good
<1>5. ASSUME NEW wf \in BOOLEAN, NEW y \in Polls(opens, wf, FALSE), Becomes(y)
      PROVE  Arrives
  <2>1. Good(y)
    BY <1>3, <1>4, PollsGood
  <2> QED
    BY <1>5, <2>1 DEF Arrives
<1>6. CASE Becomes(opens)
  BY <1>3, <1>6 DEF Arrives
<1>7. CASE Becomes(RunOver(Block(Now), "assistant"))
  BY <1>1, <1>7, RefusedArrives
<1> QED
  BY <1>2, <1>5, <1>6, <1>7

\* Between requests, or before it ends, a run polls; or it closes.
LEMMA RunPollsArrives == ASSUME IInv, Roomy, RunPolls \/ RunStops PROVE Arrives
<1>1. Base(Now) /\ AbortingKnown(Now) /\ Now.agent.by # None
  BY Here, RunIsThere DEF RunPolls, RunStops
<1>2. ASSUME NEW wf \in BOOLEAN, NEW y \in Polls(Now, wf, TRUE), Becomes(y)
      PROVE  Arrives
  <2>1. Good(y)
    BY <1>1, PollsGood
  <2> QED
    BY <1>2, <2>1 DEF Arrives
<1>3. CASE Becomes([Now EXCEPT !.agent.st = "closing"])
  <2> DEFINE y == [Now EXCEPT !.agent.st = "closing"]
  <2>1. Good(y)
    BY <1>1, RunMoves
  <2> QED
    BY <1>3, <2>1 DEF Arrives
<1> QED
  BY <1>2, <1>3 DEF RunPolls, RunStops

\* A run is refused, or ends.
LEMMA RunEndsArrives == ASSUME IInv, Roomy, RunRefused \/ RunEnds PROVE Arrives
<1>1. Base(Now) /\ AbortingKnown(Now) /\ agent.by # None /\ Now.agent.by # None
  BY Here, RunIsThere DEF RunRefused, RunEnds
<1>2. CASE RunRefused
  BY <1>1, <1>2, RefusedArrives DEF RunRefused
<1>3. ASSUME NEW tail \in {"assistant", "toolResult"}, Becomes(RunOver(Now, tail))
      PROVE  Arrives
  <2> DEFINE y == RunOver(Now, tail)
  <2>1. Becomes(y)
    BY <1>3
  <2> HIDE DEF y
  <2>2. Good(y)
    BY <1>1, RunOverKeeps DEF y
  <2> QED
    BY <2>1, <2>2 DEF Arrives
<1> QED
  BY <1>2, <1>3 DEF RunEnds

-----------------------------------------------------------------------------
\* Messages for the queues, and peer messages.

\* Whatever holds up a session in flight is under way.
LEMMA InFlight == ASSUME NEW x, Base(x), AbortingKnown(x), Streaming(x) PROVE Good(x)
BY RestIsIdle DEF Good

\* A user queues a message.
LEMMA UserQueuesArrives ==
    ASSUME IInv, Roomy, NEW m \in Msgs, NEW mode \in {"steer", "followUp"}, UserQueues(m, mode)
    PROVE  Arrives
<1> DEFINE n == [session EXCEPT !.blocked = FALSE, !.suppressed = FALSE]
           x == [Now EXCEPT !.session = n]
           z == Enqueue(x, m, mode, "user")
           y == ScheduleDrain(z)
<1>1. x = [Now EXCEPT !.session.blocked = FALSE, !.session.suppressed = FALSE]
  BY DEF Now
<1>2. /\ n \in Flags /\ ~n.blocked /\ n.count = session.count /\ n.aborting = session.aborting
      /\ n.settling = session.settling
  <2>1. session \in Flags
    BY Here, Fields, NowIs
  <2> QED
    BY ONLY <2>1 DEF Flags
<1> HIDE DEF n
<1>3. Base(x) /\ AbortingKnown(x) /\ Room(x) /\ Flagged(Now, x, n)
  BY <1>2, Unblocked
<1>4. Becomes(y) /\ msg[m].st = "new"
  BY <1>1 DEF UserQueues, NextMsg
<1> HIDE DEF x
<1>5. x.turn = turn /\ x.abort = abort /\ x.session = n /\ x.msg = msg /\ x.record = record
  BY <1>3, NowIs DEF Flagged
<1>6. Entered(x, z)
  BY <1>2, <1>3, <1>4, <1>5, EnqueueKeeps
<1> HIDE DEF z
<1>7. Base(z) /\ AbortingKnown(z) /\ Able(z)
  BY <1>3, <1>6 DEF Entered, AbortingKnown, Under, Able, Room
<1>8. (y = z /\ NoCall(z)) \/ Started(z, y)
  BY <1>7, ScheduleKeeps
<1> HIDE DEF y
<1>9. CASE Started(z, y)
  <2>1. Good(y)
    BY <1>7, <1>9, StartedDrains DEF Drained
  <2> QED
    BY <1>4, <2>1 DEF Arrives
<1>10. CASE y = z /\ NoCall(z)
  <2>1. ASSUME Resting(z) PROVE Settled(z)
    <3>1. Settled(Now)
      <4>1. /\ SameTurns(Now, z) /\ z.abort = Now.abort
            /\ z.session.settling = Now.session.settling
        BY <1>2, <1>5, <1>6, NowIs DEF Entered, SameTurns
      <4>2. Resting(Now)
        BY <2>1, <4>1, RestStays
      <4> QED
        BY <4>2, Here DEF Good
    <3>2. \A i \in Pending(z) : z.record[i] = "passed"
      BY <1>5, <1>6, <3>1, NowIs DEF Settled, Pending, Entered
    <3>3. ~z.session.aborting
      BY <1>2, <1>5, <1>6, <3>1, NowIs DEF Settled, Entered
    <3> QED
      BY <1>7, <1>10, <2>1, <3>2, <3>3, QuietSettles
  <2>2. Good(y)
    BY <1>7, <1>10, <2>1 DEF Good
  <2> QED
    BY <1>4, <2>2 DEF Arrives
<1> QED
  BY <1>8, <1>9, <1>10

\* A parent steers.
LEMMA ParentSteersArrives ==
    ASSUME IInv, Roomy, NEW m \in Msgs, ParentSteers(m) PROVE Arrives
<1> DEFINE y == Enqueue(Now, m, "steer", "parent")
<1>1. Base(Now) /\ AbortingKnown(Now) /\ Streaming(Now) /\ Now.msg[m].st = "new"
  BY Here, NowIs DEF ParentSteers, NextMsg
<1>2. Becomes(y)
  BY DEF ParentSteers
<1>3. Entered(Now, y)
  BY <1>1, EnqueueKeeps
<1> HIDE DEF y
<1>4. Good(y)
  BY <1>1, <1>3, InFlight DEF Entered, AbortingKnown, Under, Streaming
<1> QED
  BY <1>2, <1>4 DEF Arrives

\* A peer writes: the message waits for the run, or a wake takes it.
LEMMA PeerWritesArrives ==
    ASSUME IInv, Roomy, NEW i \in Records, PeerWrites(i) PROVE Arrives
<1>1. Now \in World /\ Base(Now) /\ AbortingKnown(Now) /\ Room(Now)
  BY Here
<1>2. CASE Streaming(Now)
  <2> DEFINE f == [record EXCEPT ![i] = "pending"]
             y == [Now EXCEPT !.record = f]
  <2>1. Becomes(y)
    BY <1>2 DEF PeerWrites, Now
  <2>2. f \in [Records -> {"new", "pending", "passed", "seen"}]
    BY <1>1, Fields, NowIs
  <2> HIDE DEF f
  <2>3. Noted(Now, y) /\ Base(y)
    BY <1>1, <2>2, NotedIs, NotedKeeps
  <2> HIDE DEF y
  <2>4. Good(y)
    BY <1>1, <1>2, <2>3, InFlight DEF Noted, AbortingKnown, Under, Streaming
  <2> QED
    BY <2>1, <2>4 DEF Arrives
<1>3. CASE ~Streaming(Now)
  <2> DEFINE y == WakeFor(Now, {i})
  <2>1. Becomes(y)
    BY <1>3 DEF PeerWrites
  <2> HIDE DEF y
  <2>2. Started(Now, y)
    BY <1>1, <1>3, WakeKeeps DEF y
  <2>3. Good(y)
    BY <1>1, <2>2, StartedDrains DEF Drained
  <2> QED
    BY <2>1, <2>3 DEF Arrives
<1> QED
  BY <1>2, <1>3

\* An end no turn can continue from.
LEMMA TailSpoilsArrives == ASSUME IInv, Roomy, TailSpoils PROVE Arrives
<1> DEFINE y == [Now EXCEPT !.agent.tail = "other"]
<1>1. Base(Now) /\ AbortingKnown(Now)
  BY Here
<1>2. Becomes(y)
  BY DEF TailSpoils, Becomes, Now
<1>3. Base(y) /\ Tailed(Now, y) /\ y.agent.tail = "other"
  BY <1>1, TailKeeps
<1> HIDE DEF y
<1>4. AbortingKnown(y)
  BY <1>1, <1>3 DEF Tailed, AbortingKnown, Under
<1>5. ASSUME Resting(y) PROVE Settled(y)
  <2>1. Resting(Now)
    BY <1>3, <1>5, RestStays DEF Tailed, SameTurns
  <2>2. Settled(Now)
    BY <2>1, Here DEF Good
  <2>3. HasQueued(y) => HasQueued(Now)
    BY <1>3 DEF Tailed, HasQueued
  <2>4. \A i \in Pending(y) : y.record[i] = "passed"
    BY <1>3, <2>2 DEF Tailed, Settled, Pending
  <2> QED
    BY <1>3, <2>2, <2>3, <2>4 DEF Tailed, Settled
<1> QED
  BY <1>2, <1>3, <1>4, <1>5 DEF Arrives, Good

-----------------------------------------------------------------------------
\* Aborts, and observers.

\* The aborts change: what they wait for is there, and one is under way or
\* the turns, the flags and the run stay what they were.
Aborted(x, y, g) == /\ y \in World /\ y.turn = x.turn /\ y.session = x.session
                    /\ y.agent = x.agent /\ y.msg = x.msg /\ y.record = x.record /\ y.abort = g
LEMMA AbortsChange ==
    ASSUME NEW x, Base(x), NEW g \in [Aborts -> Aborter],
           \A k \in Aborts : /\ g[k].waits => x.agent.by # None
                             /\ \A r \in g[k].tasks : x.turn[r].st # "off",
           NEW y, y = [x EXCEPT !.abort = g]
    PROVE  Base(y) /\ Aborted(x, y, g)
<1>1. x \in World
  BY DEF Base
<1>2. /\ y \in World /\ y.turn = x.turn /\ y.session = x.session /\ y.agent = x.agent
      /\ y.msg = x.msg /\ y.record = x.record /\ y.abort = g
  BY ONLY <1>1, g \in [Aborts -> Aborter], y = [x EXCEPT !.abort = g] DEF World
<1>3. KindsKnown(y) /\ RunKnown(y) /\ AbortsKnown(y)
  BY <1>2 DEF Base, KindsKnown, RunKnown, AbortsKnown
<1>4. Counted(y)
  <2>1. Holding(y) = Holding(x)
    BY <1>2 DEF Holding
  <2> QED
    BY <1>2, <2>1 DEF Base, Counted
<1>5. Placed(y) /\ Lifted(y)
  BY <1>2, PlacedStays DEF Base, SameQueues, Lifted
<1> QED
  BY <1>2, <1>3, <1>4, <1>5 DEF Base, Aborted

\* Turns and runs are cut: nothing the invariant is about changes.
Cut(x, y, n) == /\ y \in World /\ SameTurns(x, y) /\ SameRun(x, y) /\ y.session = n
                /\ y.agent.steering = x.agent.steering /\ y.agent.followUps = x.agent.followUps
                /\ y.msg = x.msg /\ y.record = x.record /\ y.abort = x.abort
LEMMA CutKeeps ==
    ASSUME NEW x, Base(x), NEW n \in Flags, n.count = x.session.count,
           n.blocked = x.session.blocked, NEW y, Cut(x, y, n)
    PROVE  Base(y)
<1>1. SameQueues(x, y) /\ StillLifted(x, y) /\ y.session.count = x.session.count
  BY DEF Cut, SameQueues, StillLifted
<1> QED
  BY <1>1, BaseStays DEF Cut

\* An abort starts.
LEMMA AbortStartsArrives ==
    ASSUME IInv, Roomy, NEW k \in Aborts, NEW user \in BOOLEAN, AbortStarts(k, user)
    PROVE  Arrives
<1> DEFINE h == [abort[k] EXCEPT !.st = "tasks", !.tasks = Active(Now, Resumes)]
           g == [abort EXCEPT ![k] = h]
           f == [t \in Turns |-> [turn[t] EXCEPT !.cut = @ \/ Begun(t)]]
           n == [session EXCEPT !.aborting = TRUE, !.suppressed = @ \/ user]
           a == [agent EXCEPT !.cut = agent.by # None]
           x == [Now EXCEPT !.turn = f, !.session = n, !.agent = a]
           y == [x EXCEPT !.abort = g]
<1>1. /\ Now \in World /\ Base(Now) /\ turn \in [Turns -> Holder] /\ session \in Flags
      /\ agent \in Runner /\ abort \in [Aborts -> Aborter] /\ AbortsKnown(Now)
  BY Here, Fields, NowIs DEF Base
<1>2. Becomes(y)
  BY DEF AbortStarts, Becomes, Now
<1>3. /\ f \in [Turns -> Holder]
      /\ \A t \in Turns : f[t].st = turn[t].st /\ f[t].parked = turn[t].parked
  <2>1. ASSUME NEW t \in Turns
        PROVE  f[t] \in Holder /\ f[t].st = turn[t].st /\ f[t].parked = turn[t].parked
    <3>1. turn[t] \in Holder /\ f[t] = [turn[t] EXCEPT !.cut = @ \/ Begun(t)]
      BY <1>1
    <3>2. Begun(t) \in BOOLEAN
      BY DEF Begun
    <3> QED
      BY ONLY <3>1, <3>2 DEF Holder
  <2> QED
    BY <2>1
<1>4. /\ n \in Flags /\ n.count = session.count /\ n.blocked = session.blocked
  BY ONLY <1>1, user \in BOOLEAN DEF Flags
<1>5. /\ a \in Runner /\ a.by = agent.by /\ a.st = agent.st
      /\ a.steering = agent.steering /\ a.followUps = agent.followUps
  BY ONLY <1>1 DEF Runner
<1> HIDE DEF f, n, a
<1>6. Cut(Now, x, n)
  <2>1. /\ x \in World /\ x.turn = f /\ x.session = n /\ x.agent = a
        /\ x.msg = Now.msg /\ x.record = Now.record /\ x.abort = Now.abort
    BY ONLY <1>1, <1>3, <1>4, <1>5 DEF World
  <2> QED
    BY <1>3, <1>5, <2>1, NowIs DEF Cut, SameTurns, SameRun
<1> HIDE DEF x
<1>7. Base(x)
  BY <1>1, <1>4, <1>6, NowIs, CutKeeps
<1>8. h \in Aborter /\ h.st = "tasks" /\ h.tasks = Active(Now, Resumes) /\ h.waits = abort[k].waits
  <2>1. abort[k] \in Aborter /\ Active(Now, Resumes) \in SUBSET Resumes
    BY <1>1 DEF Active
  <2> QED
    BY ONLY <2>1 DEF Aborter
<1> HIDE DEF h
<1>9. g \in [Aborts -> Aborter] /\ g[k] = h /\ \A j \in Aborts \ {k} : g[j] = abort[j]
  BY <1>1, <1>8
<1> HIDE DEF g
<1>10. \A j \in Aborts : /\ g[j].waits => x.agent.by # None
                         /\ \A r \in g[j].tasks : x.turn[r].st # "off"
  <2>1. /\ x.agent.by = agent.by /\ \A t \in Turns : x.turn[t].st = turn[t].st
    BY <1>6, NowIs DEF Cut, SameRun, SameTurns
  <2>2. \A j \in Aborts : g[j].tasks \subseteq Turns
    BY <1>9, Bounds DEF Aborter
  <2>3. \A r \in h.tasks : turn[r].st # "off"
    BY <1>8, NowIs DEF Active
  <2> QED
    BY <1>1, <1>8, <1>9, <2>1, <2>2, <2>3, NowIs DEF AbortsKnown
<1>11. Base(y) /\ Aborted(x, y, g)
  BY <1>7, <1>9, <1>10, AbortsChange
<1> HIDE DEF y
<1>12. Under(y, k)
  BY <1>8, <1>9, <1>11 DEF Aborted, Under
<1>13. Good(y)
  BY <1>11, <1>12, Busy DEF AbortingKnown
<1> QED
  BY <1>2, <1>13 DEF Arrives

\* Its resumes are over.
LEMMA AbortDrainedArrives ==
    ASSUME IInv, Roomy, NEW k \in Aborts, AbortDrained(k) PROVE Arrives
<1> DEFINE h == [abort[k] EXCEPT !.st = "idle", !.waits = agent.by # None]
           g == [abort EXCEPT ![k] = h]
           y == [Now EXCEPT !.abort = g]
<1>1. Now \in World /\ Base(Now) /\ abort \in [Aborts -> Aborter] /\ AbortsKnown(Now)
  BY Here, Fields, NowIs DEF Base
<1>2. Becomes(y)
  BY DEF AbortDrained, Becomes, Now
<1>3. h \in Aborter /\ h.st = "idle" /\ h.tasks = {} /\ (h.waits => agent.by # None)
  <2>1. abort[k] \in Aborter /\ abort[k].tasks = {}
    BY <1>1 DEF AbortDrained
  <2> QED
    BY ONLY <2>1 DEF Aborter
<1> HIDE DEF h
<1>4. g \in [Aborts -> Aborter] /\ g[k] = h /\ \A j \in Aborts \ {k} : g[j] = abort[j]
  BY <1>1, <1>3
<1> HIDE DEF g
<1>5. \A j \in Aborts : /\ g[j].waits => Now.agent.by # None
                        /\ \A r \in g[j].tasks : Now.turn[r].st # "off"
  BY <1>1, <1>3, <1>4, NowIs DEF AbortsKnown
<1>6. Base(y) /\ Aborted(Now, y, g)
  BY <1>1, <1>4, <1>5, AbortsChange
<1> HIDE DEF y
<1>7. Under(y, k)
  BY <1>3, <1>4, <1>6 DEF Aborted, Under
<1>8. Good(y)
  BY <1>6, <1>7, Busy DEF AbortingKnown
<1> QED
  BY <1>2, <1>8 DEF Arrives

\* It ends: nothing is in flight, and the queue has its turn.
LEMMA AbortEndsArrives ==
    ASSUME IInv, Roomy, NEW k \in Aborts, AbortEnds(k) PROVE Arrives
<1> DEFINE h == [abort[k] EXCEPT !.st = "done"]
           g == [abort EXCEPT ![k] = h]
           x == [Now EXCEPT !.abort = g]
           v == ResetInFlight(x)
           n == [v.session EXCEPT !.aborting = FALSE]
           z == [v EXCEPT !.session = n]
           y == DrainStranded(z)
<1>1. Now \in World /\ Base(Now) /\ abort \in [Aborts -> Aborter] /\ AbortsKnown(Now)
      /\ Room(Now)
  BY Here, Fields, NowIs DEF Base
<1>2. Becomes(y)
  <2>1. x = [Now EXCEPT !.abort[k].st = "done"]
    BY NowIs
  <2> HIDE DEF x
  <2> QED
    BY <2>1 DEF AbortEnds
<1>3. h \in Aborter /\ h.tasks = abort[k].tasks /\ h.waits = abort[k].waits
  <2>1. abort[k] \in Aborter
    BY <1>1
  <2> QED
    BY ONLY <2>1 DEF Aborter
<1> HIDE DEF h
<1>4. g \in [Aborts -> Aborter] /\ g[k] = h /\ \A j \in Aborts \ {k} : g[j] = abort[j]
  BY <1>1, <1>3
<1> HIDE DEF g
<1>5. \A j \in Aborts : /\ g[j].waits => Now.agent.by # None
                        /\ \A r \in g[j].tasks : Now.turn[r].st # "off"
  BY <1>1, <1>3, <1>4, NowIs DEF AbortsKnown
<1>6. Base(x) /\ Aborted(Now, x, g)
  BY <1>1, <1>4, <1>5, AbortsChange
<1> HIDE DEF x
<1>7. Room(x)
  BY <1>1, <1>6 DEF Aborted, Room
<1>8. Base(v) /\ Able(v)
  BY <1>6, <1>7, ResetKeeps DEF Drained
<1> HIDE DEF v
<1>9. v.session \in Flags /\ v \in World
  BY <1>8, Fields DEF Base
<1>10. n \in Flags /\ n.count = v.session.count /\ n.blocked = v.session.blocked /\ ~n.aborting
  BY ONLY <1>9 DEF Flags
<1> HIDE DEF n
<1>11. Uncounted(v) /\ IsFiniteSet(Holding(v)) /\ n.count <= Cardinality(Holding(v))
  BY <1>8, <1>10 DEF Base, Uncounted, Counted
<1>12. Base(z) /\ Flagged(v, z, n)
  BY <1>10, <1>11, FlagsKeep
<1> HIDE DEF z
<1>13. Able(z) /\ AbortingKnown(z)
  BY <1>8, <1>10, <1>12 DEF Flagged, Able, Room, Streaming, AbortingKnown
<1>14. Good(y)
  BY <1>12, <1>13, DrainKeeps DEF Drained
<1> QED
  BY <1>2, <1>14 DEF Arrives

\* The observers of a wake have heard.
LEMMA ObserversHeardArrives == ASSUME IInv, Roomy, ObserversHeard PROVE Arrives
<1> DEFINE left == session.settling - 1
           n == [session EXCEPT !.settling = left]
           x == [Now EXCEPT !.session = n]
           y == DrainStranded(x)
<1>1. session \in Flags
  BY Here, Fields, NowIs
<1>2. x = [Now EXCEPT !.session.settling = @ - 1]
  BY NowIs
<1>3. Becomes(y)
  BY <1>2 DEF ObserversHeard
<1>4. left \in Nat
  BY <1>1 DEF ObserversHeard, Flags
<1> HIDE DEF left
<1>5. /\ n \in Flags /\ n.count = session.count /\ n.aborting = session.aborting
      /\ n.blocked = session.blocked
  BY ONLY <1>1, <1>4 DEF Flags
<1> HIDE DEF n
<1>6. Base(x) /\ AbortingKnown(x) /\ Room(x)
  BY <1>5, Unblocked
<1> HIDE DEF x
<1>7. Good(y)
  BY <1>6, DrainKeeps DEF Drained, Able
<1> QED
  BY <1>3, <1>7 DEF Arrives

-----------------------------------------------------------------------------
\* The invariant.

\* Whatever is done arrives at a good state.
LEMMA ActionsArrive == ASSUME IInv, Roomy, Next PROVE Arrives
<1>1. \A m \in FromParent : m \in Msgs
  BY BoundsAssumption
<1>2. ASSUME NEW p \in Prompts,
             \/ PromptBegins(p) \/ PromptFlushes(p) \/ PromptSends(p) \/ PromptRetries(p)
             \/ PromptEnds(p) \/ PromptAsked(p) \/ PromptFails(p) \/ PromptGivesUp(p)
      PROVE  Arrives
  BY <1>2, PromptAskedArrives, PromptBeginsArrives, PromptEndsArrives, PromptFlushesArrives,
     PromptSendsArrives
<1>3. ASSUME NEW r \in Resumes,
             ResumeSkipped(r) \/ ResumeContinues(r) \/ ResumeEnds(r) \/ ResumeRefused(r)
      PROVE  Arrives
  BY <1>3, ResumeEndsArrives, ResumeContinuesArrives
<1>4. ASSUME NEW w \in Wakes, WakeEnds(w) PROVE Arrives
  BY <1>4, WakeEndsArrives
<1>5. CASE RunClaims \/ RunPolls \/ RunStops \/ RunRefused \/ RunEnds
  BY <1>5, RunClaimsArrives, RunPollsArrives, RunEndsArrives
<1>6. ASSUME NEW k \in Aborts,
             AbortDrained(k) \/ AbortEnds(k) \/ \E user \in BOOLEAN : AbortStarts(k, user)
      PROVE  Arrives
  BY <1>6, AbortDrainedArrives, AbortEndsArrives, AbortStartsArrives
<1>7. CASE ObserversHeard \/ TailSpoils
  BY <1>7, ObserversHeardArrives, TailSpoilsArrives
<1>8. ASSUME NEW m \in Msgs,
             (\E mode \in {"steer", "followUp"} : UserQueues(m, mode)) \/ ParentSteers(m)
      PROVE  Arrives
  BY <1>8, UserQueuesArrives, ParentSteersArrives
<1>9. ASSUME NEW all \in BOOLEAN, Clears(all) PROVE Arrives
  BY <1>9, ClearsArrives
<1>10. ASSUME NEW i \in Records, PeerWrites(i) PROVE Arrives
  BY <1>10, PeerWritesArrives
<1> QED
  BY <1>1, <1>2, <1>3, <1>4, <1>5, <1>6, <1>7, <1>8, <1>9, <1>10 DEF Next, Proceeds

\* A state is made of its fields.
LEMMA Whole == ASSUME NEW y \in World
               PROVE  y = [turn |-> y.turn, session |-> y.session, agent |-> y.agent,
                           msg |-> y.msg, record |-> y.record, abort |-> y.abort]
BY DEF World

\* A step from a good state with room for a turn is to a good state.
LEMMA NextStep == ASSUME IInv, Roomy, [Next]_vars PROVE Good(Now')
<1>1. CASE Next
  <2>1. PICK y : Becomes(y) /\ Good(y)
    BY <1>1, ActionsArrive DEF Arrives
  <2>2. y = [turn |-> y.turn, session |-> y.session, agent |-> y.agent,
             msg |-> y.msg, record |-> y.record, abort |-> y.abort]
    BY <2>1, Whole DEF Good, Base
  <2>3. Now' = y
    BY <2>1, <2>2 DEF Becomes, Now
  <2> QED
    BY <2>1, <2>3
<1>2. CASE UNCHANGED vars
  <2>1. Now' = Now
    BY <1>2 DEF Now, vars
  <2> QED
    BY <2>1 DEF IInv
<1> QED
  BY <1>1, <1>2

\* The first state is good.
LEMMA Initially == Init => IInv
<1> SUFFICES ASSUME Init PROVE Good(Now)
  BY DEF IInv
<1>1. /\ \A t \in Turns : Now.turn[t] = Off
      /\ Now.turn = [t \in Turns |-> Off]
      /\ Now.agent = agent /\ agent.by = None /\ agent.st = "idle"
      /\ agent.steering = <<>> /\ agent.followUps = <<>>
      /\ Now.msg = msg /\ \A m \in Msgs : msg[m].st = "new"
      /\ Now.session = session /\ session.count = 0 /\ ~session.aborting /\ ~session.blocked
      /\ \A k \in Aborts : Now.abort[k].tasks = {} /\ ~Now.abort[k].waits
  BY NowIs DEF Init
<1>2. Off.st = "off" /\ Off.parked = <<>> /\ Off \in Holder
  BY OfNone DEF Off, Holder, TurnStates
<1>3. Now \in World
  <2>1. session \in Flags
    BY DEF Init, Flags
  <2>2. agent \in Runner
    BY OfNone DEF Init, Runner
  <2>3. msg \in [Msgs -> Letter]
    BY DEF Init, Letter
  <2>4. record \in [Records -> {"new", "pending", "passed", "seen"}]
    BY DEF Init
  <2>5. abort \in [Aborts -> Aborter]
    BY DEF Init, Aborter
  <2>6. turn \in [Turns -> Holder]
    BY <1>1, <1>2, NowIs
  <2> QED
    BY ONLY <2>1, <2>2, <2>3, <2>4, <2>5, <2>6 DEF World, Now
<1>4. KindsKnown(Now) /\ RunKnown(Now) /\ AbortsKnown(Now)
  BY <1>1, <1>2, Bounds DEF KindsKnown, RunKnown, AbortsKnown
<1>5. Counted(Now)
  <2>1. Holding(Now) = {}
    BY <1>1, <1>2 DEF Holding
  <2> QED
    BY <1>1, <2>1, FS_EmptySet DEF Counted
<1>6. Placed(Now) /\ Lifted(Now)
  <2>1. Queued(Now) = {} /\ \A w \in Wakes : Parked(Now, w) = {}
    BY <1>1, <1>2, Bounds, OfNone DEF Queued, Parked
  <2> QED
    BY <1>1, <1>2, <2>1, Bounds, OfNone DEF Placed, Lifted
<1>7. AbortingKnown(Now)
  BY <1>1 DEF AbortingKnown
<1>8. Settled(Now)
  <2>1. Pending(Now) = {}
    BY NowIs DEF Init, Pending
  <2>2. ToSet(agent.steering) = {}
    BY <1>1, OfNone
  <2> QED
    BY <1>1, <2>1, <2>2, NowIs DEF Settled, HasQueued
<1> QED
  BY <1>3, <1>4, <1>5, <1>6, <1>7, <1>8 DEF Good, Base

\* The invariant, for any number of prompts, messages and aborts, as long as a resume and a
\* wake are left to begin with.
THEOREM Invariance == Spec /\ []Roomy => []IInv
<1>1. IInv /\ Roomy /\ [Next]_vars => IInv'
  BY NextStep DEF IInv
<1> QED
  BY Initially, <1>1, PTL DEF Spec

-----------------------------------------------------------------------------
\* The bound on turns.

\* The code keeps no pool of resumes or wakes: it starts as many as it needs.
Boundless == ~IsFiniteSet(Resumes) /\ ~IsFiniteSet(Wakes)

\* Only finitely many turns are under way, so an endless pool has one left.
LEMMA RoomIsLeft == ASSUME Boundless, IInv PROVE Roomy
<1>1. IsFiniteSet(Holding(Now)) /\ KindsKnown(Now)
  BY DEF IInv, Good, Base, Counted
<1>2. ASSUME NEW S \in {Resumes, Wakes} PROVE \E t \in S : turn[t].st = "off"
  <2>1. PICK t \in S : t \notin Holding(Now)
    <3>1. ~(S \subseteq Holding(Now))
      BY <1>1, FS_Subset DEF Boundless
    <3> QED
      BY <3>1
  <2>2. turn[t].st = "off"
    BY <1>1, <2>1, Bounds, NowIs DEF Holding, KindsKnown
  <2> QED
    BY <2>2
<1> QED
  BY <1>2 DEF Roomy

\* Without a bound on turns nothing is ever cut off, and the invariant holds of every behaviour.
THEOREM RoomEnough == ASSUME Boundless PROVE Spec => [](Roomy /\ IInv)
<1>1. IInv => Roomy
  BY RoomIsLeft
<1>2. IInv /\ [Next]_vars => IInv'
  BY <1>1, NextStep DEF IInv
<1> QED
  BY Initially, <1>1, <1>2, PTL DEF Spec

-----------------------------------------------------------------------------
\* What the runs check.

\* A queued message is at one place, and no other message is at any.
LEMMA AtOnePlace == ASSUME IInv, NEW m \in Msgs
                    PROVE  Cardinality(Places(m)) = IF msg[m].st = "queued" THEN 1 ELSE 0
<1>1. Placed(Now)
  BY DEF IInv, Good, Base
<1>2. /\ msg[m].st = "queued" <=> \/ m \in ToSet(agent.steering) \/ m \in ToSet(agent.followUps)
                                  \/ \E w \in Wakes : m \in ToSet(turn[w].parked)
      /\ ~(m \in ToSet(agent.steering) /\ m \in ToSet(agent.followUps))
      /\ \A w \in Wakes : m \in ToSet(turn[w].parked) =>
            /\ m \notin ToSet(agent.steering) /\ m \notin ToSet(agent.followUps)
            /\ \A v \in Wakes \ {w} : m \notin ToSet(turn[v].parked)
  BY <1>1, NowIs DEF Placed, Queued, Parked
<1>3. \A p : p \in Places(m) <=> \/ p = "steering" /\ m \in ToSet(agent.steering)
                                 \/ p = "followUps" /\ m \in ToSet(agent.followUps)
                                 \/ p \in Wakes /\ m \in ToSet(turn[p].parked)
  BY DEF Places
<1>4. \A p, q \in Places(m) : p = q
  BY <1>2, <1>3
<1>5. CASE msg[m].st = "queued"
  <2>1. PICK p : p \in Places(m)
    BY <1>2, <1>3, <1>5
  <2>2. Places(m) = {p}
    BY <1>4, <2>1
  <2> QED
    BY <1>5, <2>2, FS_Singleton
<1>6. CASE msg[m].st # "queued"
  <2>1. Places(m) = {}
    BY <1>2, <1>3, <1>6
  <2> QED
    BY <1>6, <2>1, FS_EmptySet
<1> QED
  BY <1>5, <1>6

\* The types, and that a message that is queued is at one place, once: in a queue, or set
\* aside by one wake; TypeOK says that there is room for a turn, too.
LEMMA TypesKnown == ASSUME IInv, Roomy PROVE TypeOK
<1>1. turn \in [Turns -> Holder] /\ session \in Flags /\ Placed(Now)
  BY Here, Fields, NowIs DEF Base
<1>2. IsInjective(agent.steering) /\ IsInjective(agent.followUps)
  BY <1>1, NowIs DEF Placed
<1> QED
  BY <1>1, <1>2, AtOnePlace DEF TypeOK, Holder, TurnStates, Flags

\* Whoever waits, waits for somebody who goes on.
LEMMA SomeoneGoesOn == ASSUME IInv PROVE NeverStuck
<1>1. /\ Base(Now) /\ Now \in World /\ session \in Flags /\ turn \in [Turns -> Holder]
      /\ abort \in [Aborts -> Aborter] /\ agent \in Runner
      /\ KindsKnown(Now) /\ RunKnown(Now) /\ AbortsKnown(Now)
  <2>1. Base(Now) /\ Now \in World
    BY DEF IInv, Good, Base
  <2> QED
    BY <2>1, Fields, NowIs DEF Base
<1>2. CASE agent.by # None
  <2>1. agent.by \in Turns /\ turn[agent.by].st = "running"
    BY <1>1, <1>2, NowIs DEF Runner, RunKnown
  <2>2. GoesOn(agent.by)
    BY <2>1 DEF GoesOn
  <2> QED
    BY <2>1, <2>2 DEF NeverStuck
<1>3. CASE agent.by = None /\ Active(Now, Resumes) # {}
  <2>1. PICK r \in Resumes : turn[r].st \notin {"off", "done"}
    BY <1>3, NowIs DEF Active
  <2>2. r \in Turns /\ turn[r].st \in {"preflight", "ending"}
    BY <1>1, <1>3, <2>1, NowIs, Bounds DEF KindsKnown, RunKnown
  <2>3. GoesOn(r)
    BY <2>2 DEF GoesOn
  <2> QED
    BY <2>2, <2>3 DEF NeverStuck
<1>4. CASE agent.by = None /\ Active(Now, Resumes) = {} /\ Active(Now, Turns) # {}
  <2>1. PICK t \in Turns : turn[t].st \notin {"off", "done"}
    BY <1>4, NowIs DEF Active
  <2>2. turn[t].st # "running"
    BY <1>1, <1>4, NowIs, Bounds DEF RunKnown
  <2>3. Recovered(t)
    BY <1>4 DEF Recovered
  <2>4. GoesOn(t)
    BY <1>4, <2>1, <2>2, <2>3 DEF GoesOn
  <2> QED
    BY <2>1, <2>4 DEF NeverStuck
<1>5. CASE agent.by = None /\ Active(Now, Turns) = {}
  <2>1. CASE \E k \in Aborts : abort[k].st \notin {"new", "done"}
    <3>1. PICK k \in Aborts : abort[k].st \in {"tasks", "idle"}
      BY <1>1, <2>1 DEF Aborter
    <3>2. ~abort[k].waits
      BY <1>1, <1>5, NowIs DEF AbortsKnown
    <3>3. abort[k].tasks = {}
      <4>1. \A r \in abort[k].tasks : r \in Resumes /\ turn[r].st \notin {"off", "done"}
        BY <1>1, NowIs DEF AbortsKnown, KindsKnown, Aborter
      <4> QED
        BY <1>5, <4>1, NowIs, Bounds DEF Active
    <3>4. AbortGoesOn(k)
      BY <3>1, <3>2, <3>3 DEF AbortGoesOn
    <3> QED
      BY <3>4 DEF NeverStuck
  <2>2. CASE ~(\E k \in Aborts : abort[k].st \notin {"new", "done"})
    <3>1. session.settling \in Nat
      BY <1>1 DEF Flags
    <3> QED
      BY <1>5, <2>2, <3>1 DEF NeverStuck, AtRest
  <2> QED
    BY <2>1, <2>2
<1> QED
  BY <1>2, <1>3, <1>4, <1>5, Bounds DEF Active

\* At rest nothing is owed.
LEMMA RestIsSettledHere == ASSUME IInv PROVE RestIsSettled
<1> SUFFICES ASSUME AtRest PROVE Settled(Now)
  BY NowIs DEF RestIsSettled, Settled
<1>1. Resting(Now)
  BY NowIs DEF AtRest, Resting, Under
<1> QED
  BY <1>1 DEF IInv, Good

\* While there is room for a turn every variable has its type, and a queued message is at one
\* place, once.
THEOREM TypeCorrect == Spec /\ []Roomy => []TypeOK
BY Invariance, TypesKnown, PTL

\* Prompts, wakes and aborts never wait in a circle, nor for a run that is not there.
THEOREM NobodyIsStuck == Spec /\ []Roomy => []NeverStuck
BY Invariance, SomeoneGoesOn, PTL

\* A session at rest owes nothing: no count, no abort flag, no peer message, no steering of a
\* user that nothing was tried with, no follow-up without a reason to wait.
THEOREM RestOwesNothing == Spec /\ []Roomy => []RestIsSettled
BY Invariance, RestIsSettledHere, PTL

\* All of it, of the code, which has no bound on turns.
THEOREM WithoutBound ==
    ASSUME Boundless PROVE Spec => [](TypeOK /\ NeverStuck /\ RestIsSettled)
<1>1. IInv /\ Roomy => TypeOK /\ NeverStuck /\ RestIsSettled
  BY TypesKnown, SomeoneGoesOn, RestIsSettledHere
<1> QED
  BY RoomEnough, <1>1, PTL
==============================================================================

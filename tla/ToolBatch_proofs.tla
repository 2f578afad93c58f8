--------------------------- MODULE ToolBatch_proofs ---------------------------
(***************************************************************************)
(* The order, the results and the interrupts of a batch of any length and  *)
(* any mix of calls.                                                       *)
(***************************************************************************)
EXTENDS ToolBatch, WellFoundedInduction, TLAPS

\* A set of naturals with an element has a smallest one.
LEMMA Smallest ==
  ASSUME NEW T \in SUBSET Nat, T # {}
  PROVE  \E x \in T : \A y \in T : x <= y
<1>1. \E x \in T : \A y \in T : ~(y < x)
  <2> DEFINE R == OpToRel(<, Nat)
  <2>1. \A x, y \in T : y < x => <<y, x>> \in R
    BY DEF OpToRel
  <2>2. IsWellFoundedOn(R, Nat)
    BY NatLessThanWellFounded
  <2> HIDE DEF R
  <2>3. \E x \in T : \A y \in T : <<y, x>> \notin R
    BY <2>2, WFMin
  <2> QED BY <2>1, <2>3
<1> QED BY <1>1

\* Whoever precedes an exclusive call, and whoever an exclusive call precedes,
\* is waited for: directly, or through an exclusive call in between.
LEMMA WaitsThrough ==
  ASSUME N \in Nat, batch \in [Calls -> Kind],
         NEW j \in Calls, NEW i \in 1..(j - 1),
         "exclusive" \in {batch[i].mode, batch[j].mode}
  PROVE  \/ i \in WaitsFor(j)
         \/ \E k \in WaitsFor(j) : i < k /\ batch[k].mode = "exclusive"
<1> DEFINE S == {k \in (i + 1)..(j - 1) : batch[k].mode # "shared"}
           T == {j - k : k \in S}
<1>1. CASE S = {}
  BY <1>1 DEF WaitsFor
<1>2. CASE S # {}
  <2>1. T \in SUBSET Nat /\ T # {}
    BY <1>2 DEF Calls
  <2>2. PICK x \in T : \A y \in T : x <= y
    <3> HIDE DEF T
    <3> QED BY <2>1, Smallest
  <2>3. PICK k \in S : x = j - k
    BY <2>2
  <2>4. \A l \in (k + 1)..(j - 1) : l \notin S
    <3> SUFFICES ASSUME NEW l \in (k + 1)..(j - 1), l \in S PROVE FALSE
      OBVIOUS
    <3>1. j - l \in T
      OBVIOUS
    <3>2. j - k <= j - l
      BY <2>2, <2>3, <3>1
    <3> QED BY <3>2 DEF Calls
  <2>5. \A l \in (k + 1)..(j - 1) : batch[l].mode = "shared"
    BY <2>4 DEF Calls
  <2>6. batch[k].mode = "exclusive"
    BY DEF Calls, Kind
  <2>7. k \in WaitsFor(j)
    BY <2>5, <2>6 DEF WaitsFor, Calls
  <2> QED BY <2>6, <2>7 DEF Calls
<1> QED BY <1>1, <1>2

-----------------------------------------------------------------------------
\* The inductive invariant

\* How far a call is decides what it has run and whether it has a result.
CallConsistent(i) ==
  /\ phase[i] \in {"queued", "parked"} => ran[i] = "no"
  /\ phase[i] = "executing" => ran[i] = "started"
  /\ phase[i] = "returned" => ran[i] = "returned"
  /\ phase[i] = "failed" => ran[i] # "returned"
  /\ phase[i] \notin {"checking", "settled"} => result[i] = "none"
  /\ phase[i] = "checking" => result[i] # "none"
  /\ phase[i] = "settled" /\ result[i] = "none" => ran[i] = "no"

\* A foreground call that settled without a result was preempted by steering.
PreemptedBySteering(i) ==
  /\ ~batch[i].interruptible
  /\ phase[i] = "settled" /\ result[i] = "none"
  => steered

IInv ==
  /\ TypeOK
  /\ source = "steering" => steered
  /\ \A i \in Calls : CallConsistent(i) /\ PreemptedBySteering(i)
  /\ closed => \A i \in Calls : phase[i] = "settled"
  /\ TellsWhatHappened
  /\ PeersSpareForeground
  /\ InBatchOrder

\* Every initial state satisfies the invariant.
LEMMA InitInvariant == Init => IInv
<1> SUFFICES ASSUME Init PROVE IInv
  OBVIOUS
<1>1. batch \in [Calls -> Kind]
  BY BatchesAssumption DEF Init
<1>2. steered \in BOOLEAN /\ watching \in BOOLEAN
  BY ImmediateAssumption DEF Init
<1>3. Calls \subseteq Checkers /\ Watcher \notin Calls
  BY NAssumption DEF Calls, Checkers, Watcher
<1>4. /\ check \in [Checkers -> Checks]
      /\ \A i \in Calls : check[i] = "idle"
  BY <1>3 DEF Init, Checks
<1>5. /\ source \in Sources
      /\ source # "none" <=> steered
      /\ source = "steering" => steered
  BY <1>2 DEF Init, Sources
<1>6. TypeOK
  BY <1>1, <1>2, <1>4, <1>5 DEF Init, TypeOK, Triggered, Phases, Runs, Results
<1>7. \A i \in Calls : CallConsistent(i) /\ PreemptedBySteering(i)
  BY DEF Init, CallConsistent, PreemptedBySteering
<1>8. TellsWhatHappened /\ PeersSpareForeground
  BY DEF Init, TellsWhatHappened, Tells, PeersSpareForeground
<1>9. InBatchOrder
  BY DEF Init, InBatchOrder
<1> QED BY <1>5, <1>6, <1>7, <1>8, <1>9 DEF Init, IInv

\* What keeps the order: settled calls stay settled, and a call leaves the
\* queue only when it may start.
Orderly ==
  \A i \in Calls :
    /\ phase[i] = "settled" => phase'[i] = "settled"
    /\ phase'[i] # "queued" => phase[i] # "queued" \/ Startable(i)

\* A step that keeps these facts keeps the order of the batch.
LEMMA OrderKept ==
  ASSUME IInv, Orderly, UNCHANGED batch
  PROVE  InBatchOrder'
<1> SUFFICES ASSUME NEW j \in Calls, NEW i \in 1..(j - 1),
                    "exclusive" \in {batch[i].mode, batch[j].mode},
                    phase'[j] # "queued"
             PROVE  phase'[i] = "settled"
  BY DEF InBatchOrder
<1>1. i \in Calls
  BY NAssumption DEF Calls
<1>2. SUFFICES phase[i] = "settled"
  BY <1>1 DEF Orderly
<1>3. CASE phase[j] # "queued"
  BY <1>3 DEF IInv, InBatchOrder
<1>4. CASE Startable(j)
  <2>1. CASE i \in WaitsFor(j)
    BY <1>4, <2>1 DEF Startable
  <2>2. CASE \E k \in WaitsFor(j) : i < k /\ batch[k].mode = "exclusive"
    <3>1. PICK k \in WaitsFor(j) : i < k /\ batch[k].mode = "exclusive"
      BY <2>2
    <3>2. k \in Calls /\ i \in 1..(k - 1)
      BY <3>1, NAssumption DEF WaitsFor, Calls
    <3>3. phase[k] = "settled"
      BY <1>4, <3>1 DEF Startable
    <3> QED BY <3>1, <3>2, <3>3 DEF IInv, InBatchOrder
  <2> QED BY <2>1, <2>2, NAssumption, WaitsThrough DEF IInv, TypeOK
<1> QED BY <1>3, <1>4 DEF Orderly

\* A call that gets through the gate.
LEMMA LaunchKeeps ==
  ASSUME IInv, NEW x \in Calls,
         phase[x] = "parked" \/ Startable(x), Launch(x)
  PROVE  IInv'
<1> USE NAssumption DEF vars, calls, interrupt, watch, env, Phases, Runs, Results, Sources, Checks
<1>1. TypeOK'
  <2> USE DEF IInv, TypeOK, Calls, Checkers
  <2>1. (phase \in [Calls -> Phases])'
    <3>1. PICK p \in Phases : phase' = [phase EXCEPT ![x] = p]
      BY DEF Launch
    <3> QED
      BY ONLY <3>1, IInv DEF IInv, TypeOK, Phases
  <2>2. (ran \in [Calls -> Runs] /\ result \in [Calls -> Results])'
    <3>1. CASE ran' = ran
      BY <3>1 DEF Launch
    <3>2. CASE result' = result
      BY <3>2 DEF Launch
    <3> QED BY <3>1, <3>2 DEF Launch
  <2>3. (check \in [Checkers -> Checks] /\ source \in Sources /\ batch \in [Calls -> Kind])'
    BY DEF Launch, Startable
  <2>4. (/\ steered \in BOOLEAN /\ notified \in BOOLEAN /\ watching \in BOOLEAN
         /\ steering \in BOOLEAN /\ peer \in BOOLEAN
         /\ aborted \in BOOLEAN /\ paused \in BOOLEAN /\ closed \in BOOLEAN)'
    BY DEF Launch, Startable
  <2>5. ((steered => Triggered) /\ (notified => watching))'
    BY DEF Triggered, Launch, Startable
  <2>6. (\A i \in Calls : check[i] # "idle" <=> phase[i] = "checking")'
    BY DEF Watcher, Timer, Launch, Startable
  <2> QED BY <2>1, <2>2, <2>3, <2>4, <2>5, <2>6
<1>2. (source = "steering" => steered)'
  BY DEF IInv, Launch, Startable
<1>3. \A i \in Calls : CallConsistent(i)' /\ PreemptedBySteering(i)'
  BY DEF IInv, TypeOK, CallConsistent, PreemptedBySteering, Triggered, Launch, Startable
<1>4. (closed => \A i \in Calls : phase[i] = "settled")'
  BY DEF IInv, TypeOK, Launch, Startable
<1>5. TellsWhatHappened'
  BY DEF IInv, TypeOK, TellsWhatHappened, Tells, CallConsistent, Triggered, Launch, Startable
<1>6. PeersSpareForeground'
  BY DEF IInv, TypeOK, PeersSpareForeground, PreemptedBySteering, SignalAborted, Triggered, Launch, Startable
<1>7. Orderly /\ UNCHANGED batch
  BY DEF IInv, TypeOK, Orderly, Launch, Startable
<1> QED BY <1>1, <1>2, <1>3, <1>4, <1>5, <1>6, <1>7, OrderKept DEF IInv


\* A call that is preempted, or that parks.
LEMMA PreemptKeeps ==
  ASSUME IInv, NEW x \in Calls, Preempt(x) \/ Park(x)
  PROVE  IInv'
<1> USE NAssumption DEF vars, calls, interrupt, watch, env, Phases, Runs, Results, Sources, Checks
<1>1. TypeOK'
  BY DEF IInv, TypeOK, Triggered, Calls, Checkers, Watcher, Timer, Preempt, Park, Startable, Preempted
<1>2. (source = "steering" => steered)'
  BY DEF IInv, Preempt, Park, Startable, Preempted
<1>3. \A i \in Calls : CallConsistent(i)' /\ PreemptedBySteering(i)'
  BY DEF IInv, TypeOK, CallConsistent, PreemptedBySteering, Triggered, Preempt, Park, Startable, Preempted
<1>4. (closed => \A i \in Calls : phase[i] = "settled")'
  BY DEF IInv, TypeOK, Preempt, Park, Startable, Preempted
<1>5. TellsWhatHappened'
  BY DEF IInv, TypeOK, TellsWhatHappened, Tells, CallConsistent, Triggered, Preempt, Park, Startable, Preempted
<1>6. PeersSpareForeground'
  BY DEF IInv, TypeOK, PeersSpareForeground, PreemptedBySteering, SignalAborted, Triggered, Preempt, Park, Startable, Preempted
<1>7. Orderly /\ UNCHANGED batch
  BY DEF IInv, TypeOK, Orderly, Preempt, Park, Startable, Preempted
<1> QED BY <1>1, <1>2, <1>3, <1>4, <1>5, <1>6, <1>7, OrderKept DEF IInv


\* execute returns or throws.
LEMMA ExecuteKeeps ==
  ASSUME IInv, NEW x \in Calls, Return(x) \/ Throw(x)
  PROVE  IInv'
<1> USE NAssumption DEF vars, calls, interrupt, watch, env, Phases, Runs, Results, Sources, Checks
<1>1. TypeOK'
  <2> USE DEF IInv, TypeOK, Calls, Checkers
  <2>1. (phase \in [Calls -> Phases])'
    BY DEF Return, Throw
  <2>2. (ran \in [Calls -> Runs] /\ result \in [Calls -> Results])'
    BY DEF Return, Throw
  <2>3. (check \in [Checkers -> Checks] /\ source \in Sources /\ batch \in [Calls -> Kind])'
    BY DEF Return, Throw
  <2>4. (/\ steered \in BOOLEAN /\ notified \in BOOLEAN /\ watching \in BOOLEAN
         /\ steering \in BOOLEAN /\ peer \in BOOLEAN
         /\ aborted \in BOOLEAN /\ paused \in BOOLEAN /\ closed \in BOOLEAN)'
    BY DEF Return, Throw
  <2>5. ((steered => Triggered) /\ (notified => watching))'
    BY DEF Triggered, Return, Throw
  <2>6. (\A i \in Calls : check[i] # "idle" <=> phase[i] = "checking")'
    BY DEF Watcher, Timer, Return, Throw
  <2> QED BY <2>1, <2>2, <2>3, <2>4, <2>5, <2>6
<1>2. (source = "steering" => steered)'
  BY DEF IInv, Return, Throw
<1>3. \A i \in Calls : CallConsistent(i)' /\ PreemptedBySteering(i)'
  BY DEF IInv, TypeOK, CallConsistent, PreemptedBySteering, Triggered, Return, Throw
<1>4. (closed => \A i \in Calls : phase[i] = "settled")'
  BY DEF IInv, TypeOK, Return, Throw
<1>5. TellsWhatHappened'
  BY DEF IInv, TypeOK, TellsWhatHappened, Tells, CallConsistent, Triggered, Return, Throw
<1>6. PeersSpareForeground'
  BY DEF IInv, TypeOK, PeersSpareForeground, PreemptedBySteering, SignalAborted, Triggered, Return, Throw
<1>7. Orderly /\ UNCHANGED batch
  BY DEF IInv, TypeOK, Orderly, Return, Throw
<1> QED BY <1>1, <1>2, <1>3, <1>4, <1>5, <1>6, <1>7, OrderKept DEF IInv


\* A result is emitted.
LEMMA EmitKeeps ==
  ASSUME IInv, NEW x \in Calls, Emit(x)
  PROVE  IInv'
<1> USE NAssumption DEF vars, calls, interrupt, watch, env, Phases, Runs, Results, Sources, Checks
<1>1. TypeOK'
  <2> USE DEF IInv, TypeOK, Calls, Checkers
  <2>1. (phase \in [Calls -> Phases])'
    BY DEF Emit, Outcome
  <2>2. (ran \in [Calls -> Runs] /\ result \in [Calls -> Results])'
    BY DEF Emit, Outcome
  <2>3. (check \in [Checkers -> Checks] /\ source \in Sources /\ batch \in [Calls -> Kind])'
    BY DEF Emit, Outcome
  <2>4. (/\ steered \in BOOLEAN /\ notified \in BOOLEAN /\ watching \in BOOLEAN
         /\ steering \in BOOLEAN /\ peer \in BOOLEAN
         /\ aborted \in BOOLEAN /\ paused \in BOOLEAN /\ closed \in BOOLEAN)'
    BY DEF Emit, Outcome
  <2>5. ((steered => Triggered) /\ (notified => watching))'
    BY DEF Triggered, Emit, Outcome
  <2>6. (\A i \in Calls : check[i] # "idle" <=> phase[i] = "checking")'
    BY DEF Watcher, Timer, Emit, Outcome
  <2> QED BY <2>1, <2>2, <2>3, <2>4, <2>5, <2>6
<1>2. (source = "steering" => steered)'
  BY DEF IInv, Emit, Outcome
<1>3. \A i \in Calls : CallConsistent(i)' /\ PreemptedBySteering(i)'
  BY DEF IInv, TypeOK, CallConsistent, PreemptedBySteering, Triggered, Emit, Outcome
<1>4. (closed => \A i \in Calls : phase[i] = "settled")'
  BY DEF IInv, TypeOK, Emit, Outcome
<1>5. TellsWhatHappened'
  BY DEF IInv, TypeOK, TellsWhatHappened, Tells, CallConsistent, Triggered, Emit, Outcome
<1>6. PeersSpareForeground'
  BY DEF IInv, TypeOK, PeersSpareForeground, PreemptedBySteering, SignalAborted, Triggered, Emit, Outcome
<1>7. Orderly /\ UNCHANGED batch
  BY DEF IInv, TypeOK, Orderly, Emit, Outcome
<1> QED BY <1>1, <1>2, <1>3, <1>4, <1>5, <1>6, <1>7, OrderKept DEF IInv


\* A check of the queues goes on or ends.
LEMMA CheckKeeps ==
  ASSUME IInv, NEW c \in Checkers, Check(c)
  PROVE  IInv'
<1> USE NAssumption DEF vars, calls, interrupt, watch, env, Phases, Runs, Results, Sources, Checks
<1>1. TypeOK'
  <2> USE DEF IInv, TypeOK, Calls, Checkers
  <2>1. (phase \in [Calls -> Phases])'
    BY DEF Check, FindSteering, AskPeers, FindPeer, Checked
  <2>2. (ran \in [Calls -> Runs] /\ result \in [Calls -> Results])'
    BY DEF Check, FindSteering, AskPeers, FindPeer, Checked
  <2>3. (check \in [Checkers -> Checks] /\ source \in Sources /\ batch \in [Calls -> Kind])'
    BY DEF Check, FindSteering, AskPeers, FindPeer, Checked
  <2>4. (/\ steered \in BOOLEAN /\ notified \in BOOLEAN /\ watching \in BOOLEAN
         /\ steering \in BOOLEAN /\ peer \in BOOLEAN
         /\ aborted \in BOOLEAN /\ paused \in BOOLEAN /\ closed \in BOOLEAN)'
    BY DEF Check, FindSteering, AskPeers, FindPeer, Checked
  <2>5. ((steered => Triggered) /\ (notified => watching))'
    BY DEF Triggered, Check, FindSteering, AskPeers, FindPeer, Checked
  <2>6. (\A i \in Calls : check[i] # "idle" <=> phase[i] = "checking")'
    BY DEF Watcher, Timer, Check, FindSteering, AskPeers, FindPeer, Checked
  <2> QED BY <2>1, <2>2, <2>3, <2>4, <2>5, <2>6
<1>2. (source = "steering" => steered)'
  BY DEF IInv, Check, FindSteering, AskPeers, FindPeer, Checked
<1>3. \A i \in Calls : CallConsistent(i)' /\ PreemptedBySteering(i)'
  BY DEF IInv, TypeOK, CallConsistent, PreemptedBySteering, Triggered, Check, FindSteering, AskPeers, FindPeer, Checked
<1>4. (closed => \A i \in Calls : phase[i] = "settled")'
  BY DEF IInv, TypeOK, Check, FindSteering, AskPeers, FindPeer, Checked
<1>5. TellsWhatHappened'
  BY DEF IInv, TypeOK, TellsWhatHappened, Tells, CallConsistent, Triggered, Check, FindSteering, AskPeers, FindPeer, Checked
<1>6. PeersSpareForeground'
  BY DEF IInv, TypeOK, PeersSpareForeground, PreemptedBySteering, SignalAborted, Triggered, Check, FindSteering, AskPeers, FindPeer, Checked
<1>7. Orderly /\ UNCHANGED batch
  BY DEF IInv, TypeOK, Orderly, Check, FindSteering, AskPeers, FindPeer, Checked
<1> QED BY <1>1, <1>2, <1>3, <1>4, <1>5, <1>6, <1>7, OrderKept DEF IInv


\* The batch closes.
LEMMA CloseKeeps ==
  ASSUME IInv, Close
  PROVE  IInv'
<1> USE NAssumption DEF vars, calls, interrupt, watch, env, Phases, Runs, Results, Sources, Checks
<1>1. TypeOK'
  <2> USE DEF IInv, TypeOK, Calls, Checkers
  <2>1. (phase \in [Calls -> Phases])'
    BY DEF Close
  <2>2. (ran \in [Calls -> Runs] /\ result \in [Calls -> Results])'
    BY DEF Close
  <2>3. (check \in [Checkers -> Checks] /\ source \in Sources /\ batch \in [Calls -> Kind])'
    BY DEF Close
  <2>4. (/\ steered \in BOOLEAN /\ notified \in BOOLEAN /\ watching \in BOOLEAN
         /\ steering \in BOOLEAN /\ peer \in BOOLEAN
         /\ aborted \in BOOLEAN /\ paused \in BOOLEAN /\ closed \in BOOLEAN)'
    BY DEF Close
  <2>5. ((steered => Triggered) /\ (notified => watching))'
    BY DEF Triggered, Close
  <2>6. (\A i \in Calls : check[i] # "idle" <=> phase[i] = "checking")'
    BY DEF Watcher, Timer, Close
  <2> QED BY <2>1, <2>2, <2>3, <2>4, <2>5, <2>6
<1>2. (source = "steering" => steered)'
  BY DEF IInv, Close
<1>3. \A i \in Calls : CallConsistent(i)' /\ PreemptedBySteering(i)'
  BY DEF IInv, TypeOK, CallConsistent, PreemptedBySteering, Triggered, Close
<1>4. (closed => \A i \in Calls : phase[i] = "settled")'
  BY DEF IInv, TypeOK, Close
<1>5. TellsWhatHappened'
  BY DEF IInv, TypeOK, TellsWhatHappened, Tells, CallConsistent, Triggered, Close
<1>6. PeersSpareForeground'
  BY DEF IInv, TypeOK, PeersSpareForeground, PreemptedBySteering, SignalAborted, Triggered, Close
<1>7. Orderly /\ UNCHANGED batch
  BY DEF IInv, TypeOK, Orderly, Close
<1> QED BY <1>1, <1>2, <1>3, <1>4, <1>5, <1>6, <1>7, OrderKept DEF IInv


\* The watcher and the timer look at the queues.
LEMMA WatchKeeps ==
  ASSUME IInv, WatcherLooks \/ TimerPolls
  PROVE  IInv'
<1> USE NAssumption DEF vars, calls, interrupt, watch, env, Phases, Runs, Results, Sources, Checks
<1>1. TypeOK'
  BY SMTT(30) DEF IInv, TypeOK, Triggered, Calls, Checkers, Watcher, Timer, WatcherLooks, TimerPolls
<1>2. (source = "steering" => steered)'
  BY DEF IInv, WatcherLooks, TimerPolls
<1>3. \A i \in Calls : CallConsistent(i)' /\ PreemptedBySteering(i)'
  BY DEF IInv, TypeOK, CallConsistent, PreemptedBySteering, Triggered, WatcherLooks, TimerPolls
<1>4. (closed => \A i \in Calls : phase[i] = "settled")'
  BY DEF IInv, TypeOK, WatcherLooks, TimerPolls
<1>5. TellsWhatHappened'
  BY DEF IInv, TypeOK, TellsWhatHappened, Tells, CallConsistent, Triggered, WatcherLooks, TimerPolls
<1>6. PeersSpareForeground'
  BY DEF IInv, TypeOK, PeersSpareForeground, PreemptedBySteering, SignalAborted, Triggered, WatcherLooks, TimerPolls
<1>7. Orderly /\ UNCHANGED batch
  BY DEF IInv, TypeOK, Orderly, WatcherLooks, TimerPolls
<1> QED BY <1>1, <1>2, <1>3, <1>4, <1>5, <1>6, <1>7, OrderKept DEF IInv


\* What happens around the batch.
LEMMA EnvKeeps ==
  ASSUME IInv, Steer \/ Retract \/ PeerMessage \/ Abort \/ Pause \/ Resume \/ UNCHANGED vars
  PROVE  IInv'
<1> USE NAssumption DEF vars, calls, interrupt, watch, env, Phases, Runs, Results, Sources, Checks
<1>1. TypeOK'
  <2> USE DEF IInv, TypeOK, Calls, Checkers
  <2>1. (phase \in [Calls -> Phases])'
    BY DEF Steer, Retract, PeerMessage, Abort, Pause, Resume
  <2>2. (ran \in [Calls -> Runs] /\ result \in [Calls -> Results])'
    BY DEF Steer, Retract, PeerMessage, Abort, Pause, Resume
  <2>3. (check \in [Checkers -> Checks] /\ source \in Sources /\ batch \in [Calls -> Kind])'
    BY DEF Steer, Retract, PeerMessage, Abort, Pause, Resume
  <2>4. (/\ steered \in BOOLEAN /\ notified \in BOOLEAN /\ watching \in BOOLEAN
         /\ steering \in BOOLEAN /\ peer \in BOOLEAN
         /\ aborted \in BOOLEAN /\ paused \in BOOLEAN /\ closed \in BOOLEAN)'
    BY DEF Steer, Retract, PeerMessage, Abort, Pause, Resume
  <2>5. ((steered => Triggered) /\ (notified => watching))'
    BY DEF Triggered, Steer, Retract, PeerMessage, Abort, Pause, Resume
  <2>6. (\A i \in Calls : check[i] # "idle" <=> phase[i] = "checking")'
    BY DEF Watcher, Timer, Steer, Retract, PeerMessage, Abort, Pause, Resume
  <2> QED BY <2>1, <2>2, <2>3, <2>4, <2>5, <2>6
<1>2. (source = "steering" => steered)'
  BY DEF IInv, Steer, Retract, PeerMessage, Abort, Pause, Resume
<1>3. \A i \in Calls : CallConsistent(i)' /\ PreemptedBySteering(i)'
  BY DEF IInv, TypeOK, CallConsistent, PreemptedBySteering, Triggered, Steer, Retract, PeerMessage, Abort, Pause, Resume
<1>4. (closed => \A i \in Calls : phase[i] = "settled")'
  BY DEF IInv, TypeOK, Steer, Retract, PeerMessage, Abort, Pause, Resume
<1>5. TellsWhatHappened'
  BY DEF IInv, TypeOK, TellsWhatHappened, Tells, CallConsistent, Triggered, Steer, Retract, PeerMessage, Abort, Pause, Resume
<1>6. PeersSpareForeground'
  BY DEF IInv, TypeOK, PeersSpareForeground, PreemptedBySteering, SignalAborted, Triggered, Steer, Retract, PeerMessage, Abort, Pause, Resume
<1>7. Orderly /\ UNCHANGED batch
  BY DEF IInv, TypeOK, Orderly, Steer, Retract, PeerMessage, Abort, Pause, Resume
<1> QED BY <1>1, <1>2, <1>3, <1>4, <1>5, <1>6, <1>7, OrderKept DEF IInv


-----------------------------------------------------------------------------
\* The theorems

\* The invariant holds of every reachable state, for every number of calls.
THEOREM Invariance == Spec => []IInv
<1>1. ASSUME IInv, [Next]_vars PROVE IInv'
  <2>1. CASE Next
    BY <1>1, <2>1, LaunchKeeps, PreemptKeeps, ExecuteKeeps, EmitKeeps, CheckKeeps, CloseKeeps,
       WatchKeeps, EnvKeeps DEF Next, Start, RunTool, Unpark, Done
  <2>2. CASE UNCHANGED vars
    BY <1>1, <2>2, EnvKeeps
  <2> QED BY <1>1, <2>1, <2>2
<1> QED BY InitInvariant, <1>1, PTL DEF Spec

\* Type correctness of a batch.
THEOREM TypeCorrect == Spec => []TypeOK
<1>1. IInv => TypeOK
  BY DEF IInv
<1> QED BY Invariance, <1>1, PTL

\* An exclusive call never shares the batch.
THEOREM ExclusiveOrder == Spec => []InBatchOrder
<1>1. IInv => InBatchOrder
  BY DEF IInv
<1> QED BY Invariance, <1>1, PTL

\* A result message tells what happened to its call.
THEOREM HonestResults == Spec => []TellsWhatHappened
<1>1. IInv => TellsWhatHappened
  BY DEF IInv
<1> QED BY Invariance, <1>1, PTL

\* A peer's interrupt alone costs no foreground call anything.
THEOREM PeersHarmless == Spec => []PeersSpareForeground
<1>1. IInv => PeersSpareForeground
  BY DEF IInv
<1> QED BY Invariance, <1>1, PTL

\* No tool starts at an engaged gate or under its own aborted signal.
THEOREM StartsGuarded == Spec => StartsAllowed
<1>1. ASSUME NEW i \in Calls, IInv, Starts(i), Next
      PROVE  ~paused /\ ~SignalAborted(i)
  <2> USE <1>1 DEF Starts, vars, calls
  <2>1. PICK x \in Calls : RunTool(x) \/ Unpark(x) \/ Return(x)
    BY DEF Next, Start, Preempt, Park, Throw, Emit, Check, FindSteering, AskPeers, FindPeer, Checked,
           WatcherLooks, TimerPolls, Close, Steer, Retract, PeerMessage, Abort, Pause, Resume, Done
  <2>2. CASE Return(x)
    BY <2>2 DEF Return, IInv, TypeOK, CallConsistent
  <2>3. CASE RunTool(x) \/ Unpark(x)
    BY <2>3 DEF RunTool, Unpark, Launch, IInv, TypeOK
  <2> QED BY <2>1, <2>2, <2>3
<1>2. IInv /\ [Next]_vars => [\A i \in Calls : Starts(i) => ~paused /\ ~SignalAborted(i)]_vars
  BY <1>1
<1> QED BY Invariance, <1>2, PTL DEF Spec, StartsAllowed
=============================================================================

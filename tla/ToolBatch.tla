----------------------------- MODULE ToolBatch -----------------------------
(* The tool calls of one assistant message, run by executeToolCalls of       *)
(* src/packages/agent/src/agent-loop.ts: exclusive and shared calls, the     *)
(* process-wide pause gate, the run's abort signal, and the steering and     *)
(* peer messages that interrupt the batch while it runs.                     *)
(*                                                                           *)
(* A step is a stretch of JavaScript between two awaits.  Steering and peer  *)
(* messages are one bit each: whether any is queued.                         *)
EXTENDS Integers, FiniteSets

CONSTANTS
    N,          \* how many calls the message makes
    Batches,    \* the batches considered: functions from 1..N to Kind
    Immediate   \* interruptMode # "wait"

ASSUME NAssumption == N \in Nat
ASSUME ImmediateAssumption == Immediate \in BOOLEAN

Calls == 1..N

\* What the prepared dispatch says of a call.
Kind == [mode : {"shared", "exclusive"},
         interruptible : BOOLEAN,
         prepared : {"ok", "invalid", "blocked"}]

ASSUME BatchesAssumption == Batches \subseteq [Calls -> Kind]

\* Those that run checkSteering or checkIrcInterrupts: a call that has emitted
\* its result, the watcher of the steering queue, and the IRC poll timer.
Watcher == 0
Timer == N + 1
Checkers == 0..(N + 1)

VARIABLES
    batch,      \* the batch at hand
    phase,      \* how far runTool is with each call
    ran,        \* whether tool.execute was called, and returned
    result,     \* the result message of each call
    source,     \* interruptState: "none" while it is not triggered
    steered,    \* steeringAbortController has aborted
    check,      \* how far each checker is
    notified,   \* waitForSteeringMessages, as last subscribed, has resolved
    watching,   \* the watcher's loop goes on
    steering,   \* the agent's steering queue is not empty
    peer,       \* an interrupting IRC record waits
    aborted,    \* the run's signal has aborted
    paused,     \* agentPauseGate is engaged
    closed      \* executeToolCalls has returned

calls == <<batch, phase, ran, result>>
interrupt == <<source, steered, check>>
watch == <<notified, watching>>
env == <<steering, peer, aborted, paused>>
vars == <<calls, interrupt, watch, env, closed>>

-----------------------------------------------------------------------------
\* Helpers

Triggered == source # "none"

\* record.signal: steering and IRC aborts reach interruptible calls only.
SignalAborted(i) == aborted \/ (batch[i].interruptible /\ Triggered)

\* Mutant: an exclusive call waits for the last exclusive one only.
WaitsFor_ExclusiveOnly(i) ==
    {j \in 1..(i - 1) :
        /\ \A k \in (j + 1)..(i - 1) : batch[k].mode = "shared"
        /\ batch[j].mode = "exclusive"}

\* The earlier calls whose tasks call i's start promise waits for: the last
\* exclusive one, and for an exclusive call the shared ones since.
WaitsFor(i) ==
    {j \in 1..(i - 1) :
        /\ \A k \in (j + 1)..(i - 1) : batch[k].mode = "shared"
        /\ "exclusive" \in {batch[i].mode, batch[j].mode}}

\* Mutant: any interrupt preempts any call.
Preempted_ByPeers(i) == Triggered

\* A pending interrupt preempts a call not yet started; a peer's preempts
\* interruptible calls only.
Preempted(i) == Triggered /\ (batch[i].interruptible \/ source # "irc")

-----------------------------------------------------------------------------
\* Initial states

\* Steering that is queued before the batch is seen by the watcher's first
\* check, which is over before the first runTool starts.
Init ==
    /\ batch \in Batches
    /\ phase = [i \in Calls |-> "queued"]
    /\ ran = [i \in Calls |-> "no"]
    /\ result = [i \in Calls |-> "none"]
    /\ steering \in BOOLEAN
    /\ peer \in BOOLEAN
    /\ aborted \in BOOLEAN
    /\ paused \in BOOLEAN
    /\ steered = (Immediate /\ steering /\ ~aborted)
    /\ source = IF steered THEN "steering" ELSE "none"
    /\ watching = (Immediate /\ ~aborted /\ ~steering)
    /\ check = [c \in Checkers |-> IF c = Watcher /\ watching THEN "clear" ELSE "idle"]
    /\ notified = FALSE
    /\ closed = FALSE

-----------------------------------------------------------------------------
\* runTool

\* runTool past the pause gate: validation errors answer at once, a call whose
\* signal has aborted is not executed, the others start.
Launch(i) ==
    /\ \/ /\ batch[i].prepared = "invalid"
          /\ result' = [result EXCEPT ![i] = "invalid"]
          /\ phase' = [phase EXCEPT ![i] = "settled"]
          /\ UNCHANGED ran
       \/ /\ batch[i].prepared # "invalid"
          /\ SignalAborted(i)
          /\ result' = [result EXCEPT ![i] = "aborted"]
          /\ phase' = [phase EXCEPT ![i] = "settled"]
          /\ UNCHANGED ran
       \/ /\ batch[i].prepared = "blocked"
          /\ ~SignalAborted(i)
          /\ phase' = [phase EXCEPT ![i] = "failed"]
          /\ UNCHANGED <<ran, result>>
       \/ /\ batch[i].prepared = "ok"
          /\ ~SignalAborted(i)
          /\ phase' = [phase EXCEPT ![i] = "executing"]
          /\ ran' = [ran EXCEPT ![i] = "started"]
          /\ UNCHANGED result
    /\ UNCHANGED <<batch, interrupt, watch, env, closed>>

Startable(i) ==
    /\ phase[i] = "queued"
    /\ \A j \in WaitsFor(i) : phase[j] = "settled"

\* runTool, first branch: the call is left to the sweep.
Preempt(i) ==
    /\ Startable(i)
    /\ Preempted(i)
    /\ phase' = [phase EXCEPT ![i] = "settled"]
    /\ UNCHANGED <<batch, ran, result, interrupt, watch, env, closed>>

\* runTool meets the engaged gate and parks.
Park(i) ==
    /\ Startable(i)
    /\ ~Preempted(i)
    /\ paused /\ ~SignalAborted(i)
    /\ phase' = [phase EXCEPT ![i] = "parked"]
    /\ UNCHANGED <<batch, ran, result, interrupt, watch, env, closed>>

\* runTool goes straight through.
RunTool(i) ==
    /\ Startable(i)
    /\ ~Preempted(i)
    /\ ~paused \/ SignalAborted(i)
    /\ Launch(i)

\* Mutant: a call that has waited at the gate does not look at it again.
Unpark_NoRepark(i) ==
    /\ phase[i] = "parked"
    /\ Launch(i)

\* Mutant: the gate does not listen to the call's signal.
Unpark_DeafToAbort(i) ==
    /\ phase[i] = "parked"
    /\ ~paused
    /\ Launch(i)

\* waitUntilResumed lets the call through.
Unpark(i) ==
    /\ phase[i] = "parked"
    /\ ~paused \/ SignalAborted(i)
    /\ Launch(i)

\* tool.execute returns, with a good result or an error result.
Return(i) ==
    /\ phase[i] = "executing"
    /\ phase' = [phase EXCEPT ![i] = "returned"]
    /\ ran' = [ran EXCEPT ![i] = "returned"]
    /\ UNCHANGED <<batch, result, interrupt, watch, env, closed>>

\* tool.execute throws, by itself or because its signal aborted.
Throw(i) ==
    /\ phase[i] = "executing"
    /\ phase' = [phase EXCEPT ![i] = "failed"]
    /\ UNCHANGED <<batch, ran, result, interrupt, watch, env, closed>>

\* Mutant: the result of a completed call is thrown away under an interrupt.
Outcome_Clobbers(i) ==
    IF ~Triggered \/ ~SignalAborted(i)
    THEN IF phase[i] = "returned" THEN "real" ELSE "error"
    ELSE "interrupted"

\* What the result message of a finished call says: a call that failed under
\* an interrupt on its own signal is reported as interrupted.
Outcome(i) ==
    IF phase[i] = "returned" THEN "real"
    ELSE IF ~Triggered \/ ~SignalAborted(i) THEN "error"
    ELSE IF ran[i] = "started" THEN "interrupted"
    ELSE "skipped"

-----------------------------------------------------------------------------
\* checkSteering and checkIrcInterrupts

\* Mutant: the watcher checks first and subscribes when the check is over, so
\* it forgets what was queued in between.
Checked_ThenSubscribes(c) ==
    /\ check' = [check EXCEPT ![c] = "idle"]
    /\ phase' = IF c \in Calls THEN [phase EXCEPT ![c] = "settled"] ELSE phase
    /\ watching' = (watching /\ (c = Watcher => source' = "none"))
    /\ notified' = (notified /\ c # Watcher)
    /\ UNCHANGED <<batch, ran, result, env, closed>>

\* A check that is over resolves the call's task; the watcher goes back to its
\* subscription, or stops under an interrupt.
Checked(c) ==
    /\ check' = [check EXCEPT ![c] = "idle"]
    /\ phase' = IF c \in Calls THEN [phase EXCEPT ![c] = "settled"] ELSE phase
    /\ watching' = (watching /\ (c = Watcher => source' = "none"))
    /\ notified' = (notified /\ watching')
    /\ UNCHANGED <<batch, ran, result, env, closed>>

\* Mutant: the task does not await the check it started.
Emit_ChecksUnawaited(i) ==
    /\ phase[i] \in {"returned", "failed"}
    /\ result' = [result EXCEPT ![i] = Outcome(i)]
    /\ phase' = [phase EXCEPT ![i] = "settled"]
    /\ IF Immediate /\ ~aborted
       THEN check' = [check EXCEPT ![i] = IF steering THEN "steering" ELSE "clear"]
       ELSE UNCHANGED check
    /\ UNCHANGED <<batch, ran, source, steered, watch, env, closed>>

\* The end of runTool: emit the result, then ask the steering queue.
Emit(i) ==
    /\ phase[i] \in {"returned", "failed"}
    /\ result' = [result EXCEPT ![i] = Outcome(i)]
    /\ \/ /\ ~Immediate \/ aborted
          /\ phase' = [phase EXCEPT ![i] = "settled"]
          /\ UNCHANGED check
       \/ /\ Immediate /\ ~aborted
          /\ phase' = [phase EXCEPT ![i] = "checking"]
          /\ check' = [check EXCEPT ![i] = IF steering THEN "steering" ELSE "clear"]
    /\ UNCHANGED <<batch, ran, source, steered, watch, env, closed>>

\* Steering was found: the first time, it triggers the interrupt or takes it
\* over from a peer.
FindSteering(c) ==
    /\ check[c] = "steering"
    /\ steered' = TRUE
    /\ source' = IF steered THEN source ELSE "steering"
    /\ Checked(c)

\* No steering: ask for peer interrupts, unless an interrupt is triggered.
AskPeers(c) ==
    /\ check[c] = "clear"
    /\ UNCHANGED <<source, steered>>
    /\ IF peer /\ ~aborted /\ ~Triggered
       THEN /\ check' = [check EXCEPT ![c] = "peer"]
            /\ UNCHANGED <<calls, watch, env, closed>>
       ELSE Checked(c)

\* A peer interrupt was found; what has been triggered since is not looked at.
FindPeer(c) ==
    /\ check[c] = "peer"
    /\ source' = "irc"
    /\ UNCHANGED steered
    /\ Checked(c)

\* The watcher, woken, subscribes again and then checks.
WatcherLooks ==
    /\ watching /\ notified
    /\ check[Watcher] = "idle"
    /\ notified' = steering
    /\ check' = [check EXCEPT ![Watcher] = IF steering THEN "steering" ELSE "clear"]
    /\ UNCHANGED <<calls, source, steered, watching, env, closed>>

\* The IRC poll timer.
TimerPolls ==
    /\ ~closed
    /\ check[Timer] = "idle"
    /\ Immediate /\ peer /\ ~aborted /\ ~Triggered
    /\ check' = [check EXCEPT ![Timer] = "peer"]
    /\ UNCHANGED <<calls, source, steered, watch, env, closed>>

\* All tasks have settled: stop the watchers and sweep the calls that have no
\* result yet.
Close ==
    /\ ~closed
    /\ \A i \in Calls : phase[i] = "settled"
    /\ result' = [i \in Calls |-> IF result[i] = "none" THEN "skipped" ELSE result[i]]
    /\ watching' = FALSE
    /\ notified' = FALSE
    /\ check' = [c \in Checkers |-> "idle"]
    /\ closed' = TRUE
    /\ UNCHANGED <<batch, phase, ran, source, steered, env>>

-----------------------------------------------------------------------------
\* What the batch does not control

\* agent.steer: queue a message and wake the watcher.
Steer ==
    /\ ~closed
    /\ steering' = TRUE
    /\ notified' = watching
    /\ UNCHANGED <<calls, interrupt, watching, peer, aborted, paused, closed>>

\* The queue is cleared (waking the watcher) or its last message taken back.
Retract ==
    /\ ~closed /\ steering
    /\ steering' = FALSE
    /\ notified' \in {notified, watching}
    /\ UNCHANGED <<calls, interrupt, watching, peer, aborted, paused, closed>>

\* An interrupting record of a peer arrives, or a tool reads the inbox.
PeerMessage ==
    /\ ~closed
    /\ peer' = ~peer
    /\ UNCHANGED <<calls, interrupt, watch, steering, aborted, paused, closed>>

\* The run is aborted; the watcher stops with it.
Abort ==
    /\ ~closed /\ ~aborted
    /\ aborted' = TRUE
    /\ watching' = FALSE
    /\ notified' = FALSE
    /\ UNCHANGED <<calls, interrupt, steering, peer, paused, closed>>

\* The gate is engaged or released.
Pause == ~closed /\ ~paused /\ paused' = TRUE /\ UNCHANGED <<calls, interrupt, watch, steering, peer, aborted, closed>>
Resume == ~closed /\ paused /\ paused' = FALSE /\ UNCHANGED <<calls, interrupt, watch, steering, peer, aborted, closed>>

\* The batch is over.
Done == closed /\ UNCHANGED vars

Start(i) == Preempt(i) \/ Park(i) \/ RunTool(i)
Check(c) == FindSteering(c) \/ AskPeers(c) \/ FindPeer(c)

Next ==
    \/ \E i \in Calls : Start(i) \/ Unpark(i) \/ Return(i) \/ Throw(i) \/ Emit(i)
    \/ \E c \in Checkers : Check(c)
    \/ WatcherLooks \/ TimerPolls \/ Close
    \/ Steer \/ Retract \/ PeerMessage \/ Abort \/ Pause \/ Resume
    \/ Done

Spec == Init /\ [][Next]_vars

\* A call ends by itself unless it is a wait; a wait ends when it is told to.
Finish(i) ==
    /\ ~batch[i].interruptible \/ SignalAborted(i)
    /\ Return(i) \/ Throw(i)

\* The promise continuations of the batch run; a call released by resume() runs
\* before the gate can be engaged again, except in the same tick.
Fairness ==
    /\ \A i \in Calls : /\ WF_vars(Start(i)) /\ SF_vars(Unpark(i))
                        /\ WF_vars(Finish(i)) /\ WF_vars(Emit(i))
    /\ \A c \in Checkers : WF_vars(Check(c))
    /\ WF_vars(WatcherLooks) /\ WF_vars(TimerPolls) /\ WF_vars(Close)

FairSpec == Spec /\ Fairness

-----------------------------------------------------------------------------
\* Properties

Phases == {"queued", "parked", "executing", "returned", "failed", "checking", "settled"}
Runs == {"no", "started", "returned"}
Results == {"none", "real", "error", "invalid", "aborted", "interrupted", "skipped"}
Sources == {"none", "steering", "irc"}
Checks == {"idle", "steering", "clear", "peer"}

\* Type correctness: what each part of executeToolCalls' state can be.
TypeOK ==
    /\ batch \in [Calls -> Kind]
    /\ phase \in [Calls -> Phases]
    /\ ran \in [Calls -> Runs]
    /\ result \in [Calls -> Results]
    /\ source \in Sources
    /\ check \in [Checkers -> Checks]
    /\ steered \in BOOLEAN /\ notified \in BOOLEAN /\ watching \in BOOLEAN
    /\ steering \in BOOLEAN /\ peer \in BOOLEAN
    /\ aborted \in BOOLEAN /\ paused \in BOOLEAN /\ closed \in BOOLEAN
    /\ steered => Triggered
    /\ notified => watching
    /\ \A i \in Calls : check[i] # "idle" <=> phase[i] = "checking"

\* What a result message tells the model is what happened to the call: its
\* real result if execute returned, "skipped" only if it never ran, and after
\* the batch every call has one (agent-loop.ts:2598-2617 and the sweep).
Tells(i) ==
    /\ closed => result[i] # "none"
    /\ result[i] = "real" => ran[i] = "returned"
    /\ result[i] = "error" => ran[i] # "returned"
    /\ result[i] = "interrupted" => ran[i] = "started"
    /\ result[i] \in {"invalid", "aborted", "skipped"} => ran[i] = "no"
TellsWhatHappened == \A i \in Calls : Tells(i)

\* An exclusive call shares the batch with nobody: it starts when everything
\* before it has settled, and nothing after it starts before it has
\* (agent-loop.ts:2701-2727 and Tool.concurrency).
InBatchOrder ==
    \A j \in Calls : \A i \in 1..(j - 1) :
        /\ "exclusive" \in {batch[i].mode, batch[j].mode}
        /\ phase[j] # "queued"
        => phase[i] = "settled"

\* A peer's interrupt alone costs no foreground call its execution or its
\* result (agent-loop.ts:2423-2431, #7493).
PeersSpareForeground ==
    \A i \in Calls :
        /\ ~batch[i].interruptible
        /\ result[i] \in {"aborted", "interrupted", "skipped"}
        => steered \/ aborted

Starts(i) == ran[i] = "no" /\ ran'[i] # "no"

\* No tool starts while the gate is engaged or after its own signal aborted,
\* also when it was parked at the gate meanwhile (pause.ts:4-16).
StartsAllowed == [][\A i \in Calls : Starts(i) => ~paused /\ ~SignalAborted(i)]_vars

\* An aborted run leaves its batch, even if the gate is never released
\* (pause.ts:14-16).
AbortUnwinds == aborted ~> closed

\* A queued message does not wait out the waits of a batch: whatever the
\* interruptible calls wait for, the batch ends and the message is injected at
\* its boundary, unless it is taken back or the process stays paused
\* (agent-loop.ts:2645-2650).
MessagesGetThrough ==
    []<>~paused => /\ steering ~> closed \/ ~steering
                   /\ peer ~> closed \/ ~peer

=============================================================================

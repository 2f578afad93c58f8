------------------------------ MODULE AgentRun ------------------------------
(* A run of an agent: Agent.prompt and Agent.continue of                     *)
(* src/packages/agent/src/agent.ts, and the loop they start, runLoopBody of  *)
(* src/packages/agent/src/agent-loop.ts: the steering, follow-up and aside   *)
(* queues and the polls that empty them, the turns and the model calls, the  *)
(* abort signal, the deadline and the pause gate.                            *)
(*                                                                           *)
(* A step is a stretch of JavaScript between two awaits that can take time;  *)
(* a poll of an empty queue, and the asides' provider, take none.  Messages  *)
(* are numbered in the order they are handed in.  The calls of a message are *)
(* one bit: whether their results are still owed (ToolBatch runs them).      *)
EXTENDS Integers, Sequences, SequencesExt, FiniteSets

CONSTANTS
    MaxMessages,    \* bound: messages handed in
    MaxRuns,        \* bound: runs started
    Opening,        \* who wrote the transcript's last message at first
    OneAtATime,     \* steeringMode and followUpMode are "one-at-a-time"
    MaxLeaks,       \* Harmony leaks in a row that are sampled again
    MaxNudges       \* MAX_PAUSED_TURN_CONTINUATIONS

ASSUME BoundsAssumption == {MaxMessages, MaxRuns, MaxLeaks, MaxNudges} \subseteq Nat
ASSUME OpeningAssumption == Opening \in {"none", "user", "tool", "assistant"}
ASSUME ModeAssumption == OneAtATime \in BOOLEAN

Msgs == 1..MaxMessages
Runs == 1..MaxRuns

VARIABLES
    handed,     \* how many messages have been handed in
    queue,      \* the agent's two queues, and what the aside provider holds
    chat,       \* the agent's transcript
    agent,      \* isStreaming, and the run #abortController belongs to
    run,        \* each run's locals
    late,       \* the agent's deadline has passed
    paused      \* agentPauseGate is engaged

vars == <<handed, queue, chat, agent, run, late, paused>>

\* Polls that wait for the hooks registered before a dequeue, and the queue
\* each of them empties.
Polls == [openSteer |-> "steering", openFollowUp |-> "followUps", first |-> "steering",
          turn |-> "steering", lateSteer |-> "steering", lateFollowUp |-> "followUps"]

\* What a complete answer of the model is: text, runnable calls, calls that
\* were cut off (stopReason "length"), or an unfinished turn ("pause_turn").
Answers == {"text", "calls", "cutOff", "pause"}

Places == DOMAIN Polls \cup Answers
    \cup {"new", "top", "prepare", "stream", "tools", "turnEnd", "yield", "ended", "gone"}

\* How a run came to its end.
Ends == {"no", "done", "error", "stopped", "late", "failed"}

New == [pc |-> "new", cut |-> "no", open |-> FALSE, more |-> TRUE, hand |-> <<>>,
        pending |-> <<>>, leaks |-> 0, nudges |-> 0, how |-> "no"]

Idle == [streaming |-> FALSE, controller |-> 0]

\* A run between its claim of the agent and its agent_end.
Talking(r) == run[r].pc \notin {"new", "ended", "gone"}

\* The signal the run's loop looks at: its abort, or the deadline's.
Cut(a) == a.cut # "no" \/ late

-----------------------------------------------------------------------------
\* What a run's step works on: its locals, the queues and the transcript.

Here(r) == [a |-> run[r], queue |-> queue, chat |-> chat]

At(w, place) == [w EXCEPT !.a.pc = place]

\* emitInputMessages
Emit(w) ==
    [w EXCEPT !.chat.said = @ \o w.a.hand,
              !.chat.tail = IF w.a.hand = <<>> THEN @ ELSE "user",
              !.a.hand = <<>>]

\* The loop is over: the run is left with nothing but how it ended.
Leaves(w, place, how) == [w EXCEPT !.a = [New EXCEPT !.pc = place, !.how = how]]

\* endAgentStream
Finish(w, how) == Leaves(w, "ended", how)

\* The loop throws, and #runLoop's catch and finally end the run.  A turn not
\* yet open is opened for the error, with the messages it was opened for.
Throw(w) ==
    LET told == IF w.a.open THEN w ELSE Emit(w)
    IN  [Leaves(told, "gone", "failed") EXCEPT !.chat.tail = "assistant"]

\* The top of the inner loop.
Top(w) == IF late THEN Finish(Emit(w), "late") ELSE At(w, "top")

\* The agent would stop here.
Yield(w) == IF late THEN Finish(w, "late") ELSE At(w, "yield")

\* The inner loop's condition.
Loop(w) == IF w.a.more \/ w.a.pending # <<>> THEN Top(w) ELSE Yield(w)

-----------------------------------------------------------------------------
\* The polls.  Each takes w, what it got, to the next wait.

\* A poll at place: it gets nothing, and at once, from an empty queue or for a
\* run that is cut; otherwise it waits for the hooks.
Asks(w, place) == ~Cut(w.a) /\ w.queue[Polls[place]] # <<>>

\* resolveAsides(getAsideMessages())
TakeAsides(w) ==
    IF Cut(w.a) THEN w
    ELSE [w EXCEPT !.a.pending = @ \o w.queue.asides, !.queue.asides = <<>>]

\* Mutant: the follow-ups replace what the earlier drains gave.
GotLateFollowUps_Replaces(w, got) ==
    LET x == [w EXCEPT !.a.pending = got]
    IN  IF x.a.pending = <<>> THEN Finish(x, "done")
        ELSE Top([x EXCEPT !.a.more = TRUE])

\* The last drain: with anything at all the outer loop goes round again.
GotLateFollowUps(w, got) ==
    LET x == [w EXCEPT !.a.pending = @ \o got]
    IN  IF x.a.pending = <<>> THEN Finish(x, "done")
        ELSE Top([x EXCEPT !.a.more = TRUE])

GotLateSteering(w, got) ==
    LET x == TakeAsides([w EXCEPT !.a.pending = got])
    IN  IF Asks(x, "lateFollowUp") THEN At(x, "lateFollowUp") ELSE GotLateFollowUps(x, <<>>)

\* After a turn: asides join only when the model is at work anyway.
GotSteering(w, got) ==
    LET x == [w EXCEPT !.a.pending = got]
    IN  Loop(IF w.a.more THEN TakeAsides(x) ELSE x)

\* runLoopBody up to its first wait.  skip: continue has just polled.
Start(w, skip) ==
    IF late THEN Finish(Emit(w), "late")
    ELSE IF ~skip /\ Asks(w, "first") THEN At(w, "first") ELSE Top(w)

\* continue, once it knows whether a message opens the run.
GotFollowUps(w, got) ==
    IF got = <<>> THEN Leaves(w, "gone", "failed")
    ELSE Start([w EXCEPT !.a.hand = got], FALSE)

GotOpening(w, got) ==
    IF got # <<>> THEN Start([w EXCEPT !.a.hand = got], TRUE)
    ELSE IF Asks(w, "openFollowUp") THEN At(w, "openFollowUp") ELSE GotFollowUps(w, <<>>)

GoOn(w, place, got) ==
    CASE place = "openSteer" -> GotOpening(w, got)
      [] place = "openFollowUp" -> GotFollowUps(w, got)
      [] place = "first" -> Top([w EXCEPT !.a.pending = got])
      [] place = "turn" -> GotSteering(w, got)
      [] place = "lateSteer" -> GotLateSteering(w, got)
      [] place = "lateFollowUp" -> GotLateFollowUps(w, got)

-----------------------------------------------------------------------------
\* The end of a turn.

AfterTurn(w) ==
    IF late THEN Finish(w, "late")
    ELSE IF Asks(w, "turn") THEN At(w, "turn") ELSE GotSteering(w, <<>>)

\* emitTurnEnd: the hook is left out for a run that is cut.
EndTurn(w) ==
    LET x == [w EXCEPT !.a.open = FALSE]
    IN  IF Cut(w.a) THEN AfterTurn(x) ELSE At(x, "turnEnd")

\* The results of the calls, or their placeholders, follow the answer.
Results(w) == [w EXCEPT !.chat.owed = FALSE, !.chat.tail = "tool", !.a.nudges = 0]

\* Calls that were cut off are not run, and the model is asked again.
CutOff(w) == EndTurn([Results(w) EXCEPT !.a.more = ~late /\ w.a.cut # "terminal"])

\* Mutant: an unfinished turn is continued without end.
GoesAgain_Unbounded(w) == TRUE

\* An unfinished turn is sampled again, a bounded number of times in a row.
GoesAgain(w) == w.a.nudges < MaxNudges

\* The answer enters the transcript, and its calls are run, or paired with
\* placeholders when they cannot be.
Settle(w, answer) ==
    LET said == [w EXCEPT !.chat.tail = "assistant", !.chat.heard = Len(w.chat.said),
                          !.chat.owed = answer \in {"calls", "cutOff"},
                          !.a.leaks = 0, !.a.more = FALSE]
    IN  CASE answer = "text" -> EndTurn(said)
          [] answer = "calls" /\ ~late -> At([said EXCEPT !.a.more = TRUE], "tools")
          [] answer = "calls" /\ late -> EndTurn(Results(said))
          [] answer = "cutOff" -> CutOff(said)
          [] answer = "pause" ->
                EndTurn(IF GoesAgain(w) THEN [said EXCEPT !.a.more = TRUE, !.a.nudges = @ + 1]
                        ELSE said)

-----------------------------------------------------------------------------
\* Initial states

\* The transcript is empty, or one that an earlier run or process has left.
Init ==
    /\ handed = 0
    /\ queue = [steering |-> <<>>, followUps |-> <<>>, asides |-> <<>>]
    /\ chat = [said |-> <<>>, tail |-> Opening, heard |-> 0, owed |-> FALSE]
    /\ agent = Idle
    /\ run = [r \in Runs |-> New]
    /\ late = FALSE
    /\ paused = FALSE

-----------------------------------------------------------------------------
\* Starting a run

\* Mutant: the finally clause of a run that is over resets the agent.
Settled_Always(r, owner) == Idle

\* The finally clause: only the agent's own run leaves it idle.
Settled(r, owner) == IF owner.controller = r THEN Idle ELSE owner

\* r moves to w; agent_end, and the end of the run, free the agent.
Becomes(r, w, claimed) ==
    /\ run' = [run EXCEPT ![r] = w.a]
    /\ queue' = w.queue
    /\ chat' = w.chat
    /\ agent' = CASE w.a.pc = "ended" -> [claimed EXCEPT !.streaming = FALSE]
                  [] w.a.pc = "gone" -> Settled(r, claimed)
                  [] OTHER -> claimed
    /\ UNCHANGED <<late, paused>>

Claims(r) ==
    /\ ~agent.streaming
    /\ run[r].pc = "new"
    /\ \A s \in Runs : run[s].pc = "new" => r <= s

Claimed(r) == [streaming |-> TRUE, controller |-> r]

\* prompt, with one message
Prompt(r) ==
    /\ Claims(r)
    /\ handed < MaxMessages
    /\ handed' = handed + 1
    /\ Becomes(r, Start([Here(r) EXCEPT !.a.hand = <<handed + 1>>], FALSE), Claimed(r))

\* continue: after an answer, or with nothing said, a queued message must open
\* the run.
Continue(r) ==
    /\ Claims(r)
    /\ Becomes(r, LET w == Here(r)
                  IN  IF chat.tail \in {"user", "tool"} THEN Start(w, FALSE)
                      ELSE IF Asks(w, "openSteer") THEN At(w, "openSteer")
                      ELSE GotOpening(w, <<>>),
               Claimed(r))
    /\ UNCHANGED handed

-----------------------------------------------------------------------------
\* The steps of a run

Step(r, place, w) ==
    /\ run[r].pc = place
    /\ Becomes(r, w, agent)
    /\ UNCHANGED handed

\* Mutant: what is delivered is copied, and stays queued.
Dequeue_Copies(q) ==
    IF OneAtATime /\ q # <<>> THEN [got |-> <<Head(q)>>, left |-> q]
    ELSE [got |-> q, left |-> q]

\* #dequeueSteeringMessages, #dequeueFollowUpMessages
Dequeue(q) ==
    IF OneAtATime /\ q # <<>> THEN [got |-> <<Head(q)>>, left |-> Tail(q)]
    ELSE [got |-> q, left |-> <<>>]

\* Mutant: the signal is not looked at again after the hooks.
Takes_Unchecked(w, place) ==
    LET d == Dequeue(w.queue[Polls[place]])
    IN  GoOn([w EXCEPT !.queue[Polls[place]] = d.left], place, d.got)

\* The poll after its hooks.
Takes(w, place) ==
    IF Cut(w.a) THEN GoOn(w, place, <<>>)
    ELSE LET d == Dequeue(w.queue[Polls[place]])
         IN  GoOn([w EXCEPT !.queue[Polls[place]] = d.left], place, d.got)

HooksRun(r) ==
    \E place \in DOMAIN Polls : Step(r, place, Takes(Here(r), place))

\* A hook rejects: a usage check that is cancelled or refuses.  A continue
\* that has not started the loop passes the error on to its caller.
HooksFail(r) ==
    \E place \in DOMAIN Polls :
        Step(r, place, IF place \in {"openSteer", "openFollowUp"}
                       THEN GotFollowUps(Here(r), <<>>) ELSE Throw(Here(r)))

\* Mutant: an abort does not release a run parked at the gate.
Released_DeafToAbort(r) == ~paused

\* waitUntilResumed
Released(r) == ~paused \/ Cut(run[r])

\* Past the gate: pending messages enter the context.
Commit(r) ==
    /\ Released(r)
    /\ Step(r, "top", [Here(r) EXCEPT !.a.hand = @ \o run[r].pending,
                                      !.a.pending = <<>>, !.a.pc = "prepare"])

\* The provider call is prepared, and turn_start emitted.  A turn that is open
\* already emits no input.
Prepared(r) ==
    LET told == IF run[r].open THEN [Here(r) EXCEPT !.a.hand = <<>>] ELSE Emit(Here(r))
    IN  Step(r, "prepare", [told EXCEPT !.a.open = TRUE, !.a.pc = "stream"])

\* beforeModelCall, or an abort it finds, stops the run; an open turn is closed
\* with an empty answer.
GateStops(r) ==
    Step(r, "prepare",
         LET told == Emit(Here(r))
         IN  Finish(IF run[r].open THEN [told EXCEPT !.chat.tail = "assistant"] ELSE told,
                    "stopped"))

\* The hooks, the credentials or the stream fail.  Calls that had come whole
\* stay in the transcript, with the error for a result.
CallFails(r) ==
    \/ \E place \in {"prepare", "stream", "turnEnd", "yield"} : Step(r, place, Throw(Here(r)))
    \/ /\ run[r].cut = "no"
       /\ Step(r, "stream", [Throw(Here(r)) EXCEPT !.chat.tail = "tool"])

\* The last event of the stream has come.
Answered(r, answer) == ~Cut(run[r]) /\ Step(r, "stream", At(Here(r), answer))

\* Mutant: an answer that failed is not the end of the run.
Refused_GoesOn(r) ==
    Step(r, "stream", EndTurn([Here(r) EXCEPT !.chat.tail = "assistant", !.a.more = FALSE]))

\* An answer that failed, or was aborted; any calls in it get placeholders.
Refused(r) ==
    \E calls \in BOOLEAN :
        Step(r, "stream",
             Finish([Here(r) EXCEPT !.chat.tail = IF calls THEN "tool" ELSE "assistant"],
                    "error"))

\* A Harmony leak: the call is made again, or given up.
Leak(r) ==
    /\ ~Cut(run[r])
    /\ Step(r, "stream", IF run[r].leaks < MaxLeaks
                         THEN Loop([Here(r) EXCEPT !.a.leaks = @ + 1])
                         ELSE Throw(Here(r)))

\* The dispatch of the answer's calls is prepared.
TakeAnswer(r) == \E answer \in Answers : Step(r, answer, Settle(Here(r), answer))

\* executeToolCalls returns.  A terminal result has aborted the run.
ToolsReturn(r) ==
    \E terminal \in BOOLEAN :
        LET w == Results(Here(r))
            x == IF terminal /\ w.a.cut = "no" THEN [w EXCEPT !.a.cut = "terminal"] ELSE w
        IN  Step(r, "tools", EndTurn([x EXCEPT !.a.more = x.a.cut # "terminal"]))

TurnEnds(r) == Step(r, "turnEnd", AfterTurn(Here(r)))

\* onBeforeYield has returned.
Yielded(r) ==
    Step(r, "yield",
         LET w == Here(r)
         IN  IF late THEN Finish(w, "late")
             ELSE IF Asks(w, "lateSteer") THEN At(w, "lateSteer")
             ELSE GotLateSteering(w, <<>>))

\* The events are drained, and #runLoop's finally runs.
Close(r) == Step(r, "ended", Leaves(Here(r), "gone", run[r].how))

RunStep(r) ==
    \/ HooksRun(r) \/ Commit(r) \/ Prepared(r) \/ Refused(r) \/ TakeAnswer(r)
    \/ ToolsReturn(r) \/ TurnEnds(r) \/ Yielded(r)

-----------------------------------------------------------------------------
\* The host and the user

\* steer, followUp, and a peer's message or a finished job for the aside
\* provider.
HandIn(q) ==
    /\ handed < MaxMessages
    /\ handed' = handed + 1
    /\ queue' = [queue EXCEPT ![q] = Append(@, handed + 1)]
    /\ UNCHANGED <<chat, agent, run, late, paused>>

\* clearSteeringQueue, clearFollowUpQueue
Clear(q) ==
    /\ queue' = [queue EXCEPT ![q] = <<>>]
    /\ UNCHANGED <<handed, chat, agent, run, late, paused>>

\* popLastSteer, popLastFollowUp
PopLast(q) ==
    /\ queue[q] # <<>>
    /\ queue' = [queue EXCEPT ![q] = Front(@)]
    /\ UNCHANGED <<handed, chat, agent, run, late, paused>>

\* abort: it reaches the run that has the controller.
Abort ==
    /\ agent.controller # 0
    /\ run' = [run EXCEPT ![agent.controller].cut = IF @ = "no" THEN "user" ELSE @]
    /\ UNCHANGED <<handed, queue, chat, agent, late, paused>>

DeadlinePasses ==
    /\ late' = TRUE
    /\ UNCHANGED <<handed, queue, chat, agent, run, paused>>

Pause ==
    /\ paused' = TRUE
    /\ UNCHANGED <<handed, queue, chat, agent, run, late>>

Resume ==
    /\ paused' = FALSE
    /\ UNCHANGED <<handed, queue, chat, agent, run, late>>

Next ==
    \/ \E r \in Runs :
        \/ Prompt(r) \/ Continue(r) \/ RunStep(r)
        \/ HooksFail(r) \/ GateStops(r) \/ CallFails(r) \/ Leak(r) \/ Close(r)
        \/ \E answer \in Answers : Answered(r, answer)
    \/ \E q \in {"steering", "followUps", "asides"} : HandIn(q)
    \/ \E q \in {"steering", "followUps"} : Clear(q) \/ PopLast(q)
    \/ Abort \/ DeadlinePasses \/ Pause \/ Resume

Spec == Init /\ [][Next]_vars

\* Hooks, tools and streams end once the signal they are given has aborted.
FairSpec == Spec /\ WF_vars(\E r \in Runs : (Cut(run[r]) /\ RunStep(r)) \/ Close(r))

-----------------------------------------------------------------------------
\* Properties

TypeOK ==
    /\ handed \in 0..MaxMessages
    /\ queue \in [{"steering", "followUps", "asides"} -> Seq(Msgs)]
    /\ chat \in [said : Seq(Msgs), tail : {"none", "user", "assistant", "tool"},
                 heard : 0..MaxMessages, owed : BOOLEAN]
    /\ agent \in [streaming : BOOLEAN, controller : {0} \cup Runs]
    /\ run \in [Runs -> [pc : Places, cut : {"no", "user", "terminal"}, open : BOOLEAN,
                         more : BOOLEAN, hand : Seq(Msgs), pending : Seq(Msgs),
                         leaks : 0..MaxLeaks, nudges : 0..MaxNudges, how : Ends]]
    /\ late \in BOOLEAN
    /\ paused \in BOOLEAN

\* One run at a time talks, and it owns the agent: abort reaches it, and
\* isStreaming keeps other prompts out until its agent_end, although the
\* finally clauses of the run before it may still be on their way.
AbortReachesTheRun ==
    /\ \A r \in Runs : Talking(r) => agent = Claimed(r)
    /\ agent.streaming => \E r \in Runs : Talking(r)

\* The messages that are on their way: queued, or taken and not yet said.
Held ==
    Range(queue.steering) \cup Range(queue.followUps) \cup Range(queue.asides)
        \cup UNION {Range(run[r].hand) \cup Range(run[r].pending) : r \in Runs}

\* r ends in this step, for its deadline or with an error.
Dies(r) == run[r].how = "no" /\ run'[r].how \in {"late", "failed"}

\* A re-sampled turn that the loop has left open.
Astray(r) == run[r].open /\ run[r].hand # <<>>

\* No message on its way disappears but into the transcript, through the
\* host's hand, or with a run that its deadline or a failing hook has ended
\* after it had taken the message off its queue.
NothingVanishes ==
    [][\A i \in Held \ Held' :
        \/ i \in Range(chat'.said)
        \/ run' = run
        \/ \E r \in Runs : Dies(r) \/ Astray(r)]_vars

\* The transcript is sound across aborts, failures and the overlap of two runs:
\* no message is in it twice, or while it is still on its way, and every model
\* call and every later run finds all tool calls with their results.
TranscriptSound ==
    /\ IsInjective(chat.said)
    /\ Range(chat.said) \cap Held = {}
    /\ chat.owed => \E r \in Runs : run[r].pc = "tools" \/ run[r].pc \in Answers

\* A run that has been aborted, or whose deadline has passed, leaves the queues
\* to the next run, even when its poll was waiting for the hooks.
AbortedTakesNothing ==
    [][\A r \in Runs : run'[r] # run[r] /\ run[r].pc # "new" /\ Cut(run[r]) => queue' = queue]_vars

\* A run that stops of its own accord has had an answer to everything it said,
\* unless it strayed from a turn that was sampled again.
NothingUnanswered ==
    [][\A r \in Runs : run[r].how = "no" /\ run'[r].how = "done" /\ ~run[r].open
        => chat'.heard = Len(chat'.said)]_vars

\* An aborted run, or one past its deadline, comes to its end, whatever it was
\* waiting for, and even if the pause gate stays engaged.
AbortUnwinds == (\E r \in Runs : Talking(r) /\ Cut(run[r])) ~> \A r \in Runs : ~Talking(r)
=============================================================================

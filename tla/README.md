# zcode in TLA+

TLA+ models of the concurrent core of zcode, the coding agent in `src/packages`:
what they cover, what TLC checks about them on small instances, and what TLAPS
proves about them for every instance. Every definition names, in `PROJECT.json`
under `map`, the source lines it stands for.

## 1. The system

zcode is a TypeScript/Bun monorepo with some Rust. The program is
`packages/coding-agent` (420k lines); `packages/agent` is the agent loop it is
built around; `packages/ai` and `packages/catalog` reach the model providers;
the others are front ends, storage engines, text algorithms and tools.

One process runs many agents: the main session, subagents started by the task
tool, and peers. JavaScript runs on one thread, so nothing interleaves inside a
synchronous stretch, and everything interleaves at every `await`.

| Component | State it keeps | Operations | What is hard | What makes it correct |
|---|---|---|---|---|
| Provider concurrency: `task/parallel.ts`, `task/provider-concurrency.ts` | per provider a cap, a counter, a queue of waiters | acquire, release, resize, the stream wrapper | cancelled waiters, caps that move, streams that end in several ways | slots counted exactly, never granted beyond the cap, none idle while callers wait, first come first served |
| Agent lifecycle: `registry/agent-lifecycle.ts`, `registry/agent-registry.ts` | rows with status and session; adoptions with timers; parks and revivals in flight | spawn, finalize, park, ensureLive, release, kill, scan | every operation awaits something while others run on the same id | one live session per transcript, no session lost, no dying session handed out, a kill is final |
| Agent runs: `agent.ts`, `agent-loop.ts` (loop), `pause.ts` | transcript, steering and follow-up queues, the current run's controller | prompt, continue, steer, followUp, abort, the turn loop | queues polled across awaited hooks, abort and deadline at any point, a run overlapping the next | no message lost, doubled or unanswered; every tool call has its result; an abort ends the run |
| Tool-call batches: `agent-loop.ts` (executeToolCalls), `pause.ts` | one record per call, interrupt state, watcher and poll timer | start, finish, emit, check, watch, close | exclusive and shared calls, interrupts of two strengths, the pause gate | exclusive calls run alone and in order, each result tells what happened, an abort unwinds the batch |
| Background jobs: `async/job-manager.ts`, `tools/hub` | jobs by id, delivery queue and loop, suppressed and watched ids, eviction timers | register, deliver, acknowledge, resume, cancel, wait, evict, dispose | one result may reach its agent along four ways; ids are reused; sessions change | a result is told once, to the session that asked, and never forgotten |
| Agent session: `session/agent-session.ts` | what is in flight, the block on the queue, the generation of the last abort, tasks that resume the queue | prompt, steer, follow up, clear, resume, wake, abort, settle | turns of four kinds over one agent, each of which awaits before it looks at what the others did; aborts that let the cut turns unwind behind new ones | the turns never wait in a circle, and once all is quiet nothing that may be resumed is left queued |
| Peer messages: `irc/bus.ts`, `session/irc-bridge.ts`, `tools/hub/messaging.ts` | mailboxes and waiters by id, records pending in a session | send (with await, to all), wait, inbox, the wait that also watches jobs, hand-over, wake | a message, a timer, an abort and the peers' end race for one waiter; recipients are parked, revived and disposed behind the sender's back | shown at most once, receipts truthful, no wait without hope, what was delivered arrives |

The remaining parts, with the reason each is left out, are the `not_modelled`
components of `PROJECT.json`: providers, storage, front ends, editing,
collaboration, protocol clients, configuration, memory and voice, native code.

How they interact. The task tool spawns an agent through the lifecycle, which
gives it a session; the session decides which turn the agent runs next: a
prompt, a resume of what is queued, or a wake by a peer; a run calls the model through the provider cap and hands each answer's calls to a batch; a call
may start a background job, whose result comes back as a message for the
session that started it; users queue messages that the run takes at its polls
and that interrupt the batch; peers send theirs through the bus, which revives
a parked recipient and hands them to a waiter, to the run, or to a wake; the lifecycle parks the session
when the agent is idle and revives it when someone calls.

## 2. Plan

Written, in this order:

1. `Semaphore`, `ProviderConcurrency`, `ProviderConcurrency_proofs`
2. `AgentLifecycle`, `AgentLifecycle_proofs`
3. `JobContract` (abstract), `Queues`, `Queues_proofs`, `AsyncJobs` (implements
   the contract), `AsyncJobs_proofs`
4. `ToolBatch`, `ToolBatch_proofs`
5. `AgentRun`, `AgentRun_proofs`
6. `MailContract` (abstract), `PeerMessages` (implements it),
   `PeerMessages_proofs`
7. `SessionTurns`, `SessionTurns_proofs`

To come:

8. Session transitions (`newSession`, switch, compact: a session disconnected
   from its agent while an abort drains), composed with `SessionTurns`.
9. A promise-level specification of a tool batch (a call is reported once, after
    it ended) that `ToolBatch` implements and `AgentRun` uses in `ToolsReturn`.
10. `WorkerPool`: `mapWithConcurrencyLimit` and its all-settled variant
    (`task/parallel.ts:26-125`): each item started once and in order, no result
    lost, what `aborted` tells the caller; with its theorems.

## 3. The modules

Conventions. A step is a stretch of code between two awaits. A record of `EXCEPT`
updates stands for the assignments of one such stretch. Names are the source's.
An operator `X_Something` with the comment "Mutant" is a plausible bug in `X`;
it is used nowhere, and each checked property has one that breaks it.

**Semaphore** has the semaphore's methods as operators on a value (`New`,
`Acquire`, `AbortWait`, `Release`, `Resize`). **ProviderConcurrency** has the
callers: `Call`, `CallAborted`, `AbortWaiting`, `OpenStream`, `BaseFails`,
`StreamSettles`, and `ChangeSetting` for the user's cap. A call picks up a
changed cap at its next acquire, as `getProviderSemaphore` does.

**AgentLifecycle** follows one agent id: the registry's rows for it over time
(`Refs`, since an id can be registered again), the sessions created for it, the
adoption, the park and the revival in flight. Continuations of promises
(`Ready`) run before the next macrotask, as in JavaScript; calls of
`ensureLive`, `kill` and of a turn come in between. Callers call `ensureLive`,
a releaser calls `release` or kills, a scanner lists persisted agents. Left out:
the deadline of the finalizer's cleanup, `dispose()` (a release of every id), a
TTL of zero, failures of a reviver after `createAgentSession` has returned,
start-up failures after the session was attached, one release at a time (with
two, a tombstone that cannot be written followed by a cancel frees the row of an
agent whose session is still being disposed of).

**JobContract** is what the job manager promises: a finished job is told once,
to the session that started it; its result may be dropped only when that
session is over; a cancelled job has no result. **AsyncJobs** is the manager:
rows, delivery loop with backoff, sinks in flight, suppression (`muted`),
`watched` ids, eviction timers, with the session's sink and teardown, the hub
tool's wait and jobs, the bash tool's foreground wait and the reaper. What a
yield queue holds is injected (`Inject`) or, with `Refusals`, dropped because the
idle prompt throws or the run ends first (`InjectFails`). Its
`KeepsContract` is `JobContract!Spec` under the mapping defined beside it.
"completed" and "failed" are one status, preferred ids any free id, times due or
not due. `Timely` assumes that an aborted run exits, a result is injected and a
wait ends within the five minutes a settled job is kept; without it `NoRepeat`,
`ResultsGoToOwner` and `ReapMeansSettled` do not hold, because the suppression of
a result dies with its row (`job-manager.ts:642`) and the owner is looked up by
an id that may have been reused (`734`, `253`, `498`). Left out: the poll ladder,
progress callbacks, unowned jobs, a retention of zero.

**Queues** is `Array.prototype.filter` by the positions it keeps, which
`AsyncJobs`, `PeerMessages` and `SessionTurns` use for their queues: `SelectSeq`
is recursive, and nothing can be proved about it. `Queues_proofs` says what the
filter returns, and what the entries of a queue are after a push, a filter and a
concatenation.

**ToolBatch** is `executeToolCalls`: the calls' start promises, the gate, the
interrupt state, the watcher of the steering queue and the timer that polls for
peers. The queues are one bit each. `afterToolCall` is the window between a
call's return and its result; what it rewrites is not distinguished. The
callbacks do not throw, as `Agent`'s do not. `interruptMode` "wait" is
`Immediate = FALSE`, which the proofs cover and the runs do not.

**AgentRun** is a run: `Prompt` and `Continue` claim the agent, `Start` to
`GotLateFollowUps` are the stretches of `runLoopBody`, `Settle` what it does with
an answer, `Throw` and `Settled` the catch and the finally clause of `#runLoop`.
A stretch is an operator on `w` (the run's locals, the queues, the transcript),
so that a poll that finds its queue empty falls through to the next stretch in
the same step, and one that waits for the hooks of
`addBeforeQueuedMessageDequeueHook` does not. `chat` counts what the model has
answered (`heard`). Left out: tool choice and soft tool requirements (a batch
that a soft requirement refuses for the fourth time throws with its calls
unpaired, `agent-loop.ts:1332`), Cursor's tool results, `reset()` during a run,
asides whose thunks throw. A recovered Harmony leak is an ordinary answer.

**MailContract** is what the bus promises: a send ends with a truthful receipt;
what is reported delivered is shown to its recipient once, unless the recipient's
session is gone, or a call of it that held the message failed; what is reported failed
is shown only if it was kept in the mailbox. **PeerMessages** is the bus with what stands on it: `Post`,
`GateOpens`, `ReviveFails` and `HandOverFails` are the stretches of `send`;
`Park`, `Notice`, `Timeout`, `Interrupt` a waiter's life; `Send`, `Broadcast`,
`Wait`, `JobWait`, `Inbox` and the `...Returns` the hub's calls; `Boundary`,
`TurnEnds`, `Drains`, `DrainStandsDown` and `AutoReply` the bridge and the
session that hosts it. Between the end of a turn and its drain (`settling`) come
the count in flight, the callbacks and an abort, and the drain may find the queue
blocked or fail to resume it: then records and steering stay in an idle session
(`Resting`) until a prompt or a message starts its next turn. `SessionTurns` has
the detail of when that is; here a drain may stand down at any time. The
registry's part (`Parks`, `Leaves`, `Disposes`, the gate of `ensureLive`) is as
coarse as what the bus can see of it; `AgentLifecycle` has the detail. A park
looks at no queue: like any disposal it writes the records to the transcript
(`Flushed`), and a parent's steering is lost with the session. Its `KeepsContract` is `MailContract!Spec`
under the mapping defined beside it. `PostAll` runs the sends of a broadcast side
by side: each has a message and a recipient of its own, so that none can tell
which ran first. `Oldest` is what a call takes from a queue. Left out: the relay of traffic to the main
UI, the record an automatic answer leaves in its author's transcript, the
listing operation, and the transitions that disconnect a session while its turn
ends (`agent-session.ts:727`).

**SessionTurns** is the part of the session that decides when its agent runs.
A turn is a prompt, a resume (`#scheduleAgentContinue` for the queue) or a wake
(`#wakeForIrc`), each from where it begins to its finally; `ScheduleDrain`,
`ResumeStrandedIrcAsides`, `DrainStranded`, `EndInFlight` and `ResetInFlight`
are the source's methods, as operators on the state, since one of them runs
others in the same step; `RunClaims` to `RunEnds` are the agent's run as the
session sees it (its detail is in `AgentRun`); `AbortStarts`, `AbortDrained` and
`AbortEnds` are `abort`. `cut` stands for a generation that has changed and a
signal that has aborted. With `Preflight` every preflight may refuse. Dequeueing
is one message at a time, the default. Aborts come one at a time. `tried` and
the record state `passed` are history. Left out: images, synthetic prompts,
retries and idle injections of the yield queue, which enter as prompts do;
compaction, session transitions and disposal; plan mode; the advisors' cards.

## 4. Runs

| Run | Bounds | Shows |
|---|---|---|
| `provider_cap` | 4 callers, caps 1, 2, unlimited | slot accounting, order, no idle slot, every waiter proceeds |
| `agent_lifecycle` | 2 callers, 1 release, 1 scan at a time, 2 rows, 2 sessions | one session, none lost, idle agents timed, kills final, every call answered |
| `async_live` | 2 jobs of one owner, 2 ids, a sink that fails once, foreground waits, messages, refused injections, fair | nothing told twice, reaping waits for the jobs, every result arrives or is refused |
| `async_sessions` | 2 owners, 1 id, 1 session change each | the contract: results stay with owner and session |
| `tool_batch` | 4 pairs of calls over 5 kinds, fair | order, honest results, starts guarded, abort unwinds, messages get through |
| `agent_run` | 2 messages, 2 runs, 1 leak, 1 continuation, fair | nothing vanishes, doubles or goes unanswered; aborts unwind |
| `peer_messages` | 3 agents (one without async execution, one in plan mode, one that only sends), 2 messages, 2 hub calls that wait, mailboxes of 1, fair | the contract: shown once, truthful receipts; waits end; messages arrive, unless their recipient rests behind a blocked queue |
| `session_turns` | 1 prompt, 1 abort, 1 wake, 4 resumes, 2 messages (the second may be a parent's), 1 peer message, preflight on | no circular wait, and a settled session leaves nothing that may be resumed |

Why the bounds suffice. A cap of 2 with four callers has holders, a queue of two
and a cap to lower. An agent's hazards are between two operations on one id, and
its second row and session are what a stale reference to the first can spoil.
Two jobs on two ids give every mix of ways a result can travel; two owners that
share one id give every reuse of it. In a batch, what a pair of calls does to each
other is what the third sees too, and the safety properties are proved for any
number. A run with two messages can drain two queues in one round, lose the
second behind the first, and have both taken by different runs; the transcript
it starts from ends in a user's message, so that it needs none of its own.
A session's hazards are between a turn that unwinds and one that begins: a
prompt, an abort, a wake and the resumes they cause give every such pair; a
second queued message lies behind the first, and a parent's among a user's.
Resumes and wakes are drawn from pools; `Roomy`, a part of `TypeOK`, says that a
pool is never exhausted, so that its size cuts nothing off.
`MaxMessages`, `MaxMsgs`, `MaxRecords`, `MaxRuns`, `MaxRefs`, `MaxSessions`, `MaxAttempts`, `MaxEpoch`,
`MaxLeaks` and `MaxNudges` appear in the guards and in no other role;
`MaxLeaks` and `MaxNudges` are 2 and 8 in the code.

`AsyncJobs!EveryResultArrives` and its contract except the results that
`async_photo_finish` shows lost and those of a refused injection (`missed`). `AgentRun!NothingVanishes` is stated
with its exceptions: a message that has
been taken off its queue is lost when the deadline passes before the next turn
(`agent-loop.ts:1056`) or when a later hook of the same drain refuses
(`agent.ts:820`), and in a turn that a leak has left open.

Four runs are violations: each a statement of the source that the code does not keep.

| Run | Statement | What happens |
|---|---|---|
| `kill_undone_by_scan` | `KilledStaysKilled` | the slower of two scans registers a killed agent again |
| `async_photo_finish` | `NoLostResult` | a message ends a hub wait just before a watched job settles, and nobody tells its result |
| `irc_lost_reply` | `NeverDropsConsumed` | a peer's message resolves the waiter of an awaited send that then fails, and is thrown away |
| `session_steer_stranded` | `SteersAreTried` | a wake's end puts an old block over a steer that came, and lifted it, meanwhile |

The quotations are in `PROJECT.json` under `findings`. Disagreements met and
not run:

- `agent-lifecycle.ts:13` promises that a disposing session is never handed
  out; a plain release awaits the disposal with the session attached (403), and
  `ensureLive` returns it (309). `HandsOutAttached` has it as its exception. A
  factory awaited in `adopt` may overwrite a newer adoption (337). A persisted
  agent can be parked in the middle of a run its listener came too late for
  (`persisted-revive.ts:149`). Two scans that overlap can lead to two writers of
  one session file.
- A call parked at the pause gate starts although steering came while it was
  parked (`agent-loop.ts:2444`), where 2430-2431 says that steering preempts all
  that is queued.
- A Harmony leak is said to re-enter its turn (`agent-loop.ts:1041`), but the
  retry goes to the loop condition (1220, 1055): in a turn that steering alone
  has opened, the run ends with the turn open and the steering unanswered.
  `NothingUnanswered` excepts such a turn. In one drain a follow-up joins
  steering that has just come (1463-1468), where `types.ts` promises that it
  waits.
- `ParallelSettledResult.aborted` says that cancellation prevented scheduling
  all items; the code reports an aborted signal, also when all had been started
  (`task/parallel.ts:91`, 124).
- Peer messages: a failed hand-over keeps the message and reports it failed
  (`bus.ts:182-193`), so that a sender who tries again doubles it; `inbox` with
  `peek` takes the records of a session all the same; of two hub calls in
  parallel the older waiter may take the answer meant for the other's send;
  mailboxes are keyed by id and outlive the agent; a parent's steering queued in
  a session that is parked or disposed of is lost, and both that and a peer's
  record stay unread behind a blocked queue until the next prompt or message,
  which `MessagesArrive` excepts (`Resting`).
- Background jobs: the entries of a yield queue are taken before the prompt that
  may refuse them or the commit that may not come (`yield-queue.ts:149`,
  `agent-loop.ts:1478`), and a result dropped there is not delivered again
  (`InjectFails`).
- Session: a peer's record may be left behind a blocked queue, where the comment
  at 745-748 speaks of a queue that will itself drive a turn (`passed` in
  `RestIsSettled`). After an abort the guard that "makes it a no-op when a new
  turn already started" (711-714) does not see a resume whose count the end of a
  cut turn has subtracted, so that several may start. A prompt that waits for a
  busy agent is not cancelled by the abort that frees it. An abort during the
  preflight of a resume blocks the queue. `#scheduleQueuedMessageDrain` and
  `wakeForIrc` do not look whether the session is connected, which 716-728 holds
  to decide who owns the queue. A run that a steer has resumed after a user's
  interrupt takes the follow-ups the interrupt held (5867-5871). Follow-ups that
  a wake has set aside are invisible to `clearQueue`.

## 5. Fairness

Weak fairness of continuations: a settled promise's reactions run. Strong
fairness of macrotasks where other macrotasks may come first for ever
(`AgentLifecycle`). Timers fire, sinks settle, a turn reaches its next boundary
(`AsyncJobs`). In `ToolBatch` a call ends by itself only if it cannot be
interrupted; in `AgentRun` hooks, tools and streams end only once the signal
they are given has aborted. Nothing is assumed of users, peers, models and jobs.
`ToolBatch!MessagesGetThrough` assumes that the gate is not engaged for ever.
In `PeerMessages` continuations run, `ensureLive` settles (`AgentLifecycle!
EveryCallEnds`), an awaited send times out (`irc.timeoutMs`; 0 would switch that
off), and each agent whose calls have returned reaches its next boundary, or ends
its turn and settles (`Polls`); no agent
has to send, and a plain wait need not end by its timer. `SessionTurns` states no fairness: that nothing
waits for ever is the invariant `NeverStuck`, which names for each turn and
abort what it waits for.

## 6. Proofs

`ProviderConcurrency_proofs`: for any finite set of callers and any sequence of
caps, `TypeOK`, `SlotAccounting`, `WorkConserving`, `GrantsWithinLimit` and
`FirstComeFirstServed`. The accounting alone is not inductive: a release hands its
slot to the head of the queue, which must really be waiting, and a resize admits
a prefix of it. The invariant `IInv` therefore says that the cap is a limit, that
counter and queue are the holders and the waiters (`Consistent`), and that no
slot is free while callers wait (`Settled`). There is a lemma per method of the
semaphore, and the step lemma cites them action by action. `PrefixCardinality`
counts a queue's prefix, which `Resize` needs. The order of service follows from
`InOrder`, a relation between the queue before and after a step: an admission
takes a prefix, an abort splices one caller out, a new caller goes to the back,
so those who stay keep their order and nobody is granted a slot over one who
waits; and a call that finds room finds no queue to overtake, because of
`Settled`.

`ToolBatch_proofs`: for any number of calls and any batch, `TypeOK`,
`TellsWhatHappened`, `InBatchOrder`, `PeersSpareForeground` and `StartsAllowed`.
The invariant adds to them what ties a call's phase to what it ran and reported,
that steering is recorded whenever it is the source, that a call is preempted by
steering or was itself interruptible, and that nothing is unsettled once the
batch is closed. `InBatchOrder` rests on `WaitsThrough`: a call waits only for
the last exclusive call and the shared ones since, and that this makes it wait
for all exclusive calls before it is an argument about the greatest of them.

`AgentRun_proofs`: for any number of messages,
runs, leaks and continued turns, `TypeOK`, `AbortReachesTheRun`,
`TranscriptSound`, `AbortedTakesNothing`, `NothingVanishes` and
`NothingUnanswered`. A message can be in six places: in the transcript, in a
run's hand (taken off a queue, its hooks not yet over), pending in a run, and in
the three queues. `Neat(Spread(w))` says that it is in one of them at most, once,
and `Handed` that nothing is anywhere before it was handed in; each operator of a
step moves (`Moved`), cuts short, or adds, and there is a lemma for each of the
three. `Shape` ties what a run holds, and whether the model has heard all that
was said, to the stretch it is in; `AbortReachesTheRun` is needed for the
bystanders: a step of the run that owns the agent leaves the others with empty
hands, so that the invariant of each speaks of the same queues. The three action
properties come out of the same case analysis.

`AgentLifecycle_proofs`: for any number of callers, releasers, scanners, rows and
sessions, and every way the run may end, `TypeOK`, `IdleIsTimed`,
`HandsOutAttached`, `DeathIsFinal` and, of releases and scans that come in turn,
`OneSession`. The hard part of the invariant is
`ParkKnown`: between the timer and the commit of a park only microtasks run, and
none of them moves the id, so that a park that was not detached still is of the
current row and its session (`Quiet` excludes the continuations that could take
them away), and a cancelled one has its caller waiting, who owes the timer.
`AttachedKnown` says who has ordered the end of a session that is attached and
not live, `RunKnown` what nobody can have done before the run attached its
session. `OneSession` is proved of a part of the behaviours:
`OneSessionAtATime` assumes that a release begins only when no other is under way
(`Turnwise`) and that no scan reads while another does (`ScansInTurn`), which the
code does not enforce; `OneOfEach` is its case of one release and one scan. The
addition to the invariant, `Sole`, says who holds an open session: it is attached
to the ref the id names, or a park or a release of that ref waits for it to close
(`Held`); so an id that is free, or a ref whose revival may attach, has none, and
that is when one is opened. It also says that a scan under way found the id free
and nobody takes it meanwhile, and that nobody adopts or revives the ref of a run
that is not over (`RunAlone`). Most steps are `Gentle`: they open nothing, and
leave what is open where it is or closed. Without the two hypotheses `OneSession`
does not hold. A scan that read the directory before a kill registers the id over
a row that was revived meanwhile; of two releases, a finalizer's kill whose
tombstone cannot be written and the cancel that overlaps it free the id of an
agent whose session is still being disposed of.

`AsyncJobs_proofs`: for any number of jobs, ids and owners, `TypeOK`,
`ResultsGoToOwner` (if `Timely`), `NoRepeat` and `KeepsContract` (if `Tame`) and
`ReapMeansSettled` (if `Timely` and no session ends). `Tame` is the regime in
which the manager keeps its contract: `Timely`, and where sessions change, no
sink call is retried and no call waits in the foreground. Outside it TLC finds
that the contract fails: a foreground job that reuses an id loses its
result to the delivery of the job that had it before a session moved, and a sink
call that is retried tells a later session. The runs are inside it,
`async_live` with retries and foreground calls and `async_sessions` with
sessions. The invariant has thirteen parts. The ones that carry the argument:
every delivery, in the queue, in a sink or on a yield queue, has the owner
(`Addressed`) and the generation (`Stamped`) its job was born with; a job has at
most one of them (`OneCopy`); a result that has been told is suppressed as long
as a copy is on its way (`ToldKnown`); and a settled job that nobody was told of
has its row, and a copy, a foreground call or a hub wait that will tell it
(`NothingLost`). `NothingLost` is what the refinement needs: it makes the phase
of an untold result `done`, so that no step of the code loses one but to a
message or a refused injection (`missed`). The two ways a yield queue is emptied
share a lemma (`GivenUp`). `Phases` then
reads the step of `JobContract` off the job's status, `told` and `Over`, and
`JobSteps` says how these three can move in one step.

`PeerMessages_proofs`: for any number of agents, messages and calls, any mailbox
cap and any choice of agents without async execution, in plan mode or that only
send, `TypeOK`, `WaitersWait`, `NoHopelessWait` and `KeepsContract`. The actions
of the model are operators on the whole state, one applied to the result of
another, and so are the predicates of the proof: `Good(x)` is the invariant, and
`Lawful(x, y)` says what may have happened to each message between two states
(its send goes on, it stays, it is shown, it is discarded, or it leaves its place
unseen with its recipient's session). Each action is shown to reach a state `y` with
`Good(y)` and `Lawful(Now, y)` (`Arrives`). `Good` has three parts that carry the
argument. `PlacesKnown` says what lies where: a mailbox has what was reported
failed and a session's queues what was reported delivered, the steering queue
what the main agent wrote, and nothing that was shown. `GotKnown` says that what
a call has in its hand lies nowhere else, in no other hand, and, if the call
awaits a reply, is from the peer it wrote to; this is why a message cannot be
shown twice when a wait is raced. `SendsKnown` says that a call that awaits a
reply has written to that peer, so that when it returns undelivered there is a
failed message to blame (`Snubbed` in the contract). The sends of a broadcast are
one step: `Outcome` says what one send does to its message and to its
recipient's row and queues, and that is kept by the other sends, which touch
others (`SameOutcome`).

`SessionTurns_proofs`: for any number of prompts, resumes, wakes, aborts,
messages and records, `TypeOK`, `NeverStuck` and `RestIsSettled`. The predicates
are about values of the whole state, as the operators of the model are, and there
is a lemma for each of those (`Stranded` for the three ways to schedule a drain,
`Started` for a turn that begins, `Drained` for a settling that may resume the
queue), so that an action is a chain of values that each keep `Base`. Of `Base`,
`KindsKnown` has the states a turn of each kind can be in, `RunKnown` makes the
agent's run that of the one turn that is running, and `AbortsKnown` says that what
an abort waits for is there; `NeverStuck` follows from these three. `Counted`
bounds the count in flight by the turns that hold the session up: not more is
counted, but less may be, since an abort resets the count while the turns it cut
unwind. `Placed` has each queued message in one queue, once, and `Lifted` says that
behind a block lies no steering of a user that nothing was tried with, which is
what the abort, the preflight and a wake's end have to keep. At rest these are
strengthened to `Settled`: whoever was last to hold the session up has drained it,
and that is shown for every step that can be the last. `Invariance` has
`[]Roomy` as its hypothesis, the bound of the model: a schedule that finds no
turn left would do nothing. The code creates turns as it needs them. With endless pools, `Boundless`, the
hypothesis is a theorem, since `Counted` includes that only finitely many turns
hold the session, so that `WithoutBound` has none on states.

Assumptions: the named `ASSUME`s of the modules (finite sets, caps and bounds in
`Nat`), which TLC evaluates in the runs; for some theorems of `AsyncJobs` the
hypotheses above on its switches and bounds; for `OneSession` that releases and
scans come in turn; for `SessionTurns` that its pools are not exhausted, or are
endless. Every invariant and every action property that a passing run checks is
stated by a theorem. Only model-checked: the liveness properties
(`WaitersProceed`, `EveryCallEnds`, `AbortUnwinds` of two modules,
`EveryResultArrives`, `MessagesGetThrough`, `MessagesArrive`), and the four
violations.
Out of the prover's reach, here and later: liveness under fairness, `ENABLED`,
induction over data, and modules with `RECURSIVE` operators, of which there are
none.

## 7. Not modelled

*Parts of modelled components.* Section 3 lists them per module. The largest are
the transitions of a session (plan item 8), the compaction and retries inside a
turn, and the worker pools (plan item 10). The spawn
semaphore of the task tool (`task/index.ts:628-640`, `1094-1110`, `1248-1264`,
`1328-1361`) is another user of the class `Semaphore` models: a spawn acquires,
runs and releases as a provider call does, and reads the setting again when it
releases; its callers are not modelled.

*External answers.* What a model, a tool, a language server, a debugger, an MCP
server or a browser says is an input of the modelled code, chosen freely. The
wire formats and the generated protocol code (most lines of `packages/catalog`
and `packages/ai`) decide how an answer is encoded, not what the agent does next.

*Sequential algorithms over text.* Line hashes, anchored edits, patches, diffs,
rendering, prompts and token counts have no interleavings; tests reach them, and
a model of them would be as long as the code.

*Files and processes.* Session files, blobs, child processes and sockets behave
as the operating system says. Where the agent's control depends on such an
operation, the model has it as a step that may fail or come late (a tombstone
that cannot be written, a reviver that fails, a command that outlives its wait).

*Web sockets between a host and its guests* (`packages/coding-agent/src/collab`)
are a protocol of their own, and the next component to take after the plan.

*Native code* serves searches, shells and voice; it holds nothing the agent's
decisions read across steps.

------------------------------ MODULE AsyncJobs ------------------------------
(***************************************************************************)
(* Background jobs and the delivery of their results: the process-wide     *)
(* AsyncJobManager, the owner sessions it delivers to, the hub tool's wait *)
(* and snapshots, the foreground wait of the bash tool, and the reaper     *)
(* that waits for an owner's processes.                                    *)
(*   packages/coding-agent/src/async/job-manager.ts                        *)
(*   packages/coding-agent/src/session/agent-session.ts   (sink, teardown) *)
(*   packages/coding-agent/src/tools/hub/index.ts, jobs.ts  (wait, jobs)   *)
(*   packages/coding-agent/src/tools/bash.ts          (auto-backgrounding) *)
(* A job is an object; its id is a reusable name in the manager's maps.    *)
(* A step is the code between two awaits.  Times are abstracted to their   *)
(* order: a retry is due or not, a retention timer is armed or not.        *)
(***************************************************************************)
EXTENDS Naturals, FiniteSets, SequencesExt, Queues

CONSTANTS Jobs, Ids, Owners, None,
          MaxRunning,    \* #maxRunningJobs
          MaxAttempts,   \* bound: failed sink calls per delivery
          MaxEpoch,      \* bound: session transitions and teardowns per owner
          Kinds,         \* bound: how jobs start, "running", "queued" (task's) or
                         \* "foreground" (bash may wait for it first)
          Messages,      \* TRUE: a peer message may end a hub wait
          Refusals,      \* TRUE: an agent may refuse what its yield queue injects
          Timely         \* TRUE: nothing outlives a row's five-minute retention

ASSUME RunningAssumption == MaxRunning \in Nat \ {0}
ASSUME BoundsAssumption == MaxAttempts \in Nat /\ MaxEpoch \in Nat
ASSUME SwitchesAssumption == {Messages, Refusals, Timely} \subseteq BOOLEAN
ASSUME KindsAssumption == Kinds \subseteq {"running", "queued", "foreground"}
ASSUME NoneAssumption == None \notin Jobs \cup Ids \cup Owners

VARIABLES
    job,        \* the AsyncJob objects and what their run still does
    row,        \* #jobs: id -> job
    muted,      \* #suppressedDeliveries
    watched,    \* #watchedJobs
    timers,     \* #evictionTimers: ids whose row is due to be evicted
    post,       \* #deliveries, #inFlightDeliveries and #deliveryLoop
    live,       \* owners whose session has a registered delivery sink
    epoch,      \* #asyncDeliveryEpoch of each owner
    yielded,    \* async-result entries on each owner's yield queue
    hub,        \* each owner's hub wait
    reap,       \* each owner's waitForOwnerJobs
    disposed,   \* the manager is shut down
    repeated    \* history: jobs injected although the agent had the result

jobVars == <<job, row, timers>>
muteVars == <<muted, watched>>
sessionVars == <<live, epoch, yielded>>
vars == <<jobVars, muteVars, post, sessionVars, hub, reap, disposed, repeated>>

NewJob == [st |-> "new", id |-> None, owner |-> None, queued |-> FALSE,
           born |-> 0, live |-> FALSE, fg |-> FALSE, told |-> FALSE,
           missed |-> FALSE]  \* history: lost to a message or to a refused injection
NoWait == [pc |-> "idle", jobs |-> {}, ids |-> {}, message |-> FALSE]
NoReap == [pc |-> "idle", ids |-> {}, jobs |-> {}, all |-> FALSE]

Init ==
    /\ job = [j \in Jobs |-> NewJob]
    /\ row = [i \in Ids |-> None]
    /\ muted = {} /\ watched = {} /\ timers = {}
    /\ post = [queue |-> <<>>, flight |-> {}, loop |-> "none", at |-> None]
    /\ live = Owners
    /\ epoch = [o \in Owners |-> 0]
    /\ yielded = [o \in Owners |-> {}]
    /\ hub = [o \in Owners |-> NoWait]
    /\ reap = [o \in Owners |-> NoReap]
    /\ disposed = FALSE
    /\ repeated = {}

Rows == {row[i] : i \in Ids} \ {None}
RowsOf(o) == {j \in Rows : job[j].owner = o}
RunningRows == {j \in Rows : job[j].st = "running"}
Settled(j) == job[j].st = "settled"
Suppressed == muted \cup watched

-----------------------------------------------------------------------------
(* The delivery queue and its loop.  These operators map a value of post   *)
(* to the next one; mute is the set of suppressed ids at that moment.      *)

SkipMuted(q, mute) ==
    LET kept == {k \in DOMAIN q : q[k].id \notin mute} IN
    IF kept = {} THEN <<>> ELSE SubSeq(q, Min(kept), Len(q))

(* A delivery as its sink call holds it, with the session's generation.    *)
Sent(d) == [job |-> d.job, id |-> d.id, owner |-> d.owner, attempt |-> d.attempt,
            due |-> d.due, epoch |-> epoch[d.owner]]

(* The k-th delivery is taken from the queue, and #deliverDelivery runs up  *)
(* to its sink's first await: an owner with no sink dead-letters it.       *)
HandOver(p, k) ==
    LET d == p.queue[k] IN
    [p EXCEPT !.queue = RemoveAt(@, k),
              !.flight = @ \cup (IF d.owner \in live THEN {Sent(d)} ELSE {})]

(* #runDeliveryLoop from the top of its while to its next await.           *)
RunLoop(p, mute) ==
    LET q == SkipMuted(p.queue, mute) IN
    IF q = <<>> THEN [p EXCEPT !.queue = q, !.loop = "ending", !.at = None]
    ELSE IF ~Head(q).due
         THEN [p EXCEPT !.queue = q, !.loop = "sleeping", !.at = Head(q).job]
         ELSE HandOver([p EXCEPT !.queue = q, !.loop = "sending", !.at = Head(q).job], 1)

EnsureLoop(p, mute) ==
    IF p.loop = "none" /\ p.queue # <<>> THEN RunLoop(p, mute) ELSE p

OwnerAt(i) == IF row[i] = None THEN None ELSE job[row[i]].owner

Enqueue(p, j, i, mute) ==
    IF i \in mute THEN p
    ELSE EnsureLoop([p EXCEPT !.queue = Append(@,
            [job |-> j, id |-> i, owner |-> OwnerAt(i), attempt |-> 0, due |-> TRUE])],
            mute)

DropMuted(p, mute) ==
    LET kept == {k \in DOMAIN p.queue : p.queue[k].id \notin mute}
    IN  [p EXCEPT !.queue = Only(@, kept)]

(* acknowledgeDeliveries(ids)                                              *)
Acknowledge(ids) ==
    /\ muted' = muted \cup ids
    /\ post' = IF ids = {} THEN post ELSE DropMuted(post, muted \cup ids \cup watched)

Entry(d) == [job |-> d.job, id |-> d.id, epoch |-> d.epoch]
Queued(j) == \/ \E k \in DOMAIN post.queue : post.queue[k].job = j
             \/ \E d \in post.flight : d.job = j
QueuedId(i) == \/ \E k \in DOMAIN post.queue : post.queue[k].id = i
               \/ \E d \in post.flight : d.id = i

(* What brings the result of j: the delivery machinery, the yield queue, or *)
(* a foreground call.                                                      *)
Carried(j) == \/ Queued(j) \/ job[j].fg
              \/ \E o \in Owners : \E e \in yielded[o] : e.job = j

(* A hub wait that suppressed the delivery of j owes its caller the result.*)
Owes(o, j) == /\ hub[o].pc # "idle"
              /\ j \in hub[o].jobs /\ job[j].id \in hub[o].ids

LoopWakes ==
    /\ post.loop = "sleeping"
    /\ LET due == [k \in DOMAIN post.queue |->
                      IF post.queue[k].job = post.at
                      THEN [post.queue[k] EXCEPT !.due = TRUE] ELSE post.queue[k]]
       IN post' = RunLoop([post EXCEPT !.queue = due], Suppressed)
    /\ UNCHANGED <<jobVars, muteVars, sessionVars, hub, reap, disposed, repeated>>

LoopContinues ==
    /\ post.loop = "sending"
    /\ \A d \in post.flight : d.job # post.at
    /\ post' = RunLoop(post, Suppressed)
    /\ UNCHANGED <<jobVars, muteVars, sessionVars, hub, reap, disposed, repeated>>

(* Mutant: a result enqueued while the loop was ending starts no new loop. *)
LoopEnds_NoRecheck ==
    /\ post.loop = "ending"
    /\ post' = [post EXCEPT !.loop = "none"]
    /\ UNCHANGED <<jobVars, muteVars, sessionVars, hub, reap, disposed, repeated>>

LoopEnds ==
    /\ post.loop = "ending"
    /\ post' = EnsureLoop([post EXCEPT !.loop = "none"], Suppressed)
    /\ UNCHANGED <<jobVars, muteVars, sessionVars, hub, reap, disposed, repeated>>

(* The sink of the owner's AgentSession resolves: the result is queued for *)
(* injection unless the session has moved on or the id was acknowledged.   *)
Accepted(d) ==
    /\ d.owner \in live
    /\ d.epoch = epoch[d.owner]
    /\ d.id \notin Suppressed

SinkResolves(d) ==
    /\ post' = EnsureLoop([post EXCEPT !.flight = @ \ {d}], Suppressed)
    /\ yielded' = IF Accepted(d) THEN [yielded EXCEPT ![d.owner] = @ \cup {Entry(d)}]
                                 ELSE yielded
    /\ UNCHANGED <<jobVars, muteVars, live, epoch, hub, reap, disposed, repeated>>

SinkRejects(d) ==
    /\ d.attempt < MaxAttempts
    /\ LET again == [job |-> d.job, id |-> d.id, owner |-> d.owner,
                     attempt |-> d.attempt + 1, due |-> FALSE]
           q == IF d.id \in Suppressed THEN post.queue ELSE Append(post.queue, again)
       IN post' = EnsureLoop([post EXCEPT !.flight = @ \ {d}, !.queue = q], Suppressed)
    /\ UNCHANGED <<jobVars, muteVars, sessionVars, hub, reap, disposed, repeated>>

(* drainDeliveries for one owner hands out a delivery beside the loop.     *)
DeliverFiltered(o) ==
    \E k \in DOMAIN post.queue :
        /\ post.queue[k].owner = o
        /\ post.queue[k].id \notin Suppressed
        /\ post' = HandOver(post, k)
        /\ UNCHANGED <<jobVars, muteVars, sessionVars, hub, reap, disposed, repeated>>

-----------------------------------------------------------------------------
(* Sessions and jobs.                                                      *)

Over(j) == job[j].st # "new" /\ (disposed \/ job[j].born # epoch[job[j].owner])

(* The agent of a session that is not over reads the results of js.        *)
Tell(js) == [j \in Jobs |-> [job[j] EXCEPT !.told =
                @ \/ (j \in js /\ Settled(j) /\ ~Over(j))]]

Cancelled(f, js) == [j \in Jobs |->
    IF j \in js THEN [f[j] EXCEPT !.st = "cancelled"] ELSE f[j]]

(* scheduleEviction is by id, and does nothing once the manager is shut.   *)
Schedule(ids) == IF disposed THEN timers ELSE timers \cup ids

Active == Cardinality({j \in RunningRows : ~job[j].queued})

(* Mutant: a preferred id is used although a row has it.                   *)
Register_IdTaken(o, j, i, kind) ==
    /\ ~disposed /\ o \in live
    /\ job[j].st = "new"
    /\ job' = [job EXCEPT ![j] = [NewJob EXCEPT !.st = "running", !.id = i, !.owner = o,
                   !.queued = (kind = "queued"), !.born = epoch[o], !.live = TRUE,
                   !.fg = (kind = "foreground")]]
    /\ row' = [row EXCEPT ![i] = j]
    /\ muted' = IF kind = "foreground" THEN muted \cup {i} ELSE muted \ {i}
    /\ post' = IF kind = "foreground" THEN DropMuted(post, Suppressed \cup {i}) ELSE post
    /\ UNCHANGED <<timers, watched, sessionVars, hub, reap, disposed, repeated>>

Register(o, j, i, kind) ==
    /\ ~disposed /\ o \in live
    /\ job[j].st = "new" /\ row[i] = None
    /\ Active < MaxRunning
    /\ job' = [job EXCEPT ![j] = [NewJob EXCEPT !.st = "running", !.id = i, !.owner = o,
                   !.queued = (kind = "queued"), !.born = epoch[o], !.live = TRUE,
                   !.fg = (kind = "foreground")]]
    /\ row' = [row EXCEPT ![i] = j]
    /\ muted' = IF kind = "foreground" THEN muted \cup {i} ELSE muted \ {i}
    /\ post' = IF kind = "foreground" THEN DropMuted(post, Suppressed \cup {i}) ELSE post
    /\ UNCHANGED <<timers, watched, sessionVars, hub, reap, disposed, repeated>>

MarkRunning(j) ==
    /\ job[j].live /\ job[j].queued
    /\ job' = [job EXCEPT ![j].queued = FALSE]
    /\ UNCHANGED <<row, timers, muteVars, post, sessionVars, hub, reap, disposed, repeated>>

(* Mutant: an early return leaves the settled job "running".               *)
JobEnds_EarlyReturn(j) ==
    /\ job[j].live
    /\ job' = [job EXCEPT ![j].live = FALSE]
    /\ timers' = Schedule({job[j].id})
    /\ UNCHANGED <<row, muteVars, post, sessionVars, hub, reap, disposed, repeated>>

(* The run's promise settles; only a run that was not cancelled delivers.  *)
(* Everything downstream treats "completed" and "failed" alike: "settled". *)
JobEnds(j) ==
    /\ job[j].live
    /\ job' = [job EXCEPT ![j].live = FALSE,
                          ![j].st = IF @ = "cancelled" THEN @ ELSE "settled"]
    /\ post' = IF job[j].st = "cancelled" THEN post
               ELSE Enqueue(post, j, job[j].id, Suppressed)
    /\ timers' = Schedule({job[j].id})
    /\ UNCHANGED <<row, muteVars, sessionVars, hub, reap, disposed, repeated>>

(* Timely: by the time a row's retention ends, its run has exited and      *)
(* whatever was waiting for its result has had it.                         *)
Quiet(i) ==
    LET j == row[i] IN
    /\ j # None => ~job[j].live /\ ~job[j].fg /\ ~Queued(j)
    /\ \A o \in Owners : /\ \A e \in yielded[o] : e.id # i
                         /\ i \notin reap[o].ids
                         /\ \A w \in hub[o].jobs : job[w].id # i

(* A timer never fires between a promise and its continuations.            *)
EvictFires(i) ==
    /\ i \in timers
    /\ \A o \in Owners : reap[o].pc = "waiting" => \E j \in reap[o].jobs : job[j].live
    /\ Timely => Quiet(i)
    /\ row' = [row EXCEPT ![i] = None]
    /\ timers' = timers \ {i}
    /\ muted' = muted \ {i}
    /\ watched' = watched \ {i}
    /\ UNCHANGED <<job, post, sessionVars, hub, reap, disposed, repeated>>

(* Mutant: the teardown is not scoped to the owner.                        *)
ClearOwnJobs_AllOwners(o) ==
    LET done == {job[j].id : j \in {j \in Rows : Settled(j)}}
    IN /\ job' = Cancelled(job, RunningRows)
       /\ row' = [i \in Ids |-> IF i \in done THEN None ELSE row[i]]
       /\ timers' = Schedule({job[j].id : j \in RunningRows}) \ done
       /\ muted' = muted \ done
       /\ watched' = watched \ done
       /\ post' = IF done = {} THEN post ELSE DropMuted(post, Suppressed \cup done)
       /\ epoch' = [epoch EXCEPT ![o] = @ + 1]
       /\ yielded' = [yielded EXCEPT ![o] = {}]

(* #cancelOwnAsyncJobs: cancel what runs, evict what finished, and start a *)
(* new generation so that nothing in flight is injected later.             *)
ClearOwnJobs(o) ==
    LET running == {j \in RunningRows : job[j].owner = o}
        done == {job[j].id : j \in {j \in RowsOf(o) : Settled(j)}}
    IN /\ job' = Cancelled(job, running)
       /\ row' = [i \in Ids |-> IF i \in done THEN None ELSE row[i]]
       /\ timers' = Schedule({job[j].id : j \in running}) \ done
       /\ muted' = muted \ done
       /\ watched' = watched \ done
       /\ post' = IF done = {} THEN post ELSE DropMuted(post, Suppressed \cup done)
       /\ epoch' = [epoch EXCEPT ![o] = @ + 1]
       /\ yielded' = [yielded EXCEPT ![o] = {}]

(* Only between turns: newSession, handoff and switch abort the run first. *)
AtBoundary(o) == hub[o].pc = "idle" /\ \A j \in Jobs : job[j].fg => job[j].owner # o

SessionMoves(o) ==
    /\ o \in live /\ epoch[o] < MaxEpoch /\ AtBoundary(o)
    /\ ClearOwnJobs(o)
    /\ UNCHANGED <<live, hub, reap, disposed, repeated>>

SessionEnds(o) ==
    /\ o \in live /\ epoch[o] < MaxEpoch
    /\ live' = live \ {o}
    /\ ClearOwnJobs(o)
    /\ UNCHANGED <<hub, reap, disposed, repeated>>

SessionRevived(o) ==
    /\ o \notin live /\ ~disposed
    /\ live' = live \cup {o}
    /\ UNCHANGED <<jobVars, muteVars, post, epoch, yielded, hub, reap, disposed, repeated>>

(* A step boundary of the owner's run, or its idle flush: what the yield   *)
(* queue has is read by the session the owner now has, whose it ought to   *)
(* be; only a process that is shutting down reads nothing any more.        *)
Fresh(o) == {e \in yielded[o] : e.epoch = epoch[o] /\ e.id \notin Suppressed}

Inject(o) ==
    /\ o \in live /\ yielded[o] # {} /\ AtBoundary(o)
    /\ LET told == {e.job : e \in Fresh(o)}
       IN /\ job' = [j \in Jobs |-> [job[j] EXCEPT !.told = @ \/ (j \in told /\ ~disposed)]]
          /\ repeated' = repeated \cup {j \in told : job[j].told}
    /\ yielded' = [yielded EXCEPT ![o] = {}]
    /\ UNCHANGED <<row, timers, muteVars, post, live, epoch, hub, reap, disposed>>

(* The prompt of the idle flush throws (the agent is busy, or has no model)*)
(* or the run ends before it commits its asides: the entries, already taken*)
(* from the queue, are dropped and only a warning is logged.               *)
InjectFails(o) ==
    /\ Refusals /\ o \in live /\ Fresh(o) # {} /\ AtBoundary(o)
    /\ LET taken == {e.job : e \in Fresh(o)}
       IN job' = [j \in Jobs |-> [job[j] EXCEPT !.missed = @ \/ j \in taken]]
    /\ yielded' = [yielded EXCEPT ![o] = {}]
    /\ UNCHANGED <<row, timers, muteVars, post, live, epoch, hub, reap, disposed, repeated>>

-----------------------------------------------------------------------------
(* The hub tool.                                                           *)

(* snapshotJobs prefers whatever job now has the id.                       *)
Latest(j) == IF row[job[j].id] = None THEN j ELSE row[job[j].id]

(* Mutant: the snapshot acknowledges nothing.                              *)
Report_NoAck(js) ==
    job' = Tell({Latest(j) : j \in js}) /\ UNCHANGED <<muted, post>>

(* buildJobResult: the snapshot is the delivery of every settled job in it.*)
Report(js) ==
    LET shown == {Latest(j) : j \in js}
    IN /\ job' = Tell(shown)
       /\ Acknowledge({job[j].id : j \in {j \in shown : job[j].st # "running"}})

HubJobs(o) ==
    /\ o \in live /\ RowsOf(o) # {}
    /\ Report(RowsOf(o))
    /\ UNCHANGED <<row, timers, watched, sessionVars, hub, reap, disposed, repeated>>

HubCancel(o, j) ==
    /\ o \in live /\ j \in RunningRows /\ job[j].owner = o
    /\ job' = Cancelled(job, {j})
    /\ timers' = Schedule({job[j].id})
    /\ Acknowledge({job[j].id})
    /\ UNCHANGED <<row, watched, sessionVars, hub, reap, disposed, repeated>>

HubWait(o, js) ==
    LET running == js \cap RunningRows IN
    /\ o \in live /\ hub[o].pc = "idle" /\ running # {}
    /\ hub' = [hub EXCEPT ![o] = [pc |-> "waiting", jobs |-> js, message |-> FALSE,
                                  ids |-> {job[j].id : j \in running}]]
    /\ watched' = watched \cup {job[j].id : j \in running}
    /\ UNCHANGED <<jobVars, muted, post, sessionVars, reap, disposed, repeated>>

HubMessage(o) ==
    /\ Messages /\ hub[o].pc = "waiting" /\ ~hub[o].message
    /\ hub' = [hub EXCEPT ![o].message = TRUE]
    /\ UNCHANGED <<jobVars, muteVars, post, sessionVars, reap, disposed, repeated>>

(* The race is over: a job settled, a message came, or the window expired. *)
HubUnwatch(o) ==
    /\ hub[o].pc = "waiting"
    /\ hub' = [hub EXCEPT ![o].pc = "unwatched"]
    /\ watched' = watched \ hub[o].ids
    /\ UNCHANGED <<jobVars, muted, post, sessionVars, reap, disposed, repeated>>

(* After the race a message is returned alone.                             *)
HubReport(o) ==
    /\ hub[o].pc = "unwatched"
    /\ hub' = [hub EXCEPT ![o] = NoWait]
    /\ IF ~hub[o].message THEN Report(hub[o].jobs)
       ELSE /\ job' = [j \in Jobs |-> [job[j] EXCEPT !.missed =
                          @ \/ (Owes(o, j) /\ Settled(j) /\ ~Carried(j))]]
            /\ UNCHANGED <<muted, post>>
    /\ UNCHANGED <<row, timers, watched, sessionVars, reap, disposed, repeated>>

-----------------------------------------------------------------------------
(* The bash tool's foreground wait.  It ends with the job's own outcome,   *)
(* with an abort of the call, or, on a steer or at the threshold, by       *)
(* leaving the job in the background.  A call whose job was already shown  *)
(* elsewhere has long since returned.                                      *)

ForegroundDone(j) ==
    /\ job[j].fg /\ ~job[j].live
    /\ job' = [Tell({j}) EXCEPT ![j].fg = FALSE]
    /\ UNCHANGED <<row, timers, muteVars, post, sessionVars, hub, reap, disposed, repeated>>

ForegroundAborted(j) ==
    LET hit == {Latest(j)} \cap RunningRows IN
    /\ job[j].fg
    /\ job' = [Cancelled(Tell({j}), hit) EXCEPT ![j].fg = FALSE]
    /\ timers' = IF hit = {} THEN timers ELSE Schedule({job[j].id})
    /\ UNCHANGED <<row, muteVars, post, sessionVars, hub, reap, disposed, repeated>>

Backgrounded(j) ==
    LET i == job[j].id
        again == i \in muted /\ row[i] # None /\ ~QueuedId(i)
    IN /\ job[j].fg /\ ~job[j].told
       /\ job' = [job EXCEPT ![j].fg = FALSE]
       /\ muted' = muted \ {i}
       /\ post' = IF again /\ Settled(row[i])
                  THEN Enqueue(post, row[i], i, (muted \ {i}) \cup watched) ELSE post
       /\ UNCHANGED <<row, timers, watched, sessionVars, hub, reap, disposed, repeated>>

-----------------------------------------------------------------------------
(* waitForOwnerJobs, alone (settleAsyncWork: what can still wake the run)  *)
(* or after cancelAll (cancelAndReapOwnerJobs: every process).             *)

Pending(o, all, ids) == {j \in RowsOf(o) : job[j].id \notin ids
                                           /\ (all \/ job[j].id \notin Suppressed)}

ReapRound(o, all, ids) ==
    LET js == Pending(o, all, ids)
    IN IF js = {} THEN NoReap
       ELSE [pc |-> "waiting", all |-> all, jobs |-> js,
             ids |-> ids \cup {job[j].id : j \in js}]

ReapStart(o, all) ==
    /\ reap[o].pc = "idle" /\ Pending(o, all, {}) # {}
    /\ reap' = [reap EXCEPT ![o] = ReapRound(o, all, {})]
    /\ IF all
       THEN LET running == {j \in RunningRows : job[j].owner = o}
            IN /\ job' = Cancelled(job, running)
               /\ timers' = Schedule({job[j].id : j \in running})
       ELSE UNCHANGED <<job, timers>>
    /\ UNCHANGED <<row, muteVars, post, sessionVars, hub, disposed, repeated>>

(* Mutant: jobs registered while waiting are not awaited.                  *)
ReapContinues_OneRound(o) ==
    /\ reap[o].pc = "waiting" /\ \A j \in reap[o].jobs : ~job[j].live
    /\ reap' = [reap EXCEPT ![o] = NoReap]
    /\ UNCHANGED <<jobVars, muteVars, post, sessionVars, hub, disposed, repeated>>

ReapContinues(o) ==
    /\ reap[o].pc = "waiting" /\ \A j \in reap[o].jobs : ~job[j].live
    /\ reap' = [reap EXCEPT ![o] = ReapRound(o, reap[o].all, reap[o].ids)]
    /\ UNCHANGED <<jobVars, muteVars, post, sessionVars, hub, disposed, repeated>>

-----------------------------------------------------------------------------
(* Process shutdown.                                                       *)

(* MaxEpoch > 0 is a bound: where sessions do not change, neither does the *)
(* process shut down.                                                      *)
DisposeStart ==
    /\ ~disposed /\ MaxEpoch > 0
    /\ disposed' = TRUE
    /\ timers' = {}
    /\ job' = Cancelled(job, RunningRows)
    /\ UNCHANGED <<row, muteVars, post, sessionVars, hub, reap, repeated>>

DisposeEnd ==
    /\ disposed /\ Rows \cup live # {}
    /\ row' = [i \in Ids |-> None]
    /\ timers' = {} /\ muted' = {} /\ watched' = {} /\ live' = {}
    /\ post' = [post EXCEPT !.queue = <<>>, !.flight = {}]
    /\ UNCHANGED <<job, epoch, yielded, hub, reap, disposed, repeated>>

-----------------------------------------------------------------------------
Next ==
    \/ LoopWakes \/ LoopContinues \/ LoopEnds
    \/ \E d \in post.flight : SinkResolves(d) \/ SinkRejects(d)
    \/ \E o \in Owners, j \in Jobs, i \in Ids, kind \in Kinds : Register(o, j, i, kind)
    \/ \E j \in Jobs :
           \/ MarkRunning(j) \/ JobEnds(j) \/ HubCancel(job[j].owner, j)
           \/ ForegroundDone(j) \/ ForegroundAborted(j) \/ Backgrounded(j)
    \/ \E i \in Ids : EvictFires(i)
    \/ \E o \in Owners :
           \/ DeliverFiltered(o)
           \/ SessionMoves(o) \/ SessionEnds(o) \/ SessionRevived(o)
           \/ Inject(o) \/ InjectFails(o)
           \/ HubJobs(o) \/ \E js \in SUBSET RowsOf(o) : HubWait(o, js)
           \/ HubMessage(o) \/ HubUnwatch(o) \/ HubReport(o)
           \/ \E all \in BOOLEAN : ReapStart(o, all)
           \/ ReapContinues(o)
    \/ DisposeStart \/ DisposeEnd

Spec == Init /\ [][Next]_vars

(* Continuations and timers run: the loop's, the window of a hub wait, the *)
(* threshold of a foreground wait.  Sinks settle, and a turn reaches its   *)
(* next boundary.  Nothing is assumed of the jobs themselves.  (A wait with*)
(* timeoutMs 0 has no window; it ends only with a job or a message.)       *)
(* Each delivery and each foreground wait ends but once, so that one       *)
(* condition over them all leaves none waiting for ever.                   *)
Continues ==
    \/ LoopWakes \/ LoopContinues \/ LoopEnds
    \/ \E d \in post.flight : SinkResolves(d)
    \/ \E j \in Jobs : ForegroundDone(j) \/ Backgrounded(j)
Fairness ==
    /\ WF_vars(Continues)
    /\ \A o \in Owners : SF_vars(Inject(o) \/ InjectFails(o))
                       /\ WF_vars(HubUnwatch(o) \/ HubReport(o))

FairSpec == Spec /\ Fairness

-----------------------------------------------------------------------------
(* The maps hold jobs, ids and owners, and only a live run is running.     *)
TypeOK ==
    /\ job \in [Jobs -> [st : {"new", "running", "settled", "cancelled"},
                         id : Ids \cup {None}, owner : Owners \cup {None},
                         queued : BOOLEAN, born : 0 .. MaxEpoch, live : BOOLEAN,
                         fg : BOOLEAN, told : BOOLEAN, missed : BOOLEAN]]
    /\ row \in [Ids -> Jobs \cup {None}]
    /\ muted \subseteq Ids /\ watched \subseteq Ids /\ timers \subseteq Ids
    /\ post.loop \in {"none", "sleeping", "sending", "ending"}
    /\ live \subseteq Owners /\ epoch \in [Owners -> 0 .. MaxEpoch]
    /\ \A j \in Jobs : job[j].st = "running" => job[j].live
    /\ \A j \in Jobs : job[j].st = "new" <=> job[j].id = None
    /\ disposed \in BOOLEAN /\ repeated \subseteq Jobs

(* Who still answers for the result of a finished job: its carriers, or a  *)
(* hub wait on its way to a snapshot.                                      *)
InCustody(j) ==
    Carried(j) \/ \E o \in Owners : Owes(o, j) /\ ~hub[o].message

(* A result is never lost while its session lives (job-manager.ts, 397-415 *)
(* and 724-728: a skipped enqueue is made good by whoever suppressed it).  *)
NoLostResult ==
    \A j \in Jobs : Settled(j) /\ ~job[j].told /\ ~Over(j) => InCustody(j)

(* What the agents are promised, whatever the interleaving: JobContract.   *)
(* The mapping reads a job's phase off its status and its custody.  A      *)
(* result that a message's photo finish (NoLostResult, which the code does *)
(* not keep) or a refused injection has cost its agent stays untold.       *)
PhaseOf(j) ==
    IF ~Settled(j) THEN job[j].st
    ELSE IF job[j].told THEN "told"
    ELSE IF ~Over(j) /\ (Carried(j) \/ job[j].missed \/ \E o \in Owners : Owes(o, j))
         THEN "done"
    ELSE "dropped"

Contract == INSTANCE JobContract WITH
    phase <- [j \in Jobs |-> PhaseOf(j)],
    over <- {j \in Jobs : Over(j)}

(* Every step of the manager, its sinks and its waiters is a step of the   *)
(* contract: no result is lost, told to a later session, or told for a     *)
(* cancelled job.                                                          *)
KeepsContract == Contract!Spec

(* A result the agent has already had, from a snapshot, a foreground call  *)
(* or an earlier follow-up, is never injected again (prompts/tools/task.md,*)
(* 8: a settled snapshot is the delivery).                                 *)
NoRepeat == repeated = {}

(* A delivery carries the owner that registered its job, although the      *)
(* owner is looked up by a reusable id when the job ends.                  *)
ResultsGoToOwner ==
    \A j \in Jobs :
        /\ \A k \in DOMAIN post.queue :
               post.queue[k].job = j => post.queue[k].owner = job[j].owner
        /\ \A d \in post.flight : d.job = j => d.owner = job[j].owner

(* When waitForOwnerJobs answers, no process of the owner runs any more,   *)
(* those of cancelled jobs and of jobs registered meanwhile included.      *)
ReapMeansSettled ==
    [][\A o \in Owners :
          reap[o].pc = "waiting" /\ reap'[o].pc = "idle" =>
          \A j \in Jobs : job[j].owner = o /\ job[j].live =>
                          ~reap[o].all /\ job[j].id \in Suppressed]_vars

(* Every finished job's result reaches its agent, or the session ends, or  *)
(* it was lost to a message that ended the wait that owed it (NoLostResult)*)
(* or to an agent that refused the injection.                              *)
EveryResultArrives ==
    \A j \in Jobs : (Settled(j) /\ ~Over(j)) ~> (job[j].told \/ job[j].missed \/ Over(j))
==============================================================================

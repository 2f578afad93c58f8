---------------------------- MODULE AgentLifecycle ----------------------------
(***************************************************************************)
(* One agent id: its refs in the AgentRegistry, the AgentLifecycleManager  *)
(* that parks and revives its session, the run that spawns and finalizes   *)
(* it, and the callers that wake, kill, cancel or rediscover it.           *)
(*   packages/coding-agent/src/registry/agent-registry.ts                  *)
(*   packages/coding-agent/src/registry/agent-lifecycle.ts                 *)
(*   packages/coding-agent/src/registry/persisted-agents.ts  (disk scan)   *)
(*   packages/coding-agent/src/task/executor.ts              (finalize)    *)
(*   packages/coding-agent/src/sdk.ts      (registration, attach, dispose) *)
(* Every map of the manager is keyed by id and no code path crosses ids,   *)
(* so one id is enough.  An AgentRef is an object: its identity is a       *)
(* number in Refs, taken in order.  A step is the code between two awaits. *)
(***************************************************************************)
EXTENDS Naturals, FiniteSets

CONSTANTS Callers,   \* concurrent ensureLive calls
          Releasers, \* release calls: a kill, a cancel or a finalizer, each one call
          Scanners,  \* concurrent scans for persisted subagents
          MaxRefs, MaxSessions,   \* bounds on objects ever created
          Endings,   \* how the spawning run may be finalized
          Kills,     \* the releases issued, of {"kill", "cancel"}
          Resumed    \* TRUE: the process starts with the transcript on disk

ASSUME BoundsAssumption == MaxRefs \in Nat \ {0} /\ MaxSessions \in Nat \ {0}
ASSUME EndingsAssumption ==
    Endings \subseteq {"keepAlive", "oneShot", "isolated", "shutdown", "kill"}
ASSUME KillsAssumption == Kills \subseteq {"kill", "cancel"}
ASSUME ResumedAssumption == Resumed \in BOOLEAN

Refs == 1 .. MaxRefs
Sessions == 1 .. MaxSessions

VARIABLES
    cur, status, session,          \* registry: id -> ref, and the ref's fields
    sess, owner, turn, synced,     \* AgentSession objects
    adopted, park, rev,            \* the manager's maps
    call, rel, scan, run,          \* the actors
    tombstone, transcript          \* disk

registryVars == <<cur, status, session>>
sessionVars == <<sess, owner, turn, synced>>
actorVars == <<call, rel, scan, run>>
diskVars == <<tombstone, transcript>>
vars == <<registryVars, sessionVars, adopted, park, rev, actorVars, diskVars>>

NoAdoption == [ref |-> 0, timer |-> FALSE, reviver |-> FALSE]
NoPark == [ref |-> 0, session |-> 0, cancelled |-> FALSE, detached |-> FALSE]
NoRevival == [phase |-> "none", session |-> 0, cold |-> FALSE]
Idle == [pc |-> "idle", ref |-> 0, got |-> 0]
Resting == [pc |-> "idle", ref |-> 0, kind |-> "none", live |-> 0]
Done == [Resting EXCEPT !.pc = "done"]

Init ==
    /\ cur = 0
    /\ status = [r \in Refs |-> "unused"]
    /\ session = [r \in Refs |-> 0]
    /\ sess = [s \in Sessions |-> "unused"]
    /\ owner = [s \in Sessions |-> 0]
    /\ turn = [s \in Sessions |-> FALSE]
    /\ synced = [s \in Sessions |-> FALSE]
    /\ adopted = NoAdoption
    /\ park = NoPark
    /\ rev = [r \in Refs |-> NoRevival]
    /\ call = [c \in Callers |-> Idle]
    /\ rel = [l \in Releasers |-> Resting]
    /\ scan = [x \in Scanners |-> [pc |-> "idle", tombstone |-> FALSE]]
    /\ run = [pc |-> IF Resumed THEN "done" ELSE "none", ref |-> 0, session |-> 0]
    /\ tombstone = FALSE
    /\ transcript = Resumed

------------------------------------------------------------------------------
\* Objects.
Fresh(f) == {o \in DOMAIN f : f[o] = "unused" /\ \A p \in 1 .. o - 1 : f[p] # "unused"}
Attached == IF cur = 0 THEN 0 ELSE session[cur]

\* session.dispose() marks the session at once; repeated calls share a promise.
Disposing(s) == IF s # 0 /\ sess[s] = "live" THEN [sess EXCEPT ![s] = "disposing"]
                                             ELSE sess

\* Mutant: a removal does not clear the timer.
OnRemoved_KeepsTimer(a, r) == IF a.ref = r THEN [a EXCEPT !.ref = 0, !.reviver = FALSE] ELSE a

\* The manager's registry listener: a status change of the adopted ref.
OnStatus(a, r, st) ==
    IF a.ref # r THEN a
    ELSE CASE st = "running" -> [a EXCEPT !.timer = FALSE]
           [] st = "idle" /\ park = NoPark -> [a EXCEPT !.timer = TRUE]
           [] OTHER -> a
OnRemoved(a, r) == IF a.ref = r THEN NoAdoption ELSE a

\* registry.setStatus, with the listener run on the adoption a; aborted is
\* terminal, and an expectation that does not hold refuses the change.
SetStatus(a, r, st, expected) ==
    IF ~expected \/ status[r] \in {"aborted", st}
    THEN UNCHANGED status /\ adopted' = a
    ELSE status' = [status EXCEPT ![r] = st] /\ adopted' = OnStatus(a, r, st)

\* Mutant: whatever the id means now is removed.
Unregister_AnyRef(r) == cur' = 0 /\ adopted' = OnRemoved(adopted, cur)

\* registry.unregister of the exact ref r.
Unregister(r) == IF cur = r /\ r # 0
                 THEN cur' = 0 /\ adopted' = OnRemoved(adopted, r)
                 ELSE UNCHANGED <<cur, adopted>>

\* A promise continuation is ready: the microtask queue drains before the event
\* loop delivers any timer, I/O completion or session event.
Gone(s) == s # 0 /\ sess[s] = "disposed"
Ready == \/ park # NoPark /\ (park.detached => Gone(park.session))
         \/ run.pc \in {"oneShot", "isolated"} /\ Gone(run.session)
         \/ \E r \in Refs : rev[r].phase = "failing" /\ Gone(rev[r].session)
         \/ \E l \in Releasers : rel[l].pc = "dispose" /\ Gone(rel[l].live)
         \/ park = NoPark /\ \/ \E c \in Callers : call[c].pc \in {"kept", "parked"}
                             \/ \E l \in Releasers : rel[l].pc = "park"
Macrotask == ~Ready

------------------------------------------------------------------------------
\* The spawning run.

\* createAgentSession claims a free id before it builds the session.
Spawn == \E r \in Fresh(status) :
    /\ Macrotask
    /\ run.pc = "none" /\ cur = 0
    /\ cur' = r
    /\ status' = [status EXCEPT ![r] = "running"]
    /\ run' = [run EXCEPT !.pc = "starting", !.ref = r]
    /\ UNCHANGED <<session, sessionVars, adopted, park, rev, call, rel, scan, diskVars>>

\* The session is built: attach it to the exact ref, unless that was replaced
\* or killed meanwhile, in which case the run fails and takes back its ref.
SpawnAttach == \E s \in Fresh(sess) :
    /\ Macrotask
    /\ run.pc = "starting"
    /\ IF cur = run.ref /\ status[cur] # "aborted"
       THEN /\ session' = [session EXCEPT ![cur] = s]
            /\ sess' = [sess EXCEPT ![s] = "live"]
            /\ owner' = [owner EXCEPT ![s] = cur]
            /\ synced' = [synced EXCEPT ![s] = TRUE]
            /\ transcript' = TRUE
            /\ run' = [run EXCEPT !.pc = "active", !.session = s]
            /\ UNCHANGED <<cur, status, turn, adopted>>
       ELSE /\ run' = [run EXCEPT !.pc = "done"]
            /\ UNCHANGED <<registryVars, sessionVars, adopted, transcript>>
    /\ UNCHANGED <<park, rev, call, rel, scan, tombstone>>

SpawnFails ==
    /\ Macrotask
    /\ run.pc = "starting"
    /\ IF status[run.ref] \in {"parked", "aborted"}
       THEN UNCHANGED <<cur, adopted>>
       ELSE Unregister(run.ref)
    /\ run' = [run EXCEPT !.pc = "done"]
    /\ UNCHANGED <<status, session, sessionVars, park, rev, call, rel, scan, diskVars>>

OwnsRef == cur # 0 /\ session[cur] = run.session

\* finalizeSubagentLifecycle, keep-alive branch: idle, then adopt.
FinalizeKeepAlive ==
    /\ Macrotask
    /\ run.pc = "active" /\ ~turn[run.session] /\ "keepAlive" \in Endings
    /\ run' = [run EXCEPT !.pc = "done"]
    /\ IF OwnsRef /\ status[cur] # "aborted"
       THEN /\ status' = [status EXCEPT ![cur] = "idle"]
            /\ adopted' = [ref |-> cur, timer |-> TRUE, reviver |-> TRUE]
            /\ UNCHANGED sess
       ELSE /\ sess' = Disposing(run.session)
            /\ UNCHANGED <<status, adopted>>
    /\ UNCHANGED <<cur, session, owner, turn, synced, park, rev, call, rel, scan, diskVars>>

\* One-shot and isolated branches: dispose now, forget or detach afterwards.
\* An isolated ref is parked before its session is disposed.
FinalizeDispose(mode) ==
    /\ Macrotask
    /\ run.pc = "active" /\ ~turn[run.session]
    /\ mode \in Endings \cap {"oneShot", "isolated"}
    /\ run' = [run EXCEPT !.pc = mode, !.ref = IF OwnsRef THEN cur ELSE 0]
    /\ IF mode = "isolated" /\ OwnsRef
       THEN SetStatus(adopted, cur, "parked", TRUE)
       ELSE UNCHANGED <<status, adopted>>
    /\ sess' = Disposing(run.session)
    /\ UNCHANGED <<cur, session, owner, turn, synced, park, rev, call, rel, scan, diskVars>>

\* disposeSession returned.
FinalizeDone ==
    /\ run.pc \in {"oneShot", "isolated"} /\ Gone(run.session)
    /\ run' = [run EXCEPT !.pc = "done"]
    /\ IF run.pc = "oneShot" THEN Unregister(run.ref) /\ UNCHANGED session
       ELSE /\ session' = IF run.ref # 0 /\ cur = run.ref
                          THEN [session EXCEPT ![cur] = 0] ELSE session
            /\ UNCHANGED <<cur, adopted>>
    /\ UNCHANGED <<status, sessionVars, park, rev, call, rel, scan, diskVars>>

------------------------------------------------------------------------------
\* Parking.

\* park(), from the idle timer: runs up to its one-microtask yield.  Whatever
\* the manager cannot park any more leaves no trace but the spent timer.
TimerFires ==
    /\ Macrotask
    /\ adopted.timer
    /\ adopted' = [adopted EXCEPT !.timer = FALSE]
    /\ park' = IF park = NoPark /\ adopted.ref = cur /\ session[cur] # 0
               THEN [NoPark EXCEPT !.ref = cur, !.session = session[cur]]
               ELSE park
    /\ UNCHANGED <<registryVars, sessionVars, rev, actorVars, diskVars>>

\* Mutant: the dying session stays attached.
ParkCommit_Attached ==
    /\ park # NoPark /\ ~park.detached
    /\ IF ~park.cancelled /\ cur = park.ref /\ session[cur] = park.session
          /\ adopted.ref = park.ref
       THEN /\ park' = [park EXCEPT !.detached = TRUE]
            /\ SetStatus(adopted, cur, "parked", TRUE)
            /\ sess' = Disposing(park.session)
       ELSE /\ park' = NoPark
            /\ UNCHANGED <<status, adopted, sess>>
    /\ UNCHANGED <<cur, session, owner, turn, synced, rev, actorVars, diskVars>>

\* After the yield: give up if cancelled or overtaken, else detach and mark
\* parked, and only then dispose.  The commit does not look at the status.
ParkCommit ==
    /\ park # NoPark /\ ~park.detached
    /\ IF ~park.cancelled /\ cur = park.ref /\ session[cur] = park.session
          /\ adopted.ref = park.ref
       THEN /\ park' = [park EXCEPT !.detached = TRUE]
            /\ session' = [session EXCEPT ![cur] = 0]
            /\ SetStatus(adopted, cur, "parked", TRUE)
            /\ sess' = Disposing(park.session)
       ELSE /\ park' = NoPark
            /\ UNCHANGED <<session, status, adopted, sess>>
    /\ UNCHANGED <<cur, owner, turn, synced, rev, actorVars, diskVars>>

ParkFinish ==
    /\ park.detached /\ Gone(park.session)
    /\ park' = NoPark
    /\ UNCHANGED <<registryVars, sessionVars, adopted, rev, actorVars, diskVars>>

------------------------------------------------------------------------------
\* ensureLive.

Answer(c, s) == call' = [call EXCEPT ![c] = [pc |-> "idle", ref |-> 0, got |-> s]]

Revivable == adopted.ref = cur /\ adopted.reviver

\* The code after the park check: hand out the attached session, join a revival
\* of this very ref, or start one.
Resolve(c) ==
    IF cur = 0 THEN Answer(c, 0) /\ UNCHANGED rev
    ELSE IF session[cur] # 0 THEN Answer(c, session[cur]) /\ UNCHANGED rev
    ELSE IF rev[cur] = NoRevival /\ status[cur] # "parked"
    THEN Answer(c, 0) /\ UNCHANGED rev
    ELSE /\ call' = [call EXCEPT ![c] = [pc |-> "revival", ref |-> cur, got |-> 0]]
         /\ rev' = IF rev[cur] # NoRevival THEN rev
                   ELSE [rev EXCEPT ![cur].phase =
                           IF Revivable THEN "build" ELSE "factory"]

\* Called while a park is in flight: cancel it if the session is still
\* attached, else wait for it to finish.
EnsureLive(c) ==
    /\ call[c] = Idle
    /\ IF park = NoPark
       THEN Resolve(c) /\ UNCHANGED park
       ELSE /\ LET keep == Attached # 0 /\ ~park.detached
               IN  /\ call' = [call EXCEPT ![c] =
                                 [pc |-> IF keep THEN "kept" ELSE "parked",
                                  ref |-> cur, got |-> 0]]
                   /\ park' = [park EXCEPT !.cancelled = @ \/ keep]
            /\ UNCHANGED rev
    /\ UNCHANGED <<registryVars, sessionVars, adopted, rel, scan, run, diskVars>>

\* The caller is done with the answer it got.
Use(c) ==
    /\ call[c].pc = "idle" /\ call[c].got # 0
    /\ call' = [call EXCEPT ![c] = Idle]
    /\ UNCHANGED <<registryVars, sessionVars, adopted, park, rev, rel, scan, run, diskVars>>

\* Mutant: the timer the park cleared stays cleared.
KeepSession_NoRearm(c) ==
    /\ call[c].pc = "kept" /\ park = NoPark
    /\ IF Attached # 0 THEN Answer(c, Attached) /\ UNCHANGED rev ELSE Resolve(c)
    /\ UNCHANGED <<registryVars, sessionVars, adopted, park, rel, scan, run, diskVars>>

\* The cancelled park is over: re-arm the timer it cleared and keep the session.
KeepSession(c) ==
    /\ call[c].pc = "kept" /\ park = NoPark
    /\ IF Attached # 0
       THEN /\ adopted' = IF adopted.ref # 0 /\ adopted.ref = call[c].ref
                             /\ status[call[c].ref] = "idle"
                          THEN [adopted EXCEPT !.timer = TRUE] ELSE adopted
            /\ Answer(c, Attached)
            /\ UNCHANGED rev
       ELSE Resolve(c) /\ UNCHANGED adopted
    /\ UNCHANGED <<registryVars, sessionVars, park, rel, scan, run, diskVars>>

AfterPark(c) ==
    /\ call[c].pc = "parked" /\ park = NoPark
    /\ Resolve(c)
    /\ UNCHANGED <<registryVars, sessionVars, adopted, park, rel, scan, run, diskVars>>

\* A settled revival answers everyone who joined it.
Settle(r, s) ==
    /\ rev' = [rev EXCEPT ![r] = NoRevival]
    /\ call' = [c \in Callers |-> IF call[c].pc = "revival" /\ call[c].ref = r
                                  THEN [Idle EXCEPT !.got = s] ELSE call[c]]

\* The persisted-reviver factory answers.  Its reviver is adopted before the ref
\* is checked again.
FactoryAnswers(r, able) ==
    /\ Macrotask
    /\ rev[r].phase = "factory"
    /\ adopted' = IF able THEN [ref |-> r, timer |-> FALSE, reviver |-> TRUE]
                          ELSE adopted
    /\ IF able /\ cur = r /\ status[r] = "parked"
       THEN /\ rev' = [rev EXCEPT ![r].phase = "build", ![r].cold = TRUE]
            /\ UNCHANGED call
       ELSE Settle(r, 0)
    /\ UNCHANGED <<registryVars, sessionVars, park, rel, scan, run, diskVars>>

\* A failed cold revive drops the adoption it made, if it is still in place.
DropCold(r) == IF rev[r].cold /\ adopted.ref = r THEN NoAdoption ELSE adopted

\* registerIfAvailable with the expected ref.
ReviverClaims(r) ==
    /\ Macrotask
    /\ rev[r].phase = "build"
    /\ IF cur = r /\ status[r] = "parked" /\ session[r] = 0
       THEN rev' = [rev EXCEPT ![r].phase = "claimed"] /\ UNCHANGED <<call, adopted>>
       ELSE Settle(r, 0) /\ adopted' = DropCold(r)
    /\ UNCHANGED <<registryVars, sessionVars, park, rel, scan, run, diskVars>>

\* Mutant: a tombstone made while the session was built is not noticed.
ReviverAttaches_OverTombstone(r) == \E s \in Fresh(sess) :
    /\ Macrotask
    /\ rev[r].phase = "claimed"
    /\ session' = [session EXCEPT ![r] = s]
    /\ SetStatus(adopted, r, "running", TRUE)
    /\ sess' = [sess EXCEPT ![s] = "live"]
    /\ owner' = [owner EXCEPT ![s] = r]
    /\ rev' = [rev EXCEPT ![r].phase = "attached", ![r].session = s]
    /\ UNCHANGED <<cur, call, turn, synced, park, rel, scan, run, diskVars>>

\* The rebuilt session is attached to the exact ref and marked running; nothing
\* follows its turns yet.
ReviverAttaches(r) == \E s \in Fresh(sess) :
    /\ Macrotask
    /\ rev[r].phase = "claimed"
    /\ IF cur = r /\ status[r] # "aborted"
       THEN /\ session' = [session EXCEPT ![r] = s]
            /\ SetStatus(adopted, r, "running", TRUE)
            /\ sess' = [sess EXCEPT ![s] = "live"]
            /\ owner' = [owner EXCEPT ![s] = r]
            /\ rev' = [rev EXCEPT ![r].phase = "attached", ![r].session = s]
            /\ UNCHANGED call
       ELSE /\ Settle(r, 0) /\ adopted' = DropCold(r)
            /\ UNCHANGED <<status, session, sess, owner>>
    /\ UNCHANGED <<cur, turn, synced, park, rel, scan, run, diskVars>>

\* Building fails: before the attach there is nothing to undo, after it the new
\* session is disposed.
ReviverFails(r) ==
    /\ Macrotask
    /\ \/ /\ rev[r].phase \in {"build", "claimed"}
          /\ Settle(r, 0) /\ adopted' = DropCold(r)
          /\ UNCHANGED sess
       \/ /\ rev[r].phase = "attached"
          /\ sess' = Disposing(rev[r].session)
          /\ rev' = [rev EXCEPT ![r].phase = "failing"]
          /\ UNCHANGED <<call, adopted>>
    /\ UNCHANGED <<registryVars, owner, turn, synced, park, rel, scan, run, diskVars>>

\* The reviver returns, with its status sync installed; the manager accepts the
\* session only if this ref still runs it, and marks it idle.
ReviveSettles(r) ==
    /\ Macrotask
    /\ rev[r].phase = "attached"
    /\ synced' = [synced EXCEPT ![rev[r].session] = TRUE]
    /\ IF cur = r /\ status[r] = "running" /\ session[r] = rev[r].session
       THEN /\ SetStatus(adopted, r, "idle", TRUE)
            /\ Settle(r, rev[r].session)
            /\ UNCHANGED sess
       ELSE /\ sess' = Disposing(rev[r].session)
            /\ rev' = [rev EXCEPT ![r].phase = "failing"]
            /\ UNCHANGED <<status, adopted, call>>
    /\ UNCHANGED <<cur, session, owner, turn, park, rel, scan, run, diskVars>>

\* Mutant: only the caller that started the revival would hear of its failure.
ReviveFailed_Silent(r) ==
    /\ rev[r].phase = "failing" /\ Gone(rev[r].session)
    /\ rev' = [rev EXCEPT ![r] = NoRevival] /\ adopted' = DropCold(r)
    /\ UNCHANGED <<call, registryVars, sessionVars, park, rel, scan, run, diskVars>>

ReviveFailed(r) ==
    /\ rev[r].phase = "failing" /\ Gone(rev[r].session)
    /\ Settle(r, 0) /\ adopted' = DropCold(r)
    /\ UNCHANGED <<registryVars, sessionVars, park, rel, scan, run, diskVars>>

------------------------------------------------------------------------------
\* release: kills (tombstone, bound to a ref), the finalizer's kill, and plain
\* cancels and shutdowns.
Tombstoned(kind) == kind \in {"kill", "finalize"}

\* The part of release that runs once no park is in its way.
ReleaseRest(l, r, kind) ==
    IF Tombstoned(kind)
    THEN /\ rel' = [rel EXCEPT ![l] = [pc |-> "persist", ref |-> r,
                                       kind |-> kind, live |-> 0]]
         /\ UNCHANGED <<cur, sess>>
    ELSE LET live == IF cur = r THEN session[r] ELSE 0
         IN  /\ sess' = Disposing(live)
             /\ cur' = IF live = 0 /\ cur = r THEN 0 ELSE cur
             /\ rel' = [rel EXCEPT ![l] =
                          IF live = 0 THEN Done
                          ELSE [pc |-> "dispose", ref |-> r,
                                kind |-> kind, live |-> live]]

\* release(id, expected): expected = 0 takes whatever the id means now.
Release(l, expected, kind) ==
    LET r == IF cur # 0 /\ expected \in {0, cur} THEN cur
             ELSE IF adopted.ref # 0 /\ expected \in {0, adopted.ref} THEN adopted.ref
             ELSE 0
    IN  /\ adopted' = OnRemoved(adopted, r)
        /\ IF r = 0
           THEN rel' = [rel EXCEPT ![l] = Done] /\ UNCHANGED <<cur, sess, park>>
           ELSE IF park # NoPark /\ park.ref = r
           THEN /\ park' = [park EXCEPT !.cancelled = @ \/ ~park.detached]
                /\ rel' = [rel EXCEPT ![l] = [pc |-> "park", ref |-> r,
                                              kind |-> kind, live |-> 0]]
                /\ UNCHANGED <<cur, sess>>
           ELSE ReleaseRest(l, r, kind) /\ UNCHANGED park

\* A kill names the ref it saw; a cancel names only the id.  Both first abort a
\* running turn and wait for it.
Kill(l, kind) ==
    /\ rel[l].pc = "idle" /\ cur # 0
    /\ LET expected == IF kind = "kill" THEN cur ELSE 0
       IN  IF status[cur] = "running" /\ session[cur] # 0 /\ turn[session[cur]]
           THEN /\ rel' = [rel EXCEPT ![l] = [pc |-> "abort", ref |-> expected,
                                              kind |-> kind, live |-> session[cur]]]
                /\ UNCHANGED <<cur, sess, adopted, park>>
           ELSE Release(l, expected, kind)
    /\ UNCHANGED <<status, session, owner, turn, synced, rev, call, scan, run, diskVars>>

TurnAborted(l) ==
    /\ Macrotask
    /\ rel[l].pc = "aborted"
    /\ Release(l, rel[l].ref, rel[l].kind)
    /\ UNCHANGED <<status, session, owner, turn, synced, rev, call, scan, run, diskVars>>

\* finalizeSubagentLifecycle, aborted branch: a kill or a manager shutdown.
FinalizeAborted(l, ending) ==
    /\ Macrotask
    /\ run.pc = "active" /\ ending \in Endings \cap {"shutdown", "kill"}
    /\ rel[l].pc = "idle"
    /\ run' = [run EXCEPT !.pc = "done"]
    /\ IF OwnsRef
       THEN Release(l, cur, IF ending = "kill" THEN "finalize" ELSE "cancel")
       ELSE sess' = Disposing(run.session) /\ UNCHANGED <<cur, adopted, park, rel>>
    /\ UNCHANGED <<status, session, owner, turn, synced, rev, call, scan, diskVars>>

ReleaseAfterPark(l) ==
    /\ rel[l].pc = "park" /\ park = NoPark
    /\ ReleaseRest(l, rel[l].ref, rel[l].kind)
    /\ adopted' = IF cur' # cur THEN OnRemoved(adopted, rel[l].ref) ELSE adopted
    /\ UNCHANGED <<status, session, owner, turn, synced, park, rev, call, scan, run, diskVars>>

\* The ref becomes a terminal row, detached from its session, which is disposed.
Entomb(l, r) ==
    LET live == IF cur = r THEN session[r] ELSE 0
    IN  /\ SetStatus(adopted, r, "aborted", cur = r)
        /\ session' = IF cur = r THEN [session EXCEPT ![r] = 0] ELSE session
        /\ sess' = Disposing(live)
        /\ rel' = [rel EXCEPT ![l] =
                     IF live = 0 THEN Done
                     ELSE [@ EXCEPT !.pc = "dispose", !.live = live]]

\* The tombstone file is on disk.
Persisted(l) ==
    /\ Macrotask
    /\ rel[l].pc = "persist"
    /\ tombstone' = TRUE
    /\ Entomb(l, rel[l].ref)
    /\ UNCHANGED <<cur, owner, turn, synced, park, rev, call, scan, run, transcript>>

\* It cannot be written: a kill fails, with the adoption already dropped; the
\* finalizer buries the ref in memory all the same.
PersistFails(l) ==
    /\ Macrotask
    /\ rel[l].pc = "persist"
    /\ IF rel[l].kind = "finalize" THEN Entomb(l, rel[l].ref)
       ELSE /\ rel' = [rel EXCEPT ![l] = Done]
            /\ UNCHANGED <<status, session, sess, adopted>>
    /\ UNCHANGED <<cur, owner, turn, synced, park, rev, call, scan, run, diskVars>>

Released(l) ==
    /\ rel[l].pc = "dispose" /\ Gone(rel[l].live)
    /\ rel' = [rel EXCEPT ![l] = Done]
    /\ IF Tombstoned(rel[l].kind) THEN UNCHANGED <<cur, adopted>> ELSE Unregister(rel[l].ref)
    /\ UNCHANGED <<status, session, sessionVars, park, rev, call, scan, run, diskVars>>

------------------------------------------------------------------------------
\* Sessions.

\* A turn starts and ends; the status sync, once installed, tells the registry.
AgentStart(s) ==
    /\ Macrotask
    /\ sess[s] = "live" /\ ~turn[s]
    /\ turn' = [turn EXCEPT ![s] = TRUE]
    /\ IF synced[s] /\ Attached = s
       THEN SetStatus(adopted, cur, "running", TRUE)
       ELSE UNCHANGED <<status, adopted>>
    /\ UNCHANGED <<cur, session, sess, owner, synced, park, rev, call, rel, scan, run, diskVars>>

\* Whoever waits in session.abort() goes on when the turn is over.
TurnOver(s) ==
    rel' = [l \in Releasers |-> IF rel[l].pc = "abort" /\ rel[l].live = s
                                THEN [rel[l] EXCEPT !.pc = "aborted"] ELSE rel[l]]

\* Disposal aborts the turn before it disconnects the listeners, so agent_end may
\* still be seen on a disposing session.
AgentEnd(s) ==
    /\ Macrotask
    /\ sess[s] \in {"live", "disposing"} /\ turn[s]
    /\ turn' = [turn EXCEPT ![s] = FALSE]
    /\ IF synced[s] /\ Attached = s
       THEN SetStatus(adopted, cur, "idle", TRUE)
       ELSE UNCHANGED <<status, adopted>>
    /\ TurnOver(s)
    /\ UNCHANGED <<cur, session, sess, owner, synced, park, rev, call, scan, run, diskVars>>

Spared(r) == \/ status[r] = "parked"
             \/ status[r] = "aborted" /\ session[r] = 0
             \/ park.ref = r /\ ~park.cancelled

\* Disposal is complete: the wrapper takes the ref the session was created for
\* out of the registry, unless it is parked, parking or a tombstone.
SessionDisposed(s) ==
    /\ Macrotask
    /\ sess[s] = "disposing"
    /\ sess' = [sess EXCEPT ![s] = "disposed"]
    /\ turn' = [turn EXCEPT ![s] = FALSE]
    /\ TurnOver(s)
    /\ IF Spared(owner[s]) THEN UNCHANGED <<cur, adopted>> ELSE Unregister(owner[s])
    /\ UNCHANGED <<status, session, owner, synced, park, rev, call, scan, run, diskVars>>

------------------------------------------------------------------------------
\* registerPersistedSubagentsFromDir, for this transcript.

\* The tombstone is looked for, then the id, then the transcript is read ...
ScanCheck(x) ==
    /\ Macrotask
    /\ scan[x].pc = "idle" /\ transcript /\ cur = 0
    /\ scan' = [scan EXCEPT ![x] = [pc |-> "reading", tombstone |-> tombstone]]
    /\ UNCHANGED <<registryVars, sessionVars, adopted, park, rev, call, rel, run, diskVars>>

\* ... and only then is the ref registered, over whatever the id means by now.
ScanRegister(x) == \E r \in Fresh(status) :
    /\ Macrotask
    /\ scan[x].pc = "reading"
    /\ scan' = [scan EXCEPT ![x] = [pc |-> "idle", tombstone |-> FALSE]]
    /\ cur' = r
    /\ status' = [status EXCEPT ![r] = IF scan[x].tombstone THEN "aborted" ELSE "parked"]
    /\ UNCHANGED <<session, sessionVars, adopted, park, rev, call, rel, run, diskVars>>

------------------------------------------------------------------------------
Running ==
    \/ Spawn \/ SpawnAttach \/ SpawnFails
    \/ FinalizeKeepAlive \/ FinalizeDone
    \/ \E mode \in {"oneShot", "isolated"} : FinalizeDispose(mode)
    \/ \E l \in Releasers, ending \in {"shutdown", "kill"} : FinalizeAborted(l, ending)
Parking == TimerFires \/ ParkCommit \/ ParkFinish
Waking(c) == EnsureLive(c) \/ Use(c) \/ KeepSession(c) \/ AfterPark(c)
Reviving(r) ==
    \/ \E able \in BOOLEAN : FactoryAnswers(r, able)
    \/ ReviverClaims(r) \/ ReviverAttaches(r) \/ ReviverFails(r)
    \/ ReviveSettles(r) \/ ReviveFailed(r)
Releasing(l) ==
    \/ \E kind \in Kills : Kill(l, kind)
    \/ TurnAborted(l) \/ ReleaseAfterPark(l)
    \/ Persisted(l) \/ PersistFails(l) \/ Released(l)
Living(s) == AgentStart(s) \/ AgentEnd(s) \/ SessionDisposed(s)
Scanning(x) == ScanCheck(x) \/ ScanRegister(x)

Next ==
    \/ Running \/ Parking
    \/ \E c \in Callers : Waking(c)
    \/ \E r \in Refs : Reviving(r)
    \/ \E l \in Releasers : Releasing(l)
    \/ \E s \in Sessions : Living(s)
    \/ \E x \in Scanners : Scanning(x)

Spec == Init /\ [][Next]_vars

------------------------------------------------------------------------------
\* The continuations that must come: microtasks, disposals, aborted turns, file
\* I/O and session construction all settle, and the event loop is first come
\* first served, so a ready callback is not passed over for ever.  No turn, spawn,
\* timer, scan or call has to happen.
Aborting(s) == \E l \in Releasers : rel[l].pc = "abort" /\ rel[l].live = s
Fairness ==
    /\ WF_vars(ParkCommit \/ ParkFinish \/ FinalizeDone)
    /\ \A s \in Sessions : SF_vars(SessionDisposed(s)) /\ SF_vars(Aborting(s) /\ AgentEnd(s))
    /\ \A c \in Callers : WF_vars(KeepSession(c) \/ AfterPark(c))
    /\ \A r \in Refs : SF_vars(Reviving(r))
    /\ \A l \in Releasers :
        /\ SF_vars(TurnAborted(l) \/ Persisted(l) \/ PersistFails(l))
        /\ WF_vars(ReleaseAfterPark(l) \/ Released(l))
FairSpec == Spec /\ Fairness

------------------------------------------------------------------------------
\* Properties.

\* Every variable has its type, and no reference dangles: a ref without id has no
\* session, an attached session was created for that very ref, and an adoption, park
\* or revival that is over leaves nothing behind.
TypeOK ==
    /\ cur \in 0 .. MaxRefs
    /\ status \in [Refs -> {"unused", "running", "idle", "parked", "aborted"}]
    /\ session \in [Refs -> 0 .. MaxSessions]
    /\ sess \in [Sessions -> {"unused", "live", "disposing", "disposed"}]
    /\ owner \in [Sessions -> 0 .. MaxRefs]
    /\ turn \in [Sessions -> BOOLEAN] /\ synced \in [Sessions -> BOOLEAN]
    /\ adopted \in [ref : 0 .. MaxRefs, timer : BOOLEAN, reviver : BOOLEAN]
    /\ park \in [ref : 0 .. MaxRefs, session : 0 .. MaxSessions,
                 cancelled : BOOLEAN, detached : BOOLEAN]
    /\ rev \in [Refs -> [phase : {"none", "factory", "build", "claimed", "attached", "failing"},
                         session : 0 .. MaxSessions, cold : BOOLEAN]]
    /\ call \in [Callers -> [pc : {"idle", "kept", "parked", "revival"},
                             ref : 0 .. MaxRefs, got : 0 .. MaxSessions]]
    /\ rel \in [Releasers -> [pc : {"idle", "abort", "aborted", "park", "persist",
                                    "dispose", "done"},
                              ref : 0 .. MaxRefs, live : 0 .. MaxSessions,
                              kind : {"none", "kill", "cancel", "finalize"}]]
    /\ scan \in [Scanners -> [pc : {"idle", "reading"}, tombstone : BOOLEAN]]
    /\ run \in [pc : {"none", "starting", "active", "oneShot", "isolated", "done"},
                ref : 0 .. MaxRefs, session : 0 .. MaxSessions]
    /\ tombstone \in BOOLEAN /\ transcript \in BOOLEAN
    /\ cur # 0 => status[cur] # "unused"
    /\ \A r \in Refs : session[r] # 0 => owner[session[r]] = r
    /\ adopted.ref = 0 => adopted = NoAdoption
    /\ park.ref = 0 => park = NoPark
    /\ \A r \in Refs : rev[r].phase = "none" => rev[r] = NoRevival

\* The same transcript is never written by two sessions, and none is lost: at any
\* time at most one session of the agent is up or still closing, and a live one is
\* what the registry leads to, as long as releases come one at a time and only one
\* scan runs.  A second scan may register over a ref that was revived meanwhile, and
\* a second release may free the id of an agent whose session the first one is still
\* closing.
OneSession ==
    /\ Cardinality({s \in Sessions : sess[s] \in {"live", "disposing"}}) <= 1
    /\ \A s \in Sessions : sess[s] = "live" => Attached = s

\* The idle timer of an adopted agent is armed whenever the agent is idle, unless a
\* park of it is in flight or cancelled by a caller who has not resumed yet: a
\* cancelled park does not leave an agent that is never parked again.
IdleIsTimed ==
    (/\ cur # 0 /\ adopted.ref = cur /\ status[cur] = "idle" /\ session[cur] # 0
     /\ park = NoPark /\ \A c \in Callers : call[c].pc # "kept") => adopted.timer

Answered(c) == call'[c].pc = "idle" /\ call'[c].got # 0 /\ call[c].got = 0

\* ensureLive answers with the session the registry leads to, and a park never
\* lets it answer with one on its way out; only a plain release, a failed revival or
\* the end of a one-shot or isolated run still can.
Expelled(s) == \/ \E l \in Releasers : rel[l].pc = "dispose" /\ rel[l].live = s
               \/ run.pc \in {"oneShot", "isolated"} /\ run.session = s
               \/ \E r \in Refs : rev[r].phase = "failing" /\ rev[r].session = s
HandsOutAttached ==
    [][\A c \in Callers : Answered(c) =>
         LET s == call'[c].got IN Attached = s /\ (sess[s] = "live" \/ Expelled(s))]_vars

Dead == tombstone /\ (cur # 0 => status[cur] = "aborted")

\* A kill is final.  No delayed park, revival, turn or finalizer gives an aborted
\* ref another status or a session; and once the tombstone file is there and the id
\* names no usable ref, it never names one again, unless a scan is still at work
\* that had looked for the file before.
DeathIsFinal ==
    [][/\ \A r \in Refs : status[r] = "aborted" =>
              status'[r] = "aborted" /\ session'[r] \in {0, session[r]}
       /\ (Dead /\ \A x \in Scanners : scan[x].pc = "reading" => scan[x].tombstone)
              => Dead']_vars

\* A killed agent is not re-adopted by a later scan.  (agent-lifecycle.ts:367-371)
KilledStaysKilled == [][Dead => Dead']_vars

\* Every ensureLive is answered and every release comes to its end, although they
\* wait for parks, revivals, turns and for each other.
EveryCallEnds ==
    /\ \A c \in Callers : call[c].pc # "idle" ~> call[c].pc = "idle"
    /\ \A l \in Releasers : rel[l].pc # "idle" ~> rel[l].pc = "done"
==============================================================================

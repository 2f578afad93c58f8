----------------------- MODULE AgentLifecycle_proofs -----------------------
(***************************************************************************)
(* The invariants and the action properties of AgentLifecycle, proved for  *)
(* any number of callers, releases, scans, refs and sessions and for every *)
(* way the spawning run may end.  IInv is the inductive invariant: what    *)
(* the variables of the registry, of the manager and of the actors say of  *)
(* each other between two steps.  There is one lemma for each action; it   *)
(* shows IInv again and, because the effects it lists are the ones those   *)
(* need, the bodies Final and Handed of the two action properties.  That   *)
(* there is one session at a time needs more, Sole, and that releases and  *)
(* scans come in turn: the last part of the module.                        *)
(***************************************************************************)
EXTENDS AgentLifecycle, FiniteSetTheorems, TLAPS

Early == {"factory", "build", "claimed"}

\* A ref without an owner, or buried, has no session; a ref nobody has used is not
\* being revived; what is attached exists; a revival that has not attached its session
\* yet is of a parked ref, or of one buried meanwhile.
RefsKnown ==
    \A r \in Refs :
        /\ status[r] \in {"unused", "aborted"} => session[r] = 0
        /\ status[r] = "unused" => rev[r] = NoRevival
        /\ session[r] # 0 => sess[session[r]] # "unused"
        /\ rev[r].phase \in Early => status[r] \in {"parked", "aborted"} /\ session[r] = 0

\* No continuation that could take the id or the session away is ready to run.
Quiet == /\ ~(run.pc \in {"oneShot", "isolated"} /\ Gone(run.session))
         /\ \A l \in Releasers : ~(rel[l].pc = "dispose" /\ Gone(rel[l].live))

\* Between the timer and the commit of a park only microtasks run, and none of them
\* moves the id: the park still is of the current ref and its session.  Who cancelled
\* it is waiting.  After the commit nothing is attached, and no revival of the current
\* ref is under way that could attach something.
ParkKnown ==
    park # NoPark =>
       /\ park.session # 0
       /\ ~park.detached =>
             /\ cur = park.ref /\ session[cur] = park.session /\ Quiet
             /\ park.cancelled /\ adopted.ref = cur => \E c \in Callers : call[c].pc = "kept"
       /\ park.detached =>
             /\ Attached = 0
             /\ cur # 0 => rev[cur].phase \notin Early

\* Who cancelled a park has not missed a change of the ref.
KeptKnown ==
    \A c \in Callers : call[c].pc = "kept" =>
        /\ cur \in {0, call[c].ref}
        /\ park = NoPark \/ (park.cancelled /\ ~park.detached)

\* Before the run there is nothing, and until it has attached its session nobody has
\* adopted, parked, revived or rediscovered the agent.  While it disposes of its
\* session it knows the ref that session is attached to.
RunKnown ==
    /\ run.pc = "none" =>
         /\ cur = 0 /\ ~tombstone /\ \A r \in Refs : status[r] = "unused"
         /\ \A l \in Releasers : rel[l].pc = "idle"
    /\ run.pc \in {"none", "starting"} =>
         /\ ~transcript /\ adopted = NoAdoption /\ park = NoPark
         /\ \A x \in Scanners : scan[x].pc = "idle"
         /\ \A r \in Refs : /\ status[r] \in {"unused", "running", "aborted"}
                            /\ session[r] = 0 /\ rev[r] = NoRevival
    /\ run.pc = "starting" => run.ref # 0 /\ status[run.ref] # "unused"
    /\ run.pc \in {"active", "oneShot", "isolated"} =>
         run.session # 0 /\ sess[run.session] # "unused"
    /\ run.pc \in {"oneShot", "isolated"} /\ cur # 0 /\ session[cur] = run.session =>
         run.ref = cur

\* A release under way is of a ref.
RelKnown == \A l \in Releasers : rel[l].pc \in {"park", "persist", "dispose"} => rel[l].ref # 0

\* What the registry leads to is live, or its end was ordered by a release, a failed
\* revival or the run; only an isolated run leaves a parked ref its session.
AttachedKnown ==
    cur # 0 /\ session[cur] # 0 =>
       /\ status[cur] = "parked" => run.pc = "isolated" /\ run.session = session[cur]
       /\ \/ sess[session[cur]] = "live"
          \/ sess[session[cur]] = "disposing" /\ Expelled(session[cur])
          \/ run.pc = "isolated" /\ run.session = session[cur]

IInv == /\ TypeOK /\ RefsKnown /\ ParkKnown /\ KeptKnown /\ RunKnown /\ RelKnown
        /\ AttachedKnown /\ IdleIsTimed

\* What a step may never do: the bodies of DeathIsFinal and of HandsOutAttached.
Final ==
    /\ \A r \in Refs : status[r] = "aborted" =>
           status'[r] = "aborted" /\ session'[r] \in {0, session[r]}
    /\ (Dead /\ \A x \in Scanners : scan[x].pc = "reading" => scan[x].tombstone) => Dead'
Handed ==
    \A c \in Callers : Answered(c) =>
        LET s == call'[c].got IN Attached = s /\ (sess[s] = "live" \/ Expelled(s))

-----------------------------------------------------------------------------
\* The process starts in a state of the invariant.
LEMMA Initially == Init => IInv
<1> SUFFICES ASSUME Init PROVE IInv
  OBVIOUS
<1> USE BoundsAssumption, ResumedAssumption DEF Init, Refs, Sessions, NoAdoption, NoPark,
        NoRevival, Idle, Resting
<1>0. 0 \in 0 .. MaxRefs /\ 0 \in 0 .. MaxSessions
  OBVIOUS
<1>1. TypeOK
  <2>1. /\ adopted \in [ref : 0 .. MaxRefs, timer : BOOLEAN, reviver : BOOLEAN]
        /\ park \in [ref : 0 .. MaxRefs, session : 0 .. MaxSessions,
                     cancelled : BOOLEAN, detached : BOOLEAN]
    BY <1>0
  <2>2. rev \in [Refs -> [phase : {"none", "factory", "build", "claimed", "attached", "failing"},
                          session : 0 .. MaxSessions, cold : BOOLEAN]]
    BY <1>0
  <2>3. /\ call \in [Callers -> [pc : {"idle", "kept", "parked", "revival"},
                                 ref : 0 .. MaxRefs, got : 0 .. MaxSessions]]
        /\ rel \in [Releasers -> [pc : {"idle", "abort", "aborted", "park", "persist",
                                        "dispose", "done"},
                                  ref : 0 .. MaxRefs, live : 0 .. MaxSessions,
                                  kind : {"none", "kill", "cancel", "finalize"}]]
    BY <1>0
  <2>4. /\ scan \in [Scanners -> [pc : {"idle", "reading"}, tombstone : BOOLEAN]]
        /\ run \in [pc : {"none", "starting", "active", "oneShot", "isolated", "done"},
                    ref : 0 .. MaxRefs, session : 0 .. MaxSessions]
    BY <1>0
  <2>5. /\ cur \in 0 .. MaxRefs
        /\ status \in [Refs -> {"unused", "running", "idle", "parked", "aborted"}]
        /\ session \in [Refs -> 0 .. MaxSessions]
        /\ sess \in [Sessions -> {"unused", "live", "disposing", "disposed"}]
        /\ owner \in [Sessions -> 0 .. MaxRefs]
        /\ turn \in [Sessions -> BOOLEAN] /\ synced \in [Sessions -> BOOLEAN]
        /\ tombstone \in BOOLEAN /\ transcript \in BOOLEAN
    BY <1>0
  <2>6. \A r \in Refs : session[r] = 0 /\ rev[r] = NoRevival
    OBVIOUS
  <2> QED
    BY <2>1, <2>2, <2>3, <2>4, <2>5, <2>6 DEF TypeOK
<1>2. RefsKnown
  BY DEF RefsKnown, Early
<1>3. ParkKnown /\ KeptKnown /\ RelKnown /\ AttachedKnown /\ IdleIsTimed
  BY DEF ParkKnown, KeptKnown, RelKnown, AttachedKnown, IdleIsTimed
<1>4. RunKnown
  BY DEF RunKnown
<1> QED
  BY <1>1, <1>2, <1>3, <1>4 DEF IInv

\* A stutter changes nothing.
LEMMA Stutters == ASSUME IInv, UNCHANGED vars PROVE IInv'
BY DEF IInv, vars, registryVars, sessionVars, actorVars, diskVars, TypeOK, RefsKnown, ParkKnown,
   KeptKnown, RunKnown, RelKnown, AttachedKnown, IdleIsTimed, Quiet, Gone, Attached, Expelled,
   Early

-----------------------------------------------------------------------------
(* What the helpers of the actions do. *)

Statuses == {"running", "idle", "parked", "aborted"}

\* A status is set of one ref; the adoption keeps its ref, and its timer follows.
LEMMA StatusIsSet ==
    ASSUME TypeOK, NEW r \in Refs, NEW st \in Statuses, NEW e \in BOOLEAN,
           SetStatus(adopted, r, st, e)
    PROVE  /\ status' \in [Refs -> {"unused", "running", "idle", "parked", "aborted"}]
           /\ \A q \in Refs : q # r => status'[q] = status[q]
           /\ status'[r] \in {status[r], st}
           /\ status[r] = "aborted" => status'[r] = "aborted"
           /\ e /\ status[r] # "aborted" => status'[r] = st
           /\ adopted' \in [ref : 0 .. MaxRefs, timer : BOOLEAN, reviver : BOOLEAN]
           /\ adopted'.ref = adopted.ref
           /\ adopted.ref # r => adopted' = adopted
           /\ st \in {"parked", "aborted"} => adopted' = adopted
           /\ status'[r] = status[r] => adopted' = adopted
           /\ st = "idle" /\ park = NoPark /\ status'[r] # status[r] /\ adopted.ref = r
                 => adopted'.timer
<1>1. /\ \A a \in BOOLEAN : [adopted EXCEPT !.timer = a] \in
              [ref : 0 .. MaxRefs, timer : BOOLEAN, reviver : BOOLEAN]
      /\ \A a \in BOOLEAN : [adopted EXCEPT !.timer = a].ref = adopted.ref
      /\ \A a \in BOOLEAN : [adopted EXCEPT !.timer = a].timer = a
  BY DEF TypeOK
<1>2. /\ OnStatus(adopted, r, st) \in [ref : 0 .. MaxRefs, timer : BOOLEAN, reviver : BOOLEAN]
      /\ OnStatus(adopted, r, st).ref = adopted.ref
      /\ adopted.ref # r => OnStatus(adopted, r, st) = adopted
      /\ st \in {"parked", "aborted"} => OnStatus(adopted, r, st) = adopted
      /\ st = "idle" /\ park = NoPark /\ adopted.ref = r => OnStatus(adopted, r, st).timer
  <2>1. CASE adopted.ref # r
    BY <2>1 DEF OnStatus, TypeOK
  <2>2. CASE adopted.ref = r /\ st = "running"
    BY <1>1, <2>2 DEF OnStatus
  <2>3. CASE adopted.ref = r /\ st = "idle" /\ park = NoPark
    BY <1>1, <2>3 DEF OnStatus
  <2>4. CASE adopted.ref = r /\ (st \in {"parked", "aborted"} \/ (st = "idle" /\ park # NoPark))
    BY <2>4 DEF OnStatus, TypeOK
  <2> QED
    BY <2>1, <2>2, <2>3, <2>4 DEF Statuses
<1>3. CASE ~e \/ status[r] \in {"aborted", st}
  BY <1>3 DEF SetStatus, TypeOK
<1>4. CASE e /\ status[r] \notin {"aborted", st}
  <2>1. status' = [status EXCEPT ![r] = st] /\ adopted' = OnStatus(adopted, r, st)
    BY <1>4 DEF SetStatus
  <2> QED
    BY <1>2, <1>4, <2>1 DEF TypeOK, Statuses
<1> QED
  BY <1>3, <1>4

\* Disposal is ordered of a live session only, and of no other.
LEMMA Disposes ==
    ASSUME TypeOK, NEW s \in 0 .. MaxSessions, sess' = Disposing(s)
    PROVE  /\ sess' \in [Sessions -> {"unused", "live", "disposing", "disposed"}]
           /\ \A q \in Sessions : sess[q] # "live" => sess'[q] = sess[q]
           /\ \A q \in Sessions : q # s => sess'[q] = sess[q]
           /\ \A q \in Sessions : sess[q] = "live" => sess'[q] \in {"live", "disposing"}
           /\ s # 0 => sess'[s] # "live"
BY BoundsAssumption DEF Disposing, TypeOK, Sessions

\* The id and the adoption are dropped together, and only for the exact ref.
LEMMA Unregisters ==
    ASSUME TypeOK, NEW r \in 0 .. MaxRefs, Unregister(r)
    PROVE  /\ cur' \in {0, cur} /\ adopted' \in {adopted, NoAdoption}
           /\ cur = r => cur' = 0
           /\ cur # r => cur' = cur /\ adopted' = adopted
BY DEF Unregister, OnRemoved, TypeOK

\* An event is delivered only when no continuation is ready.
LEMMA AtRest ==
    ASSUME IInv, Macrotask
    PROVE  /\ \A c \in Callers : call[c].pc # "kept"
           /\ park # NoPark => park.detached /\ ~Gone(park.session)
           /\ Quiet
           /\ \A r \in Refs : ~(rev[r].phase = "failing" /\ Gone(rev[r].session))
BY DEF IInv, KeptKnown, Macrotask, Ready, Quiet

-----------------------------------------------------------------------------
(* The types, by name. *)
Adoptions == [ref : 0 .. MaxRefs, timer : BOOLEAN, reviver : BOOLEAN]
Parks == [ref : 0 .. MaxRefs, session : 0 .. MaxSessions, cancelled : BOOLEAN,
          detached : BOOLEAN]
Revivals == [phase : {"none", "factory", "build", "claimed", "attached", "failing"},
             session : 0 .. MaxSessions, cold : BOOLEAN]
Calls == [pc : {"idle", "kept", "parked", "revival"}, ref : 0 .. MaxRefs,
          got : 0 .. MaxSessions]
Releases == [pc : {"idle", "abort", "aborted", "park", "persist", "dispose", "done"},
             ref : 0 .. MaxRefs, live : 0 .. MaxSessions,
             kind : {"none", "kill", "cancel", "finalize"}]
Runs == [pc : {"none", "starting", "active", "oneShot", "isolated", "done"},
         ref : 0 .. MaxRefs, session : 0 .. MaxSessions]

Fields ==
    /\ cur \in 0 .. MaxRefs
    /\ status \in [Refs -> {"unused", "running", "idle", "parked", "aborted"}]
    /\ session \in [Refs -> 0 .. MaxSessions]
    /\ sess \in [Sessions -> {"unused", "live", "disposing", "disposed"}]
    /\ owner \in [Sessions -> 0 .. MaxRefs]
    /\ turn \in [Sessions -> BOOLEAN] /\ synced \in [Sessions -> BOOLEAN]
    /\ adopted \in Adoptions /\ park \in Parks
    /\ rev \in [Refs -> Revivals]
    /\ call \in [Callers -> Calls]
    /\ rel \in [Releasers -> Releases]
    /\ scan \in [Scanners -> [pc : {"idle", "reading"}, tombstone : BOOLEAN]]
    /\ run \in Runs
    /\ tombstone \in BOOLEAN /\ transcript \in BOOLEAN
Links ==
    /\ cur # 0 => status[cur] # "unused"
    /\ \A r \in Refs : session[r] # 0 => owner[session[r]] = r
    /\ adopted.ref = 0 => adopted = NoAdoption
    /\ park.ref = 0 => park = NoPark
    /\ \A r \in Refs : rev[r].phase = "none" => rev[r] = NoRevival

\* TypeOK is the types and the links between them.
LEMMA TypeParts == TypeOK <=> Fields /\ Links
BY DEF TypeOK, Fields, Links, Adoptions, Parks, Revivals, Calls, Releases, Runs

\* The same in the next state.
LEMMA TypePartsNext == TypeOK' <=> Fields' /\ Links'
BY DEF TypeOK, Fields, Links, Adoptions, Parks, Revivals, Calls, Releases, Runs

\* The objects and the numbers that name them.
LEMMA Bounds ==
    /\ 0 \in 0 .. MaxRefs /\ 0 \in 0 .. MaxSessions
    /\ \A r \in Refs : r \in 0 .. MaxRefs /\ r # 0
    /\ \A s \in Sessions : s \in 0 .. MaxSessions /\ s # 0
    /\ \A r \in 0 .. MaxRefs : r # 0 => r \in Refs
    /\ \A s \in 0 .. MaxSessions : s # 0 => s \in Sessions
BY BoundsAssumption DEF Refs, Sessions

\* A fresh ref or session is one nobody has used.
LEMMA FreshOnes ==
    TypeOK => /\ \A r \in Fresh(status) : r \in Refs /\ status[r] = "unused"
              /\ \A s \in Fresh(sess) : s \in Sessions /\ sess[s] = "unused"
BY DEF TypeOK, Fresh

\* The records of what is not there.
LEMMA Empties ==
    /\ NoAdoption.ref = 0 /\ NoAdoption.timer = FALSE /\ NoAdoption.reviver = FALSE
    /\ NoPark.ref = 0 /\ NoPark.session = 0 /\ NoPark.cancelled = FALSE /\ NoPark.detached = FALSE
    /\ NoRevival.phase = "none" /\ NoRevival.session = 0 /\ NoRevival.cold = FALSE
    /\ Idle.pc = "idle" /\ Idle.ref = 0 /\ Idle.got = 0
    /\ Done.pc = "done" /\ Done.ref = 0 /\ Done.live = 0
BY DEF NoAdoption, NoPark, NoRevival, Idle, Done, Resting

\* A record of values of the right types is of the record type.
LEMMA Records ==
    /\ \A r \in 0 .. MaxRefs, t \in BOOLEAN, v \in BOOLEAN :
          [ref |-> r, timer |-> t, reviver |-> v] \in Adoptions
    /\ \A r \in 0 .. MaxRefs, s \in 0 .. MaxSessions, c \in BOOLEAN, d \in BOOLEAN :
          [ref |-> r, session |-> s, cancelled |-> c, detached |-> d] \in Parks
    /\ \A s \in 0 .. MaxSessions, c \in BOOLEAN,
          p \in {"none", "factory", "build", "claimed", "attached", "failing"} :
          [phase |-> p, session |-> s, cold |-> c] \in Revivals
    /\ \A p \in {"idle", "kept", "parked", "revival"}, r \in 0 .. MaxRefs, s \in 0 .. MaxSessions :
          [pc |-> p, ref |-> r, got |-> s] \in Calls
    /\ \A r \in 0 .. MaxRefs, s \in 0 .. MaxSessions, k \in {"none", "kill", "cancel", "finalize"},
          p \in {"idle", "abort", "aborted", "park", "persist", "dispose", "done"} :
          [pc |-> p, ref |-> r, kind |-> k, live |-> s] \in Releases
    /\ \A r \in 0 .. MaxRefs, s \in 0 .. MaxSessions,
          p \in {"none", "starting", "active", "oneShot", "isolated", "done"} :
          [pc |-> p, ref |-> r, session |-> s] \in Runs
    /\ NoAdoption \in Adoptions /\ NoPark \in Parks /\ NoRevival \in Revivals
    /\ Idle \in Calls /\ Resting \in Releases /\ Done \in Releases
BY Bounds DEF Adoptions, Parks, Revivals, Calls, Releases, Runs, NoAdoption, NoPark, NoRevival,
   Idle, Resting, Done

\* Setting the timer keeps the rest of the adoption.
LEMMA TimerSet ==
    ASSUME NEW a \in Adoptions, NEW t \in BOOLEAN, NEW b, b = [a EXCEPT !.timer = t]
    PROVE  b \in Adoptions /\ b.ref = a.ref /\ b.reviver = a.reviver /\ b.timer = t
BY DEF Adoptions

\* A settled revival is over, and only those who joined it are answered.
LEMMA Settling ==
    ASSUME Fields, NEW r \in Refs, NEW s \in 0 .. MaxSessions, Settle(r, s)
    PROVE  /\ rev' \in [Refs -> Revivals]
           /\ rev'[r] = NoRevival /\ \A q \in Refs : q # r => rev'[q] = rev[q]
           /\ call' \in [Callers -> Calls]
           /\ \A c \in Callers : \/ call'[c] = call[c]
                                 \/ /\ call[c].pc = "revival" /\ call'[c].pc = "idle"
                                    /\ call[c].ref = r /\ call'[c].got = s
<1>1. [Idle EXCEPT !.got = s] = [pc |-> "idle", ref |-> 0, got |-> s]
  BY DEF Idle
<1>2. [Idle EXCEPT !.got = s] \in Calls
  BY <1>1, Bounds DEF Calls
<1>3. rev' = [rev EXCEPT ![r] = NoRevival] /\ rev \in [Refs -> Revivals] /\ NoRevival \in Revivals
  BY Records DEF Settle, Fields
<1>4. /\ rev' \in [Refs -> Revivals]
      /\ rev'[r] = NoRevival /\ \A q \in Refs : q # r => rev'[q] = rev[q]
  BY <1>3
<1>5. call' = [c \in Callers |-> IF call[c].pc = "revival" /\ call[c].ref = r
                                  THEN [Idle EXCEPT !.got = s] ELSE call[c]]
  BY DEF Settle
<1>6. call \in [Callers -> Calls]
  BY DEF Fields
<1>7. call' \in [Callers -> Calls]
  BY <1>2, <1>5, <1>6
<1>8. ASSUME NEW c \in Callers
      PROVE  \/ call'[c] = call[c]
             \/ /\ call[c].pc = "revival" /\ call'[c].pc = "idle"
                /\ call[c].ref = r /\ call'[c].got = s
  BY <1>1, <1>5
<1> QED
  BY <1>4, <1>7, <1>8

\* The code after the park check: the caller is answered with what is attached, or
\* waits for a revival, which starts only if the ref is parked and has no session.
LEMMA Resolving ==
    ASSUME Fields, Links, NEW c \in Callers, Resolve(c)
    PROVE  /\ rev' \in [Refs -> Revivals] /\ call' \in [Callers -> Calls]
           /\ \A d \in Callers : d # c => call'[d] = call[d]
           /\ call'[c].pc \in {"idle", "revival"}
           /\ call'[c].got # 0 => cur # 0 /\ call'[c].got = session[cur]
           /\ \A q \in Refs : \/ rev'[q] = rev[q]
                              \/ /\ q = cur /\ session[q] = 0 /\ status[q] = "parked"
                                 /\ rev[q] = NoRevival /\ rev'[q].phase \in {"build", "factory"}
<1>0. /\ rev \in [Refs -> Revivals] /\ call \in [Callers -> Calls] /\ cur \in 0 .. MaxRefs
      /\ session \in [Refs -> 0 .. MaxSessions]
  BY DEF Fields
<1>1. ASSUME NEW s \in 0 .. MaxSessions, Answer(c, s), UNCHANGED rev,
             s # 0 => cur # 0 /\ s = session[cur]
      PROVE  /\ rev' \in [Refs -> Revivals] /\ call' \in [Callers -> Calls]
             /\ \A d \in Callers : d # c => call'[d] = call[d]
             /\ call'[c].pc \in {"idle", "revival"}
             /\ call'[c].got # 0 => cur # 0 /\ call'[c].got = session[cur]
             /\ \A q \in Refs : rev'[q] = rev[q]
  <2>1. [pc |-> "idle", ref |-> 0, got |-> s] \in Calls
    BY Bounds DEF Calls
  <2> QED
    BY <1>0, <1>1, <2>1 DEF Answer
<1>2. CASE cur = 0
  BY <1>1, <1>2, Bounds DEF Resolve
<1>3. CASE cur # 0 /\ session[cur] # 0
  <2>1. cur \in Refs /\ session[cur] \in 0 .. MaxSessions
    BY <1>0, <1>3, Bounds
  <2> QED
    BY <1>1, <1>3, <2>1 DEF Resolve
<1>4. CASE cur # 0 /\ session[cur] = 0 /\ rev[cur] = NoRevival /\ status[cur] # "parked"
  BY <1>1, <1>4, Bounds DEF Resolve
<1>5. CASE cur # 0 /\ session[cur] = 0 /\ ~(rev[cur] = NoRevival /\ status[cur] # "parked")
  <2>1. cur \in Refs
    BY <1>0, <1>5, Bounds
  <2>2. /\ call' = [call EXCEPT ![c] = [pc |-> "revival", ref |-> cur, got |-> 0]]
        /\ rev' = IF rev[cur] # NoRevival THEN rev
                  ELSE [rev EXCEPT ![cur].phase = IF Revivable THEN "build" ELSE "factory"]
    BY <1>5 DEF Resolve
  <2>3. [pc |-> "revival", ref |-> cur, got |-> 0] \in Calls
    BY <1>0, Bounds DEF Calls
  <2>4. /\ call' \in [Callers -> Calls] /\ call'[c].pc = "revival" /\ call'[c].got = 0
        /\ \A d \in Callers : d # c => call'[d] = call[d]
    BY <1>0, <2>2, <2>3
  <2>5. CASE rev[cur] # NoRevival
    BY <1>0, <2>2, <2>4, <2>5
  <2>6. CASE rev[cur] = NoRevival
    <3>1. PICK p \in {"build", "factory"} : rev' = [rev EXCEPT ![cur].phase = p]
      BY <2>2, <2>6
    <3>2. rev' \in [Refs -> Revivals] /\ rev'[cur].phase = p
      BY ONLY <1>0, <2>1, <3>1, p \in {"build", "factory"} DEF Revivals
    <3>3. \A q \in Refs : q # cur => rev'[q] = rev[q]
      BY <1>0, <3>1
    <3> QED
      BY <1>5, <2>4, <2>6, <3>2, <3>3
  <2> QED
    BY <2>5, <2>6
<1> QED
  BY <1>2, <1>3, <1>4, <1>5

\* The part of a release that runs when no park is in its way.
LEMMA RestOfRelease ==
    ASSUME Fields, NEW l \in Releasers, NEW r \in Refs,
           NEW kind \in {"none", "kill", "cancel", "finalize"}, ReleaseRest(l, r, kind)
    PROVE  /\ rel' \in [Releasers -> Releases] /\ \A m \in Releasers : m # l => rel'[m] = rel[m]
           /\ rel'[l].pc \in {"persist", "dispose", "done"}
           /\ rel'[l].pc # "done" => rel'[l].ref # 0
           /\ cur' \in {0, cur} /\ (cur' # cur => cur = r /\ session[cur] = 0)
           /\ sess' \in [Sessions -> {"unused", "live", "disposing", "disposed"}]
           /\ \A q \in Sessions : sess[q] # "live" => sess'[q] = sess[q]
           /\ \A q \in Sessions : sess[q] = "live" => sess'[q] \in {"live", "disposing"}
           /\ \A q \in Sessions : \/ sess'[q] = sess[q]
                                  \/ /\ rel'[l].pc = "dispose" /\ rel'[l].live = q
                                     /\ cur = r /\ session[cur] = q
<1>0. /\ rel \in [Releasers -> Releases] /\ cur \in 0 .. MaxRefs
      /\ session \in [Refs -> 0 .. MaxSessions]
      /\ sess \in [Sessions -> {"unused", "live", "disposing", "disposed"}]
      /\ r \in 0 .. MaxRefs /\ r # 0
  BY Bounds DEF Fields
<1>1. CASE Tombstoned(kind)
  <2>1. [pc |-> "persist", ref |-> r, kind |-> kind, live |-> 0] \in Releases
    BY <1>0, Bounds DEF Releases
  <2> QED
    BY <1>0, <1>1, <2>1 DEF ReleaseRest
<1>2. CASE ~Tombstoned(kind)
  <2> DEFINE live == IF cur = r THEN session[r] ELSE 0
  <2>1. /\ sess' = Disposing(live)
        /\ cur' = IF live = 0 /\ cur = r THEN 0 ELSE cur
        /\ rel' = [rel EXCEPT ![l] = IF live = 0 THEN Done
                      ELSE [pc |-> "dispose", ref |-> r, kind |-> kind, live |-> live]]
    BY <1>2 DEF ReleaseRest
  <2>2. live \in 0 .. MaxSessions /\ (live # 0 => cur = r /\ live = session[cur])
        /\ (cur = r => live = session[cur])
    BY <1>0, Bounds
  <2> HIDE DEF live
  <2>3. Done \in Releases /\ [pc |-> "dispose", ref |-> r, kind |-> kind, live |-> live] \in Releases
    BY <1>0, <2>2, Bounds DEF Releases, Done, Resting
  <2>4. /\ rel' \in [Releasers -> Releases] /\ \A m \in Releasers : m # l => rel'[m] = rel[m]
        /\ live = 0 => rel'[l] = Done
        /\ live # 0 => rel'[l].pc = "dispose" /\ rel'[l].ref = r /\ rel'[l].live = live
    BY <1>0, <2>1, <2>3
  <2>5. /\ sess' \in [Sessions -> {"unused", "live", "disposing", "disposed"}]
        /\ \A q \in Sessions : sess[q] # "live" => sess'[q] = sess[q]
        /\ \A q \in Sessions : sess[q] = "live" => sess'[q] \in {"live", "disposing"}
        /\ \A q \in Sessions : sess'[q] = sess[q] \/ (q = live /\ live # 0)
    BY <1>0, <2>1, <2>2, Bounds DEF Disposing
  <2> QED
    BY <1>0, <2>1, <2>2, <2>4, <2>5, Empties
<1> QED
  BY <1>1, <1>2

\* release: who holds the id loses the adoption; a park of it is waited for.
LEMMA WholeRelease ==
    ASSUME Fields, Links, NEW l \in Releasers, NEW e \in 0 .. MaxRefs,
           NEW kind \in {"none", "kill", "cancel", "finalize"}, Release(l, e, kind)
    PROVE  /\ rel' \in [Releasers -> Releases] /\ \A m \in Releasers : m # l => rel'[m] = rel[m]
           /\ rel'[l].pc \in {"park", "persist", "dispose", "done"}
           /\ rel'[l].pc # "done" => rel'[l].ref # 0
           /\ cur' \in {0, cur} /\ (cur' # cur => session[cur] = 0)
           /\ adopted' \in Adoptions /\ adopted' \in {adopted, NoAdoption}
           /\ park' \in Parks /\ park'.ref = park.ref /\ park'.session = park.session
           /\ park'.detached = park.detached /\ (park.cancelled => park'.cancelled)
           /\ park = NoPark => park' = NoPark
           /\ park' # park => adopted'.ref # park.ref
           /\ sess' \in [Sessions -> {"unused", "live", "disposing", "disposed"}]
           /\ \A q \in Sessions : sess[q] # "live" => sess'[q] = sess[q]
           /\ \A q \in Sessions : sess[q] = "live" => sess'[q] \in {"live", "disposing"}
           /\ \A q \in Sessions : \/ sess'[q] = sess[q]
                                  \/ /\ rel'[l].pc = "dispose" /\ rel'[l].live = q
                                     /\ session[cur] = q
           /\ cur # 0 /\ e \in {0, cur} /\ park # NoPark /\ park.ref = cur =>
                 cur' = cur /\ sess' = sess /\ rel'[l].pc = "park"
<1> DEFINE r == IF cur # 0 /\ e \in {0, cur} THEN cur
                ELSE IF adopted.ref # 0 /\ e \in {0, adopted.ref} THEN adopted.ref
                ELSE 0
<1>1. /\ adopted' = OnRemoved(adopted, r)
      /\ IF r = 0
         THEN rel' = [rel EXCEPT ![l] = Done] /\ UNCHANGED <<cur, sess, park>>
         ELSE IF park # NoPark /\ park.ref = r
         THEN /\ park' = [park EXCEPT !.cancelled = @ \/ ~park.detached]
              /\ rel' = [rel EXCEPT ![l] = [pc |-> "park", ref |-> r,
                                            kind |-> kind, live |-> 0]]
              /\ UNCHANGED <<cur, sess>>
         ELSE ReleaseRest(l, r, kind) /\ UNCHANGED park
  BY DEF Release
<1>2. /\ rel \in [Releasers -> Releases] /\ cur \in 0 .. MaxRefs
      /\ sess \in [Sessions -> {"unused", "live", "disposing", "disposed"}]
      /\ adopted \in Adoptions /\ park \in Parks /\ adopted.ref \in 0 .. MaxRefs
  BY DEF Fields, Adoptions
<1>3. r \in 0 .. MaxRefs /\ (r # 0 => r \in Refs) /\ (cur # 0 /\ e \in {0, cur} => r = cur)
  <2>1. CASE cur # 0 /\ e \in {0, cur}
    BY <1>2, <2>1, Bounds
  <2>2. CASE ~(cur # 0 /\ e \in {0, cur}) /\ adopted.ref # 0 /\ e \in {0, adopted.ref}
    BY <1>2, <2>2, Bounds
  <2>3. CASE ~(cur # 0 /\ e \in {0, cur}) /\ ~(adopted.ref # 0 /\ e \in {0, adopted.ref})
    BY <2>3, Bounds
  <2> QED
    BY <2>1, <2>2, <2>3
<1> HIDE DEF r
<1>4. /\ adopted' \in Adoptions /\ adopted' \in {adopted, NoAdoption}
      /\ r # 0 => adopted'.ref # r
  BY <1>1, <1>2, Records, Empties DEF OnRemoved
<1>5. CASE r = 0
  <2>1. Done \in Releases /\ Done.pc = "done"
    BY Records, Empties
  <2> QED
    BY <1>1, <1>2, <1>3, <1>4, <1>5, <2>1
<1>6. CASE r # 0 /\ park # NoPark /\ park.ref = r
  <2>1. [pc |-> "park", ref |-> r, kind |-> kind, live |-> 0] \in Releases
    BY <1>3, Bounds DEF Releases
  <2>2. /\ rel' = [rel EXCEPT ![l] = [pc |-> "park", ref |-> r, kind |-> kind, live |-> 0]]
        /\ UNCHANGED <<cur, sess>>
    BY <1>1, <1>6
  <2>3. park' = [park EXCEPT !.cancelled = park.cancelled \/ ~park.detached]
        /\ (park.cancelled \/ ~park.detached) \in BOOLEAN
    BY <1>1, <1>6
  <2>4. \A t \in BOOLEAN : LET p == [park EXCEPT !.cancelled = t]
                           IN  /\ p \in Parks /\ p.ref = park.ref /\ p.session = park.session
                               /\ p.detached = park.detached /\ p.cancelled = t
    BY ONLY <1>2 DEF Parks
  <2>5. /\ park' \in Parks /\ park'.ref = park.ref /\ park'.session = park.session
        /\ park'.detached = park.detached /\ park'.cancelled = (park.cancelled \/ ~park.detached)
    BY ONLY <2>3, <2>4
  <2>6. park.cancelled => park'.cancelled
    BY ONLY <2>5
  <2>7. /\ rel' \in [Releasers -> Releases] /\ \A m \in Releasers : m # l => rel'[m] = rel[m]
        /\ rel'[l].pc = "park" /\ rel'[l].ref # 0
    BY <1>2, <1>6, <2>1, <2>2
  <2> QED
    BY <1>2, <1>4, <1>6, <2>2, <2>5, <2>6, <2>7
<1>7. CASE r # 0 /\ ~(park # NoPark /\ park.ref = r)
  <2>1. ReleaseRest(l, r, kind) /\ park' = park /\ r \in Refs
    BY <1>1, <1>3, <1>7
  <2> QED
    BY <1>2, <1>3, <1>4, <1>7, <2>1, RestOfRelease
<1> QED
  BY <1>5, <1>6, <1>7

\* A ref that still has the id becomes a terminal row without session.
LEMMA Entombing ==
    ASSUME IInv, NEW l \in Releasers, rel[l].ref \in Refs, Entomb(l, rel[l].ref)
    PROVE  /\ rel' \in [Releasers -> Releases] /\ \A m \in Releasers : m # l => rel'[m] = rel[m]
           /\ rel'[l].pc \in {"dispose", "done"}
           /\ rel'[l].pc # "done" => rel'[l].ref # 0
           /\ adopted' = adopted
           /\ status' \in [Refs -> {"unused", "running", "idle", "parked", "aborted"}]
           /\ session' \in [Refs -> 0 .. MaxSessions]
           /\ sess' \in [Sessions -> {"unused", "live", "disposing", "disposed"}]
           /\ \A q \in Sessions : sess[q] # "live" => sess'[q] = sess[q]
           /\ \A q \in Sessions : sess[q] = "live" => sess'[q] \in {"live", "disposing"}
           /\ \/ UNCHANGED <<status, session, sess>>
              \/ /\ cur = rel[l].ref /\ status'[cur] = "aborted" /\ session'[cur] = 0
                 /\ \A q \in Refs : q # cur => status'[q] = status[q] /\ session'[q] = session[q]
                 /\ \A q \in Sessions : q # session[cur] => sess'[q] = sess[q]
<1> DEFINE r == rel[l].ref
           live == IF cur = r THEN session[r] ELSE 0
<1>1. Fields /\ Links /\ TypeOK
  BY TypeParts DEF IInv
<1>2. /\ rel \in [Releasers -> Releases] /\ cur \in 0 .. MaxRefs
      /\ session \in [Refs -> 0 .. MaxSessions] /\ r \in 0 .. MaxRefs /\ r # 0
      /\ sess \in [Sessions -> {"unused", "live", "disposing", "disposed"}]
      /\ status \in [Refs -> {"unused", "running", "idle", "parked", "aborted"}]
      /\ rel[l] \in Releases
  BY <1>1, Bounds DEF Fields
<1>3. /\ SetStatus(adopted, r, "aborted", cur = r)
      /\ session' = IF cur = r THEN [session EXCEPT ![r] = 0] ELSE session
      /\ sess' = Disposing(live)
      /\ rel' = [rel EXCEPT ![l] = IF live = 0 THEN Done ELSE [@ EXCEPT !.pc = "dispose", !.live = live]]
  BY DEF Entomb
<1>4. live \in 0 .. MaxSessions /\ (cur = r => live = session[cur]) /\ (cur # r => live = 0)
  BY <1>2, Bounds
<1> HIDE DEF live
<1>5. \A s \in 0 .. MaxSessions : LET m == [rel[l] EXCEPT !.pc = "dispose", !.live = s]
                                  IN  m \in Releases /\ m.pc = "dispose" /\ m.ref = r
  BY ONLY <1>2 DEF Releases
<1>6. /\ rel' \in [Releasers -> Releases] /\ \A m \in Releasers : m # l => rel'[m] = rel[m]
      /\ rel'[l].pc \in {"dispose", "done"} /\ (rel'[l].pc # "done" => rel'[l].ref # 0)
  <2>1. CASE live = 0
    <3>1. rel' = [rel EXCEPT ![l] = Done]
      BY <1>3, <2>1
    <3> QED
      BY <1>2, <3>1, Records, Empties
  <2>2. CASE live # 0
    <3>1. rel' = [rel EXCEPT ![l] = [rel[l] EXCEPT !.pc = "dispose", !.live = live]]
      BY <1>3, <2>2
    <3>2. /\ [rel[l] EXCEPT !.pc = "dispose", !.live = live] \in Releases
          /\ [rel[l] EXCEPT !.pc = "dispose", !.live = live].pc = "dispose"
          /\ [rel[l] EXCEPT !.pc = "dispose", !.live = live].ref = r
      BY <1>4, <1>5
    <3> QED
      BY <1>2, <3>1, <3>2
  <2> QED
    BY <2>1, <2>2
<1>7. /\ adopted' = adopted
      /\ status' \in [Refs -> {"unused", "running", "idle", "parked", "aborted"}]
      /\ \A q \in Refs : q # r => status'[q] = status[q]
      /\ cur = r => status'[r] = "aborted"
      /\ cur # r => status' = status
  <2>1. "aborted" \in Statuses /\ (cur = r) \in BOOLEAN
    BY DEF Statuses
  <2>2. status'[r] \in {status[r], "aborted"} /\ (status[r] = "aborted" => status'[r] = "aborted")
    BY <1>1, <1>3, <2>1, StatusIsSet
  <2>3. /\ adopted' = adopted
        /\ status' \in [Refs -> {"unused", "running", "idle", "parked", "aborted"}]
        /\ \A q \in Refs : q # r => status'[q] = status[q]
        /\ (cur = r) /\ status[r] # "aborted" => status'[r] = "aborted"
    BY <1>1, <1>3, <2>1, StatusIsSet
  <2>4. cur # r => status' = status
    BY <1>3 DEF SetStatus
  <2> QED
    BY <2>2, <2>3, <2>4
<1>8. /\ sess' \in [Sessions -> {"unused", "live", "disposing", "disposed"}]
      /\ \A q \in Sessions : sess[q] # "live" => sess'[q] = sess[q]
      /\ \A q \in Sessions : sess[q] = "live" => sess'[q] \in {"live", "disposing"}
      /\ \A q \in Sessions : sess'[q] = sess[q] \/ q = live
      /\ live = 0 => sess' = sess
  BY <1>2, <1>3, <1>4, Bounds DEF Disposing
<1>9. CASE cur = r
  <2>1. /\ session' \in [Refs -> 0 .. MaxSessions] /\ session'[cur] = 0
        /\ \A q \in Refs : q # cur => session'[q] = session[q]
    BY <1>2, <1>3, <1>9, Bounds
  <2>2. cur = rel[l].ref /\ status'[cur] = "aborted"
    BY <1>7, <1>9
  <2>3. \A q \in Sessions : q # session[cur] => sess'[q] = sess[q]
    BY <1>4, <1>8, <1>9
  <2> QED
    BY <1>6, <1>7, <1>8, <1>9, <2>1, <2>2, <2>3
<1>10. CASE cur # r
  BY <1>2, <1>3, <1>4, <1>6, <1>7, <1>8, <1>10
<1> QED
  BY <1>9, <1>10

\* Whoever waits for the turn goes on; no other field of a release changes.
LEMMA TurnsOver ==
    ASSUME Fields, NEW s \in Sessions, TurnOver(s)
    PROVE  /\ rel' \in [Releasers -> Releases]
           /\ \A m \in Releasers : \/ rel'[m] = rel[m]
                                   \/ rel[m].pc = "abort" /\ rel'[m].pc = "aborted"
<1>1. rel \in [Releasers -> Releases]
  BY DEF Fields
<1>2. \A m \in Releasers : /\ [rel[m] EXCEPT !.pc = "aborted"] \in Releases
                           /\ [rel[m] EXCEPT !.pc = "aborted"].pc = "aborted"
  BY ONLY <1>1 DEF Releases
<1>3. rel' = [m \in Releasers |-> IF rel[m].pc = "abort" /\ rel[m].live = s
                                  THEN [rel[m] EXCEPT !.pc = "aborted"] ELSE rel[m]]
  BY DEF TurnOver
<1>4. rel' \in [Releasers -> Releases]
  BY <1>1, <1>2, <1>3
<1>5. \A m \in Releasers : \/ rel'[m] = rel[m]
                           \/ rel[m].pc = "abort" /\ rel'[m].pc = "aborted"
  BY <1>1, <1>2, <1>3
<1> QED
  BY <1>4, <1>5

\* What is attached is up, or somebody has begun to close it.
LEMMA AttachedIsUp ==
    ASSUME IInv, cur # 0, session[cur] # 0
    PROVE  Attached = session[cur] /\ (sess[session[cur]] = "live" \/ Expelled(session[cur]))
BY DEF IInv, AttachedKnown, Attached, Expelled

\* Who already had its answer, or gets none, is not handed anything.
LEMMA NotAnswered ==
    ASSUME NEW c \in Callers, call'[c] = call[c] \/ call'[c].got = 0
    PROVE  ~Answered(c)
BY DEF Answered

\* Nobody is answered by a step that gives nobody a session.
LEMMA NobodyAnswered ==
    ASSUME \A c \in Callers : call'[c] = call[c] \/ call'[c].got = 0
    PROVE  Handed
BY NotAnswered DEF Handed

\* The one caller a step answers gets what is attached.
LEMMA OneAnswered ==
    ASSUME IInv, NEW c \in Callers, \A d \in Callers : d # c => call'[d] = call[d],
           call'[c].got # 0 => cur # 0 /\ call'[c].got = session[cur]
    PROVE  Handed
<1> SUFFICES ASSUME NEW d \in Callers, Answered(d)
             PROVE  Attached = call'[d].got /\ (sess[call'[d].got] = "live" \/ Expelled(call'[d].got))
  BY DEF Handed
<1>1. d = c /\ call'[c].got # 0
  BY NotAnswered DEF Answered
<1> QED
  BY <1>1, AttachedIsUp

-----------------------------------------------------------------------------
(* The spawning run. *)

\* The id is free, so whatever else there was is over.
LEMMA SpawnKeeps ==
    ASSUME IInv, Spawn
    PROVE  IInv' /\ Final /\ Handed
<1>m. /\ \A c \in Callers : call[c].pc # "kept"
      /\ park # NoPark => park.detached /\ ~Gone(park.session)
      /\ Quiet
      /\ \A q \in Refs : ~(rev[q].phase = "failing" /\ Gone(rev[q].session))
  BY AtRest DEF Spawn
<1>t. Fields /\ Links
  BY TypeParts DEF IInv
<1>a. PICK r \in Fresh(status) :
         /\ run.pc = "none" /\ cur = 0 /\ cur' = r
         /\ status' = [status EXCEPT ![r] = "running"]
         /\ run' = [run EXCEPT !.pc = "starting", !.ref = r]
         /\ UNCHANGED <<session, sessionVars, adopted, park, rev, call, rel, scan, diskVars>>
  BY DEF Spawn
<1>b. r \in Refs /\ r \in 0 .. MaxRefs /\ r # 0 /\ status[r] = "unused"
  BY FreshOnes, Bounds DEF IInv
<1>c. run' \in Runs /\ run'.pc = "starting" /\ run'.ref = r /\ run'.session = run.session
  <2>1. run \in Runs
    BY <1>t DEF Fields
  <2> QED
    BY ONLY <1>a, <1>b, <2>1 DEF Runs
<1>d. /\ status' \in [Refs -> {"unused", "running", "idle", "parked", "aborted"}]
      /\ status'[r] = "running" /\ \A q \in Refs : q # r => status'[q] = status[q]
  BY <1>a, <1>b, <1>t DEF Fields
<1> USE Bounds, Empties DEF IInv, registryVars, sessionVars, actorVars, diskVars
<1>1. TypeOK'
  <2>1. Fields'
    BY <1>m, <1>a, <1>b, <1>c, <1>d, <1>t DEF Fields
  <2>2. Links'
    BY <1>m, <1>a, <1>b, <1>c, <1>d, <1>t DEF Fields, Links, RefsKnown
  <2> QED
    BY <2>1, <2>2, TypePartsNext
<1>2. RefsKnown'
  BY <1>m, <1>a, <1>b, <1>c, <1>d, <1>1 DEF RefsKnown, TypeOK, Early
<1>3. ParkKnown'
  BY <1>m, <1>a, <1>b, <1>c, <1>d, <1>1 DEF ParkKnown, TypeOK, RefsKnown, KeptKnown, RunKnown,
     Attached, Quiet, Gone, Early
<1>4. KeptKnown'
  BY <1>m, <1>a, <1>b, <1>c, <1>d, <1>1 DEF KeptKnown, ParkKnown, TypeOK, RunKnown
<1>5. RunKnown'
  BY <1>m, <1>a, <1>b, <1>c, <1>d, <1>1 DEF RunKnown, TypeOK, RefsKnown
<1>6. RelKnown'
  BY <1>m, <1>a, <1>b, <1>c, <1>d, <1>1 DEF RelKnown, TypeOK
<1>7. AttachedKnown'
  BY <1>m, <1>a, <1>b, <1>c, <1>d, <1>1 DEF AttachedKnown, TypeOK, RefsKnown, RunKnown,
     ParkKnown, Attached, Expelled, Gone
<1>8. IdleIsTimed'
  BY <1>m, <1>a, <1>b, <1>c, <1>d, <1>1 DEF IdleIsTimed, TypeOK, RefsKnown, ParkKnown,
     KeptKnown, RunKnown, Attached
<1>9. Final
  BY <1>m, <1>a, <1>b, <1>c, <1>d, <1>1, <1>t DEF Final, Dead, TypeOK, Fields, Links, RefsKnown,
     RunKnown
<1>10. Handed
  BY <1>m, <1>a, <1>b, <1>c, <1>d, NobodyAnswered
<1> QED
  BY <1>1, <1>2, <1>3, <1>4, <1>5, <1>6, <1>7, <1>8, <1>9, <1>10

\* Nobody has touched the ref but a kill, which the guard sees.
LEMMA SpawnAttachKeeps ==
    ASSUME IInv, SpawnAttach
    PROVE  IInv' /\ Final /\ Handed
<1>m. /\ \A c \in Callers : call[c].pc # "kept"
      /\ park # NoPark => park.detached /\ ~Gone(park.session)
      /\ Quiet
      /\ \A q \in Refs : ~(rev[q].phase = "failing" /\ Gone(rev[q].session))
  BY AtRest DEF SpawnAttach
<1>t. Fields /\ Links
  BY TypeParts DEF IInv
<1>a. PICK s \in Fresh(sess) :
         /\ run.pc = "starting"
         /\ IF cur = run.ref /\ status[cur] # "aborted"
            THEN /\ session' = [session EXCEPT ![cur] = s]
                 /\ sess' = [sess EXCEPT ![s] = "live"]
                 /\ owner' = [owner EXCEPT ![s] = cur]
                 /\ synced' = [synced EXCEPT ![s] = TRUE]
                 /\ transcript' = TRUE
                 /\ run' = [run EXCEPT !.pc = "active", !.session = s]
                 /\ UNCHANGED <<cur, status, turn, adopted>>
            ELSE /\ run' = [run EXCEPT !.pc = "done"]
                 /\ UNCHANGED <<registryVars, sessionVars, adopted, transcript>>
         /\ UNCHANGED <<park, rev, call, rel, scan, tombstone>>
  BY DEF SpawnAttach
<1>b. s \in Sessions /\ s \in 0 .. MaxSessions /\ s # 0 /\ sess[s] = "unused"
  BY FreshOnes, Bounds DEF IInv
<1>c. /\ run.ref \in Refs /\ run.ref \in 0 .. MaxRefs /\ run.ref # 0
      /\ adopted = NoAdoption /\ park = NoPark
  BY <1>a, <1>t, Bounds DEF Fields, Runs, IInv, RunKnown
<1>d. \/ /\ cur = run.ref /\ status[cur] # "aborted"
         /\ run' \in Runs /\ run'.pc = "active" /\ run'.ref = run.ref /\ run'.session = s
      \/ /\ ~(cur = run.ref /\ status[cur] # "aborted")
         /\ run' \in Runs /\ run'.pc = "done" /\ run'.ref = run.ref /\ run'.session = run.session
  <2>1. run \in Runs
    BY <1>t DEF Fields
  <2>2. CASE cur = run.ref /\ status[cur] # "aborted"
    <3>1. run' = [run EXCEPT !.pc = "active", !.session = s]
      BY <1>a, <2>2
    <3>2. run' \in Runs /\ run'.pc = "active" /\ run'.ref = run.ref /\ run'.session = s
      BY ONLY <1>b, <2>1, <3>1 DEF Runs
    <3> QED
      BY <2>2, <3>2
  <2>3. CASE ~(cur = run.ref /\ status[cur] # "aborted")
    <3>1. run' = [run EXCEPT !.pc = "done"]
      BY <1>a, <2>3
    <3>2. run' \in Runs /\ run'.pc = "done" /\ run'.ref = run.ref /\ run'.session = run.session
      BY ONLY <2>1, <3>1 DEF Runs
    <3> QED
      BY <2>3, <3>2
  <2> QED
    BY <2>2, <2>3
<1>e. /\ session' \in [Refs -> 0 .. MaxSessions]
      /\ sess' \in [Sessions -> {"unused", "live", "disposing", "disposed"}]
      /\ owner' \in [Sessions -> 0 .. MaxRefs] /\ synced' \in [Sessions -> BOOLEAN]
      /\ transcript' \in BOOLEAN
      /\ UNCHANGED <<cur, status, turn, adopted, park, rev, call, rel, scan, tombstone>>
      /\ \A q \in Sessions : q # s => sess'[q] = sess[q] /\ owner'[q] = owner[q]
      /\ \A q \in Refs : session'[q] = session[q]
                         \/ (q = cur /\ session'[q] = s /\ sess'[s] = "live" /\ owner'[s] = cur
                              /\ status[q] \notin {"unused", "aborted"} /\ rev[q] = NoRevival)
  <2>1. CASE cur = run.ref /\ status[cur] # "aborted"
    <3>1. status[cur] # "unused" /\ rev[cur] = NoRevival
      BY <1>a, <1>c, <2>1 DEF IInv, RunKnown
    <3>2. /\ session' = [session EXCEPT ![cur] = s] /\ sess' = [sess EXCEPT ![s] = "live"]
          /\ owner' = [owner EXCEPT ![s] = cur] /\ synced' = [synced EXCEPT ![s] = TRUE]
          /\ transcript' = TRUE
          /\ UNCHANGED <<cur, status, turn, adopted, park, rev, call, rel, scan, tombstone>>
      BY <1>a, <2>1
    <3>3. /\ session \in [Refs -> 0 .. MaxSessions]
          /\ sess \in [Sessions -> {"unused", "live", "disposing", "disposed"}]
          /\ owner \in [Sessions -> 0 .. MaxRefs] /\ synced \in [Sessions -> BOOLEAN]
          /\ cur \in 0 .. MaxRefs /\ cur \in Refs
      BY <1>c, <1>t, <2>1 DEF Fields
    <3>4. /\ session' \in [Refs -> 0 .. MaxSessions] /\ session'[cur] = s
          /\ \A q \in Refs : q # cur => session'[q] = session[q]
      BY ONLY <1>b, <3>2, <3>3
    <3>5. /\ sess' \in [Sessions -> {"unused", "live", "disposing", "disposed"}]
          /\ sess'[s] = "live" /\ \A q \in Sessions : q # s => sess'[q] = sess[q]
      BY ONLY <1>b, <3>2, <3>3
    <3>6. /\ owner' \in [Sessions -> 0 .. MaxRefs] /\ owner'[s] = cur
          /\ \A q \in Sessions : q # s => owner'[q] = owner[q]
      BY ONLY <1>b, <3>2, <3>3
    <3>7. synced' \in [Sessions -> BOOLEAN]
      BY ONLY <3>2, <3>3
    <3> QED
      BY <2>1, <3>1, <3>2, <3>4, <3>5, <3>6, <3>7
  <2>2. CASE ~(cur = run.ref /\ status[cur] # "aborted")
    BY <1>a, <1>t, <2>2 DEF Fields, registryVars, sessionVars
  <2> QED
    BY <2>1, <2>2
<1> USE Bounds, Empties DEF IInv, registryVars, sessionVars, actorVars, diskVars
<1>1. TypeOK'
  <2>1. Fields'
    BY <1>m, <1>b, <1>c, <1>d, <1>e, <1>t DEF Fields
  <2>2. Links'
    BY <1>m, <1>b, <1>c, <1>d, <1>e, <1>t DEF Fields, Links, RefsKnown
  <2> QED
    BY <2>1, <2>2, TypePartsNext
<1>2. RefsKnown'
  BY <1>m, <1>b, <1>c, <1>d, <1>e, <1>1 DEF RefsKnown, TypeOK, Early
<1>3. ParkKnown'
  BY <1>m, <1>a, <1>b, <1>c, <1>d, <1>e, <1>1 DEF ParkKnown, TypeOK, RefsKnown, KeptKnown,
     RunKnown, Attached, Quiet, Gone, Early
<1>4. KeptKnown'
  BY <1>m, <1>a, <1>b, <1>c, <1>d, <1>e, <1>1 DEF KeptKnown, ParkKnown, TypeOK, RunKnown
<1>5. RunKnown'
  BY <1>m, <1>a, <1>b, <1>c, <1>d, <1>e, <1>1 DEF RunKnown, TypeOK, RefsKnown
<1>6. RelKnown'
  BY <1>m, <1>a, <1>b, <1>c, <1>d, <1>e, <1>1 DEF RelKnown, TypeOK
<1>7. AttachedKnown'
  BY <1>m, <1>a, <1>b, <1>c, <1>d, <1>e, <1>1 DEF AttachedKnown, TypeOK, RefsKnown, RunKnown,
     ParkKnown, Attached, Expelled, Gone
<1>8. IdleIsTimed'
  BY <1>m, <1>a, <1>b, <1>c, <1>d, <1>e, <1>1 DEF IdleIsTimed, TypeOK, RefsKnown, ParkKnown,
     KeptKnown, RunKnown, Attached
<1>9. Final
  BY <1>m, <1>b, <1>c, <1>d, <1>e, <1>1, <1>t DEF Final, Dead, TypeOK, Fields, Links, RefsKnown,
     RunKnown
<1>10. Handed
  BY <1>m, <1>b, <1>c, <1>d, <1>e, NobodyAnswered
<1> QED
  BY <1>1, <1>2, <1>3, <1>4, <1>5, <1>6, <1>7, <1>8, <1>9, <1>10

\* The run takes back at most its own ref.
LEMMA SpawnFailsKeeps ==
    ASSUME IInv, SpawnFails
    PROVE  IInv' /\ Final /\ Handed
<1>m. /\ \A c \in Callers : call[c].pc # "kept"
      /\ park # NoPark => park.detached /\ ~Gone(park.session)
      /\ Quiet
      /\ \A q \in Refs : ~(rev[q].phase = "failing" /\ Gone(rev[q].session))
  BY AtRest DEF SpawnFails
<1>t. Fields /\ Links
  BY TypeParts DEF IInv
<1>a. run' \in Runs /\ run'.pc = "done" /\ run'.ref = run.ref /\ run'.session = run.session
  <2>1. run' = [run EXCEPT !.pc = "done"]
    BY DEF SpawnFails
  <2>2. run \in Runs
    BY <1>t DEF Fields
  <2> QED
    BY ONLY <2>1, <2>2 DEF Runs
<1>b. run.ref \in 0 .. MaxRefs
  BY <1>t DEF Fields, Runs
<1>c. cur' \in {0, cur} /\ adopted' \in {adopted, NoAdoption} /\ cur' \in 0 .. MaxRefs /\ adopted' \in Adoptions
  BY <1>b, <1>t, Unregisters, Records, Bounds DEF IInv, SpawnFails, Fields
<1>d. run.pc = "starting" /\ UNCHANGED <<status, session, sessionVars, park, rev, call, rel, scan, diskVars>>
  BY DEF SpawnFails
<1> USE Bounds, Empties DEF IInv, registryVars, sessionVars, actorVars, diskVars
<1>1. TypeOK'
  <2>1. Fields'
    BY <1>m, <1>a, <1>b, <1>c, <1>d, <1>t DEF Fields
  <2>2. Links'
    BY <1>m, <1>a, <1>b, <1>c, <1>d, <1>t DEF Fields, Links, RefsKnown
  <2> QED
    BY <2>1, <2>2, TypePartsNext
<1>2. RefsKnown'
  BY <1>m, <1>a, <1>b, <1>c, <1>d, <1>1 DEF RefsKnown, TypeOK, Early
<1>3. ParkKnown'
  BY <1>m, <1>a, <1>b, <1>c, <1>d, <1>1 DEF ParkKnown, TypeOK, RefsKnown, KeptKnown, RunKnown,
     Attached, Quiet, Gone, Early
<1>4. KeptKnown'
  BY <1>m, <1>a, <1>b, <1>c, <1>d, <1>1 DEF KeptKnown, ParkKnown, TypeOK, RunKnown
<1>5. RunKnown'
  BY <1>m, <1>a, <1>b, <1>c, <1>d, <1>1 DEF RunKnown, TypeOK, RefsKnown
<1>6. RelKnown'
  BY <1>m, <1>a, <1>b, <1>c, <1>d, <1>1 DEF RelKnown, TypeOK
<1>7. AttachedKnown'
  BY <1>m, <1>a, <1>b, <1>c, <1>d, <1>1 DEF AttachedKnown, TypeOK, RefsKnown, RunKnown,
     ParkKnown, Attached, Expelled, Gone
<1>8. IdleIsTimed'
  BY <1>m, <1>a, <1>b, <1>c, <1>d, <1>1 DEF IdleIsTimed, TypeOK, RefsKnown, ParkKnown,
     KeptKnown, RunKnown, Attached
<1>9. Final
  BY <1>m, <1>a, <1>b, <1>c, <1>d, <1>1, <1>t DEF Final, Dead, TypeOK, Fields, Links, RefsKnown,
     RunKnown
<1>10. Handed
  BY <1>m, <1>a, <1>b, <1>c, <1>d, NobodyAnswered
<1> QED
  BY <1>1, <1>2, <1>3, <1>4, <1>5, <1>6, <1>7, <1>8, <1>9, <1>10

\* Either the ref is idle and adopted with its timer armed, or its session is not attached.
LEMMA FinalizeKeepAliveKeeps ==
    ASSUME IInv, FinalizeKeepAlive
    PROVE  IInv' /\ Final /\ Handed
<1>m. /\ \A c \in Callers : call[c].pc # "kept"
      /\ park # NoPark => park.detached /\ ~Gone(park.session)
      /\ Quiet
      /\ \A q \in Refs : ~(rev[q].phase = "failing" /\ Gone(rev[q].session))
  BY AtRest DEF FinalizeKeepAlive
<1>t. Fields /\ Links
  BY TypeParts DEF IInv
<1>a. run' \in Runs /\ run'.pc = "done" /\ run'.ref = run.ref /\ run'.session = run.session
  <2>1. run' = [run EXCEPT !.pc = "done"]
    BY DEF FinalizeKeepAlive
  <2>2. run \in Runs
    BY <1>t DEF Fields
  <2> QED
    BY ONLY <2>1, <2>2 DEF Runs
<1>b. /\ run.pc = "active" /\ run.session \in Sessions /\ run.session # 0
      /\ run.session \in 0 .. MaxSessions
  BY <1>t, Bounds DEF FinalizeKeepAlive, Fields, Runs, IInv, RunKnown
<1>c. UNCHANGED <<cur, session, owner, turn, synced, park, rev, call, rel, scan, diskVars>>
  BY DEF FinalizeKeepAlive
<1>d. \/ /\ cur \in Refs /\ cur # 0 /\ session[cur] = run.session /\ status[cur] # "aborted"
         /\ status' = [status EXCEPT ![cur] = "idle"] /\ sess' = sess
         /\ adopted' \in Adoptions /\ adopted'.ref = cur /\ adopted'.timer
      \/ /\ cur # 0 => session[cur] # run.session
         /\ UNCHANGED <<status, adopted>> /\ sess' = Disposing(run.session)
  <2>1. CASE OwnsRef /\ status[cur] # "aborted"
    <3>1. cur \in 0 .. MaxRefs /\ cur \in Refs /\ cur # 0
      BY <1>t, <2>1, Bounds DEF Fields, OwnsRef
    <3>2. adopted' = [ref |-> cur, timer |-> TRUE, reviver |-> TRUE]
      BY <2>1 DEF FinalizeKeepAlive
    <3>3. adopted' \in Adoptions /\ adopted'.ref = cur /\ adopted'.timer
      BY ONLY <3>1, <3>2 DEF Adoptions
    <3> QED
      BY <2>1, <3>1, <3>3 DEF FinalizeKeepAlive, OwnsRef
  <2>2. CASE ~(OwnsRef /\ status[cur] # "aborted")
    BY <1>b, <1>t, <2>2, Bounds DEF FinalizeKeepAlive, OwnsRef, IInv, RefsKnown, Fields
  <2> QED
    BY <2>1, <2>2
<1>e. /\ sess' \in [Sessions -> {"unused", "live", "disposing", "disposed"}]
      /\ \A q \in Sessions : sess[q] # "live" => sess'[q] = sess[q]
      /\ \A q \in Sessions : sess[q] = "live" => sess'[q] \in {"live", "disposing"}
      /\ \A q \in Sessions : q # run.session => sess'[q] = sess[q]
      /\ cur # 0 /\ session[cur] = run.session => sess' = sess
  BY <1>b, <1>d, <1>t, Disposes DEF Fields, IInv
<1> USE Bounds, Empties DEF IInv, registryVars, sessionVars, actorVars, diskVars
<1>1. TypeOK'
  <2>1. Fields'
    BY <1>m, <1>a, <1>b, <1>c, <1>d, <1>e, <1>t DEF Fields
  <2>2. Links'
    BY <1>m, <1>a, <1>b, <1>c, <1>d, <1>e, <1>t DEF Fields, Links, RefsKnown
  <2> QED
    BY <2>1, <2>2, TypePartsNext
<1>2. RefsKnown'
  BY <1>m, <1>a, <1>b, <1>c, <1>d, <1>e, <1>1 DEF RefsKnown, TypeOK, Early
<1>3. ParkKnown'
  BY <1>m, <1>a, <1>b, <1>c, <1>d, <1>e, <1>1 DEF ParkKnown, TypeOK, RefsKnown, KeptKnown,
     RunKnown, Attached, Quiet, Gone, Early
<1>4. KeptKnown'
  BY <1>m, <1>a, <1>b, <1>c, <1>d, <1>e, <1>1 DEF KeptKnown, ParkKnown, TypeOK, RunKnown
<1>5. RunKnown'
  BY <1>m, <1>a, <1>b, <1>c, <1>d, <1>e, <1>1 DEF RunKnown, TypeOK, RefsKnown
<1>6. RelKnown'
  BY <1>m, <1>a, <1>b, <1>c, <1>d, <1>e, <1>1 DEF RelKnown, TypeOK
<1>7. AttachedKnown'
  BY <1>m, <1>a, <1>b, <1>c, <1>d, <1>e, <1>1 DEF AttachedKnown, TypeOK, RefsKnown, RunKnown,
     ParkKnown, Attached, Expelled, Gone
<1>8. IdleIsTimed'
  BY <1>m, <1>a, <1>b, <1>c, <1>d, <1>e, <1>1 DEF IdleIsTimed, TypeOK, RefsKnown, ParkKnown,
     KeptKnown, RunKnown, Attached
<1>9. Final
  BY <1>m, <1>a, <1>b, <1>c, <1>d, <1>e, <1>1, <1>t DEF Final, Dead, TypeOK, Fields, Links,
     RefsKnown, RunKnown
<1>10. Handed
  BY <1>m, <1>a, <1>b, <1>c, <1>d, <1>e, NobodyAnswered
<1> QED
  BY <1>1, <1>2, <1>3, <1>4, <1>5, <1>6, <1>7, <1>8, <1>9, <1>10

\* The session is closed by the run, which remembers the ref it is attached to.
LEMMA FinalizeDisposeKeeps ==
    ASSUME IInv, NEW mode \in {"oneShot", "isolated"}, FinalizeDispose(mode)
    PROVE  IInv' /\ Final /\ Handed
<1>m. /\ \A c \in Callers : call[c].pc # "kept"
      /\ park # NoPark => park.detached /\ ~Gone(park.session)
      /\ Quiet
      /\ \A q \in Refs : ~(rev[q].phase = "failing" /\ Gone(rev[q].session))
  BY AtRest DEF FinalizeDispose
<1>t. Fields /\ Links
  BY TypeParts DEF IInv
<1>a. /\ run.pc = "active" /\ run.session \in Sessions /\ run.session # 0
      /\ run.session \in 0 .. MaxSessions /\ sess[run.session] # "unused"
  BY <1>t, Bounds DEF FinalizeDispose, Fields, Runs, IInv, RunKnown
<1>b. /\ run' \in Runs /\ run'.pc = mode /\ run'.session = run.session
      /\ cur # 0 /\ session[cur] = run.session => run'.ref = cur
  <2>1. run' = [run EXCEPT !.pc = mode, !.ref = IF OwnsRef THEN cur ELSE 0]
    BY DEF FinalizeDispose
  <2>2. run \in Runs /\ cur \in 0 .. MaxRefs
    BY <1>t DEF Fields
  <2>3. run' \in Runs /\ run'.pc = mode /\ run'.session = run.session
           /\ run'.ref = IF OwnsRef THEN cur ELSE 0
    BY ONLY <2>1, <2>2, Bounds, mode \in {"oneShot", "isolated"} DEF Runs
  <2> QED
    BY <2>3 DEF OwnsRef
<1>c. /\ sess' \in [Sessions -> {"unused", "live", "disposing", "disposed"}]
      /\ \A q \in Sessions : sess[q] # "live" => sess'[q] = sess[q]
      /\ \A q \in Sessions : sess[q] = "live" => sess'[q] \in {"live", "disposing"}
      /\ \A q \in Sessions : q # run.session => sess'[q] = sess[q]
  BY <1>a, Disposes DEF FinalizeDispose, IInv
<1>d. /\ adopted' = adopted
      /\ status' \in [Refs -> {"unused", "running", "idle", "parked", "aborted"}]
      /\ \A q \in Refs : \/ status'[q] = status[q]
                         \/ /\ status'[q] = "parked" /\ status[q] # "aborted" /\ mode = "isolated"
                            /\ q = cur /\ session[cur] = run.session
      /\ \A q \in Refs : status[q] = "unused" <=> status'[q] = "unused"
  <2>1. CASE mode = "isolated" /\ OwnsRef
    <3>1. cur \in Refs /\ session[cur] = run.session /\ status[cur] # "unused"
      BY <1>t, <2>1, Bounds DEF Fields, Links, OwnsRef
    <3>2. SetStatus(adopted, cur, "parked", TRUE)
      BY <2>1 DEF FinalizeDispose
    <3>3. status[cur] \in {"running", "idle", "parked", "aborted"}
      BY <3>1, <1>t DEF Fields
    <3> QED
      BY <2>1, <3>1, <3>2, <3>3, StatusIsSet DEF Statuses, IInv
  <2>2. CASE ~(mode = "isolated" /\ OwnsRef)
    BY <1>t, <2>2 DEF FinalizeDispose, Fields
  <2> QED
    BY <2>1, <2>2
<1>e. UNCHANGED <<cur, session, owner, turn, synced, park, rev, call, rel, scan, diskVars>>
  BY DEF FinalizeDispose
<1> USE Bounds, Empties DEF IInv, registryVars, sessionVars, actorVars, diskVars
<1>1. TypeOK'
  <2>1. Fields'
    BY <1>m, <1>a, <1>b, <1>c, <1>d, <1>e, <1>t DEF Fields
  <2>2. Links'
    BY <1>m, <1>a, <1>b, <1>c, <1>d, <1>e, <1>t DEF Fields, Links, RefsKnown
  <2> QED
    BY <2>1, <2>2, TypePartsNext
<1>2. RefsKnown'
  BY <1>m, <1>a, <1>b, <1>c, <1>d, <1>e, <1>1 DEF RefsKnown, TypeOK, Early
<1>3. ParkKnown'
  BY <1>m, <1>a, <1>b, <1>c, <1>d, <1>e, <1>1 DEF ParkKnown, TypeOK, RefsKnown, KeptKnown,
     RunKnown, Attached, Quiet, Gone, Early
<1>4. KeptKnown'
  BY <1>m, <1>a, <1>b, <1>c, <1>d, <1>e, <1>1 DEF KeptKnown, ParkKnown, TypeOK, RunKnown
<1>5. RunKnown'
  BY <1>m, <1>a, <1>b, <1>c, <1>d, <1>e, <1>1 DEF RunKnown, TypeOK, RefsKnown
<1>6. RelKnown'
  BY <1>m, <1>a, <1>b, <1>c, <1>d, <1>e, <1>1 DEF RelKnown, TypeOK
<1>7. AttachedKnown'
  BY <1>m, <1>a, <1>b, <1>c, <1>d, <1>e, <1>1 DEF AttachedKnown, TypeOK, RefsKnown, RunKnown,
     ParkKnown, Attached, Expelled, Gone
<1>8. IdleIsTimed'
  BY <1>m, <1>a, <1>b, <1>c, <1>d, <1>e, <1>1 DEF IdleIsTimed, TypeOK, RefsKnown, ParkKnown,
     KeptKnown, RunKnown, Attached
<1>9. Final
  BY <1>m, <1>a, <1>b, <1>c, <1>d, <1>e, <1>1, <1>t DEF Final, Dead, TypeOK, Fields, Links,
     RefsKnown, RunKnown
<1>10. Handed
  BY <1>m, <1>a, <1>b, <1>c, <1>d, <1>e, NobodyAnswered
<1> QED
  BY <1>1, <1>2, <1>3, <1>4, <1>5, <1>6, <1>7, <1>8, <1>9, <1>10

\* The closed session is detached by the same step that ends the run.
LEMMA FinalizeDoneKeeps ==
    ASSUME IInv, FinalizeDone
    PROVE  IInv' /\ Final /\ Handed
<1>t. Fields /\ Links
  BY TypeParts DEF IInv
<1>a. run' \in Runs /\ run'.pc = "done" /\ run'.ref = run.ref /\ run'.session = run.session
  <2>1. run' = [run EXCEPT !.pc = "done"]
    BY DEF FinalizeDone
  <2>2. run \in Runs
    BY <1>t DEF Fields
  <2> QED
    BY ONLY <2>1, <2>2 DEF Runs
<1>b. /\ run.pc \in {"oneShot", "isolated"} /\ Gone(run.session) /\ run.ref \in 0 .. MaxRefs
      /\ run.session # 0
      /\ park = NoPark \/ park.detached
  BY <1>t DEF FinalizeDone, Fields, Runs, IInv, RunKnown, ParkKnown, Quiet
<1>c. UNCHANGED <<status, sessionVars, park, rev, call, rel, scan, diskVars>>
  BY DEF FinalizeDone
<1>d. /\ cur' \in 0 .. MaxRefs /\ adopted' \in Adoptions /\ session' \in [Refs -> 0 .. MaxSessions]
      /\ cur' \in {0, cur} /\ adopted' \in {adopted, NoAdoption}
      /\ \A q \in Refs : session'[q] \in {0, session[q]}
      /\ cur' # 0 => session'[cur] # run.session
  <2>1. CASE run.pc = "oneShot"
    <3>1. Unregister(run.ref) /\ session' = session
      BY <2>1 DEF FinalizeDone
    <3>2. cur = run.ref \/ cur = 0 \/ session[cur] # run.session
      BY <1>b DEF IInv, RunKnown
    <3> QED
      BY <1>b, <1>t, <3>1, <3>2, Unregisters, Records, Bounds DEF Fields, IInv
  <2>2. CASE run.pc = "isolated"
    <3>1. session' = (IF run.ref # 0 /\ cur = run.ref THEN [session EXCEPT ![cur] = 0] ELSE session)
          /\ UNCHANGED <<cur, adopted>>
      BY <2>2 DEF FinalizeDone
    <3>2. cur = run.ref \/ cur = 0 \/ session[cur] # run.session
      BY <1>b DEF IInv, RunKnown
    <3> QED
      BY <1>b, <1>t, <3>1, <3>2, Bounds DEF Fields
  <2> QED
    BY <1>b, <2>1, <2>2
<1> USE Bounds, Empties DEF IInv, registryVars, sessionVars, actorVars, diskVars
<1>1. TypeOK'
  <2>1. Fields'
    BY <1>a, <1>b, <1>c, <1>d, <1>t DEF Fields
  <2>2. Links'
    BY <1>a, <1>b, <1>c, <1>d, <1>t DEF Fields, Links, RefsKnown
  <2> QED
    BY <2>1, <2>2, TypePartsNext
<1>2. RefsKnown'
  BY <1>a, <1>b, <1>c, <1>d, <1>1 DEF RefsKnown, TypeOK, Early
<1>3. ParkKnown'
  BY <1>a, <1>b, <1>c, <1>d, <1>1 DEF ParkKnown, TypeOK, RefsKnown, KeptKnown, RunKnown,
     Attached, Quiet, Gone, Early
<1>4. KeptKnown'
  BY <1>a, <1>b, <1>c, <1>d, <1>1 DEF KeptKnown, ParkKnown, TypeOK, RunKnown
<1>5. RunKnown'
  BY <1>a, <1>b, <1>c, <1>d, <1>1 DEF RunKnown, TypeOK, RefsKnown
<1>6. RelKnown'
  BY <1>a, <1>b, <1>c, <1>d, <1>1 DEF RelKnown, TypeOK
<1>7. AttachedKnown'
  BY <1>a, <1>b, <1>c, <1>d, <1>1 DEF AttachedKnown, TypeOK, RefsKnown, RunKnown, ParkKnown,
     Attached, Expelled, Gone
<1>8. IdleIsTimed'
  BY <1>a, <1>b, <1>c, <1>d, <1>1 DEF IdleIsTimed, TypeOK, RefsKnown, ParkKnown, KeptKnown,
     RunKnown, Attached
<1>9. Final
  BY <1>a, <1>b, <1>c, <1>d, <1>1, <1>t DEF Final, Dead, TypeOK, Fields, Links, RefsKnown,
     RunKnown
<1>10. Handed
  BY <1>a, <1>b, <1>c, <1>d, NobodyAnswered
<1> QED
  BY <1>1, <1>2, <1>3, <1>4, <1>5, <1>6, <1>7, <1>8, <1>9, <1>10

-----------------------------------------------------------------------------
(* Parking. *)

\* A park starts with no continuation ready.
LEMMA TimerFiresKeeps ==
    ASSUME IInv, TimerFires
    PROVE  IInv' /\ Final /\ Handed
<1>m. /\ \A c \in Callers : call[c].pc # "kept"
      /\ park # NoPark => park.detached /\ ~Gone(park.session)
      /\ Quiet
      /\ \A q \in Refs : ~(rev[q].phase = "failing" /\ Gone(rev[q].session))
  BY AtRest DEF TimerFires
<1>t. Fields /\ Links
  BY TypeParts DEF IInv
<1>a. adopted' \in Adoptions /\ adopted'.ref = adopted.ref /\ adopted'.timer = FALSE /\ adopted.timer
  <2>1. adopted' = [adopted EXCEPT !.timer = FALSE] /\ adopted.timer /\ adopted \in Adoptions
    BY <1>t DEF TimerFires, Fields
  <2> QED
    BY <2>1, TimerSet
<1>b. adopted.ref # 0
  BY <1>a, <1>t, Empties DEF Links
<1>c. \/ park' = park /\ ~(park = NoPark /\ adopted.ref = cur /\ session[cur] # 0)
      \/ /\ park = NoPark /\ cur # 0 /\ adopted.ref = cur /\ session[cur] # 0 /\ park' \in Parks
         /\ park'.ref = cur /\ park'.session = session[cur] /\ ~park'.cancelled /\ ~park'.detached
  <2>1. CASE park = NoPark /\ adopted.ref = cur /\ session[cur] # 0
    <3>1. cur # 0 /\ cur \in 0 .. MaxRefs /\ session[cur] \in 0 .. MaxSessions
      BY <1>b, <1>t, <2>1, Bounds DEF Fields
    <3>2. park' = [NoPark EXCEPT !.ref = cur, !.session = session[cur]]
      BY ONLY <2>1, TimerFires DEF TimerFires
    <3>3. park' \in Parks /\ park'.ref = cur /\ park'.session = session[cur]
             /\ park'.cancelled = FALSE /\ park'.detached = FALSE
      BY ONLY <3>1, <3>2, Bounds DEF NoPark, Parks
    <3> QED
      BY <2>1, <3>1, <3>3
  <2>2. CASE ~(park = NoPark /\ adopted.ref = cur /\ session[cur] # 0)
    BY <2>2 DEF TimerFires
  <2> QED
    BY <2>1, <2>2
<1>d. UNCHANGED <<registryVars, sessionVars, rev, actorVars, diskVars>>
  BY DEF TimerFires
<1> USE Bounds, Empties DEF IInv, registryVars, sessionVars, actorVars, diskVars
<1>1. TypeOK'
  <2>1. Fields'
    BY <1>m, <1>a, <1>b, <1>c, <1>d, <1>t DEF Fields
  <2>2. Links'
    BY <1>m, <1>a, <1>b, <1>c, <1>d, <1>t DEF Fields, Links, RefsKnown
  <2> QED
    BY <2>1, <2>2, TypePartsNext
<1>2. RefsKnown'
  BY <1>m, <1>a, <1>b, <1>d, <1>1 DEF RefsKnown, TypeOK, Early
<1>3. ParkKnown'
  BY <1>m, <1>a, <1>b, <1>c, <1>d, <1>1 DEF ParkKnown, TypeOK, RefsKnown, KeptKnown, RunKnown,
     Attached, Quiet, Gone, Early
<1>4. KeptKnown'
  BY <1>m, <1>a, <1>b, <1>c, <1>d, <1>1 DEF KeptKnown, ParkKnown, TypeOK, RunKnown
<1>5. RunKnown'
  BY <1>m, <1>a, <1>b, <1>c, <1>d, <1>1 DEF RunKnown, TypeOK, RefsKnown
<1>6. RelKnown'
  BY <1>m, <1>a, <1>b, <1>d, <1>1 DEF RelKnown, TypeOK
<1>7. AttachedKnown'
  BY <1>m, <1>a, <1>b, <1>c, <1>d, <1>1 DEF AttachedKnown, TypeOK, RefsKnown, RunKnown,
     ParkKnown, Attached, Expelled, Gone
<1>8. IdleIsTimed'
  BY <1>m, <1>a, <1>b, <1>c, <1>d, <1>1 DEF IdleIsTimed, TypeOK, RefsKnown, ParkKnown,
     KeptKnown, RunKnown, Attached
<1>9. Final
  BY <1>m, <1>a, <1>b, <1>d, <1>1, <1>t DEF Final, Dead, TypeOK, Fields, Links, RefsKnown,
     RunKnown
<1>10. Handed
  BY <1>m, <1>a, <1>b, <1>d, NobodyAnswered
<1> QED
  BY <1>1, <1>2, <1>3, <1>4, <1>5, <1>6, <1>7, <1>8, <1>9, <1>10

\* It commits on the ref and the session it started with, or gives up.
LEMMA ParkCommitKeeps ==
    ASSUME IInv, ParkCommit
    PROVE  IInv' /\ Final /\ Handed
<1>t. Fields /\ Links
  BY TypeParts DEF IInv
<1>a. /\ park # NoPark /\ ~park.detached /\ park.session \in 0 .. MaxSessions /\ park.session # 0
      /\ cur = park.ref /\ cur \in Refs /\ cur # 0 /\ session[cur] = park.session /\ Quiet
  BY <1>t, Bounds DEF ParkCommit, Fields, Parks, Links, IInv, ParkKnown
<1>b. UNCHANGED <<cur, owner, turn, synced, rev, actorVars, diskVars>>
  BY DEF ParkCommit
<1>c. \/ /\ adopted.ref = cur => park.cancelled
         /\ park' = NoPark /\ UNCHANGED <<session, status, adopted, sess>>
      \/ /\ park' \in Parks /\ park'.detached /\ park'.ref = cur /\ park'.session = park.session
         /\ ~park.cancelled
         /\ session' = [session EXCEPT ![cur] = 0]
         /\ SetStatus(adopted, cur, "parked", TRUE) /\ sess' = Disposing(park.session)
  <2>1. CASE ~park.cancelled /\ cur = park.ref /\ session[cur] = park.session /\ adopted.ref = park.ref
    <3>1. park' = [park EXCEPT !.detached = TRUE] /\ park \in Parks
      BY <1>t, <2>1 DEF ParkCommit, Fields
    <3>2. park' \in Parks /\ park'.detached = TRUE /\ park'.ref = park.ref /\ park'.session = park.session
      BY ONLY <3>1 DEF Parks
    <3> QED
      BY <1>a, <2>1, <3>2 DEF ParkCommit
  <2>2. CASE ~(~park.cancelled /\ cur = park.ref /\ session[cur] = park.session /\ adopted.ref = park.ref)
    BY <1>a, <2>2 DEF ParkCommit
  <2> QED
    BY <2>1, <2>2
<1>d. /\ sess' \in [Sessions -> {"unused", "live", "disposing", "disposed"}]
      /\ \A q \in Sessions : sess[q] # "live" => sess'[q] = sess[q]
      /\ \A q \in Sessions : sess[q] = "live" => sess'[q] \in {"live", "disposing"}
      /\ \A q \in Sessions : q # park.session => sess'[q] = sess[q]
  BY <1>a, <1>c, <1>t, Disposes DEF Fields, IInv
<1>e. /\ adopted' = adopted /\ session' \in [Refs -> 0 .. MaxSessions] /\ park' \in Parks
      /\ status' \in [Refs -> {"unused", "running", "idle", "parked", "aborted"}]
      /\ \A q \in Refs : q # cur => status'[q] = status[q] /\ session'[q] = session[q]
      /\ status'[cur] \in {status[cur], "parked"} /\ status[cur] # "unused"
      /\ status[cur] = "aborted" => status'[cur] = "aborted"
      /\ \/ /\ adopted.ref = cur => park.cancelled
            /\ park' = NoPark /\ UNCHANGED <<session, status, sess>>
         \/ /\ ~park.cancelled /\ session'[cur] = 0
            /\ park'.detached /\ park'.ref = cur /\ park'.session = park.session
  <2>1. status[cur] # "unused"
    BY <1>a, <1>t DEF Links
  <2>2. CASE park' = NoPark /\ UNCHANGED <<session, status, adopted, sess>> /\ (adopted.ref = cur => park.cancelled)
    BY <1>t, <2>1, <2>2, Records DEF Fields
  <2>3. CASE /\ park' \in Parks /\ park'.detached /\ park'.ref = cur /\ park'.session = park.session
             /\ session' = [session EXCEPT ![cur] = 0]
             /\ SetStatus(adopted, cur, "parked", TRUE) /\ ~park.cancelled
    <3>1. /\ session' \in [Refs -> 0 .. MaxSessions] /\ session'[cur] = 0
          /\ \A q \in Refs : q # cur => session'[q] = session[q]
      BY <1>a, <1>t, <2>3, Bounds DEF Fields
    <3>2. cur \in Refs /\ "parked" \in Statuses /\ TRUE \in BOOLEAN /\ TypeOK
      BY <1>a DEF Statuses, IInv
    <3>3. /\ adopted' = adopted
          /\ status' \in [Refs -> {"unused", "running", "idle", "parked", "aborted"}]
          /\ \A q \in Refs : q # cur => status'[q] = status[q]
          /\ status'[cur] \in {status[cur], "parked"}
          /\ status[cur] = "aborted" => status'[cur] = "aborted"
      BY <2>3, <3>2, StatusIsSet
    <3> QED
      BY <2>1, <2>3, <3>1, <3>3
  <2> QED
    BY <1>c, <2>2, <2>3
<1>f. park.cancelled /\ adopted.ref = cur => \E c \in Callers : call[c].pc = "kept"
  BY <1>a DEF IInv, ParkKnown
<1> USE Bounds, Empties DEF IInv, registryVars, sessionVars, actorVars, diskVars
<1>1. TypeOK'
  <2>1. Fields'
    BY <1>a, <1>b, <1>d, <1>e, <1>t DEF Fields
  <2>2. Links'
    BY <1>a, <1>b, <1>d, <1>e, <1>t DEF Fields, Links, RefsKnown
  <2> QED
    BY <2>1, <2>2, TypePartsNext
<1>2. RefsKnown'
  BY <1>a, <1>b, <1>d, <1>e, <1>1 DEF RefsKnown, TypeOK, Early
<1>3. ParkKnown'
  BY <1>a, <1>b, <1>d, <1>e, <1>1 DEF ParkKnown, TypeOK, RefsKnown, KeptKnown, RunKnown,
     Attached, Quiet, Gone, Early
<1>4. KeptKnown'
  BY <1>a, <1>b, <1>d, <1>e, <1>1 DEF KeptKnown, ParkKnown, TypeOK, RunKnown
<1>5. RunKnown'
  BY <1>a, <1>b, <1>d, <1>e, <1>1 DEF RunKnown, TypeOK, RefsKnown
<1>6. RelKnown'
  BY <1>a, <1>b, <1>d, <1>e, <1>1 DEF RelKnown, TypeOK
<1>7. AttachedKnown'
  BY <1>a, <1>b, <1>d, <1>e, <1>1 DEF AttachedKnown, TypeOK, RefsKnown, RunKnown, ParkKnown,
     Attached, Expelled, Gone
<1>8. IdleIsTimed'
  BY <1>a, <1>b, <1>d, <1>e, <1>f, <1>1 DEF IdleIsTimed, TypeOK, RefsKnown, ParkKnown,
     KeptKnown, RunKnown, Attached
<1>9. Final
  BY <1>a, <1>b, <1>d, <1>e, <1>1, <1>t DEF Final, Dead, TypeOK, Fields, Links, RefsKnown,
     RunKnown
<1>10. Handed
  BY <1>a, <1>b, <1>d, <1>e, NobodyAnswered
<1> QED
  BY <1>1, <1>2, <1>3, <1>4, <1>5, <1>6, <1>7, <1>8, <1>9, <1>10

\* Nothing was attached meanwhile.
LEMMA ParkFinishKeeps ==
    ASSUME IInv, ParkFinish
    PROVE  IInv' /\ Final /\ Handed
<1>t. Fields /\ Links
  BY TypeParts DEF IInv
<1>a. park' \in Parks
  BY <1>t, Records DEF ParkFinish
<1> USE Bounds, Empties DEF IInv, registryVars, sessionVars, actorVars, diskVars
<1>1. TypeOK'
  <2>1. Fields'
    BY <1>a, <1>t DEF ParkFinish, Fields
  <2>2. Links'
    BY <1>t DEF ParkFinish, Fields, Links, RefsKnown
  <2> QED
    BY <2>1, <2>2, TypePartsNext
<1>2. RefsKnown'
  BY <1>1 DEF ParkFinish, RefsKnown, TypeOK, Early
<1>3. ParkKnown'
  BY <1>1 DEF ParkFinish, ParkKnown, TypeOK, RefsKnown, KeptKnown, RunKnown, Attached, Quiet,
     Gone, Early
<1>4. KeptKnown'
  BY <1>1 DEF ParkFinish, KeptKnown, ParkKnown, TypeOK, RunKnown
<1>5. RunKnown'
  BY <1>1 DEF ParkFinish, RunKnown, TypeOK, RefsKnown
<1>6. RelKnown'
  BY <1>1 DEF ParkFinish, RelKnown, TypeOK
<1>7. AttachedKnown'
  BY <1>1 DEF ParkFinish, AttachedKnown, TypeOK, RefsKnown, RunKnown, ParkKnown, Attached,
     Expelled, Gone
<1>8. IdleIsTimed'
  BY <1>1 DEF ParkFinish, IdleIsTimed, TypeOK, RefsKnown, ParkKnown, KeptKnown, RunKnown, Attached
<1>9. Final
  BY <1>1, <1>t DEF ParkFinish, Final, Dead, TypeOK, Fields, Links, RefsKnown, RunKnown
<1>10. Handed
  BY NobodyAnswered DEF ParkFinish
<1> QED
  BY <1>1, <1>2, <1>3, <1>4, <1>5, <1>6, <1>7, <1>8, <1>9, <1>10

-----------------------------------------------------------------------------
(* Reviving. *)

\* The adoption it makes is of a ref that is not idle.
LEMMA FactoryAnswersKeeps ==
    ASSUME IInv, NEW r \in Refs, NEW able \in BOOLEAN, FactoryAnswers(r, able)
    PROVE  IInv' /\ Final /\ Handed
<1>m. /\ \A c \in Callers : call[c].pc # "kept"
      /\ park # NoPark => park.detached /\ ~Gone(park.session)
      /\ Quiet
      /\ \A q \in Refs : ~(rev[q].phase = "failing" /\ Gone(rev[q].session))
  BY AtRest DEF FactoryAnswers
<1>t. Fields /\ Links
  BY TypeParts DEF IInv
<1>a. /\ rev[r].phase = "factory" /\ status[r] \in {"parked", "aborted"} /\ session[r] = 0
      /\ r \in 0 .. MaxRefs /\ r # 0 /\ run.pc \notin {"none", "starting"}
      /\ UNCHANGED <<registryVars, sessionVars, park, rel, scan, run, diskVars>>
  BY Bounds, Empties DEF FactoryAnswers, IInv, RefsKnown, Early, RunKnown
<1>b. adopted' \in Adoptions /\ (adopted' = adopted \/ (adopted'.ref = r /\ ~adopted'.timer))
  <2>1. CASE able
    <3>1. adopted' = [ref |-> r, timer |-> FALSE, reviver |-> TRUE]
      BY <2>1 DEF FactoryAnswers
    <3> QED
      BY ONLY <1>a, <3>1 DEF Adoptions
  <2>2. CASE ~able
    BY <1>t, <2>2 DEF FactoryAnswers, Fields
  <2> QED
    BY <2>1, <2>2
<1>c. /\ rev' \in [Refs -> Revivals] /\ \A q \in Refs : q # r => rev'[q] = rev[q]
      /\ \/ rev'[r] = NoRevival
         \/ rev'[r].phase = "build" /\ cur = r /\ status[r] = "parked"
      /\ call' \in [Callers -> Calls]
      /\ \A c \in Callers : \/ call'[c] = call[c]
                            \/ call[c].pc = "revival" /\ call'[c].pc = "idle" /\ call'[c].got = 0
  <2>1. CASE able /\ cur = r /\ status[r] = "parked"
    <3>1. rev' = [rev EXCEPT ![r].phase = "build", ![r].cold = TRUE] /\ call' = call
      BY <2>1 DEF FactoryAnswers
    <3>2. rev \in [Refs -> Revivals] /\ call \in [Callers -> Calls]
      BY <1>t DEF Fields
    <3>3. rev' \in [Refs -> Revivals] /\ rev'[r].phase = "build"
      BY ONLY <3>1, <3>2, r \in Refs DEF Revivals
    <3>4. \A q \in Refs : q # r => rev'[q] = rev[q]
      BY <3>1, <3>2
    <3> QED
      BY <2>1, <3>1, <3>2, <3>3, <3>4
  <2>2. CASE ~(able /\ cur = r /\ status[r] = "parked")
    BY <1>t, <2>2, Settling, Bounds DEF FactoryAnswers
  <2> QED
    BY <2>1, <2>2
<1>d. \A q \in Refs : rev[q].phase = "failing" => rev'[q] = rev[q]
  BY <1>a, <1>c
<1> USE Bounds, Empties DEF IInv, registryVars, sessionVars, actorVars, diskVars
<1>1. TypeOK'
  <2>1. Fields'
    BY <1>m, <1>a, <1>b, <1>c, <1>t DEF Fields
  <2>2. Links'
    BY <1>m, <1>a, <1>b, <1>c, <1>t DEF Fields, Links, RefsKnown
  <2> QED
    BY <2>1, <2>2, TypePartsNext
<1>2. RefsKnown'
  BY <1>m, <1>a, <1>b, <1>c, <1>1 DEF RefsKnown, TypeOK, Early
<1>3. ParkKnown'
  BY <1>m, <1>a, <1>b, <1>c, <1>1 DEF ParkKnown, TypeOK, RefsKnown, KeptKnown, RunKnown,
     Attached, Quiet, Gone, Early
<1>4. KeptKnown'
  BY <1>m, <1>a, <1>b, <1>c, <1>1 DEF KeptKnown, ParkKnown, TypeOK, RunKnown
<1>5. RunKnown'
  BY <1>m, <1>a, <1>b, <1>c, <1>1 DEF RunKnown, TypeOK, RefsKnown
<1>6. RelKnown'
  BY <1>m, <1>a, <1>b, <1>c, <1>1 DEF RelKnown, TypeOK
<1>7. AttachedKnown'
  BY <1>m, <1>a, <1>b, <1>c, <1>d, <1>1 DEF AttachedKnown, TypeOK, RefsKnown, RunKnown,
     ParkKnown, Attached, Expelled, Gone
<1>8. IdleIsTimed'
  BY <1>m, <1>a, <1>b, <1>c, <1>1 DEF IdleIsTimed, TypeOK, RefsKnown, ParkKnown, KeptKnown,
     RunKnown, Attached
<1>9. Final
  BY <1>m, <1>a, <1>b, <1>c, <1>1, <1>t DEF Final, Dead, TypeOK, Fields, Links, RefsKnown,
     RunKnown
<1>10. Handed
  BY <1>m, <1>a, <1>b, <1>c, NobodyAnswered
<1> QED
  BY <1>1, <1>2, <1>3, <1>4, <1>5, <1>6, <1>7, <1>8, <1>9, <1>10

\* A revival goes on for a parked ref only.
LEMMA ReviverClaimsKeeps ==
    ASSUME IInv, NEW r \in Refs, ReviverClaims(r)
    PROVE  IInv' /\ Final /\ Handed
<1>m. /\ \A c \in Callers : call[c].pc # "kept"
      /\ park # NoPark => park.detached /\ ~Gone(park.session)
      /\ Quiet
      /\ \A q \in Refs : ~(rev[q].phase = "failing" /\ Gone(rev[q].session))
  BY AtRest DEF ReviverClaims
<1>t. Fields /\ Links
  BY TypeParts DEF IInv
<1>a. /\ rev[r].phase = "build" /\ status[r] \in {"parked", "aborted"} /\ session[r] = 0
      /\ r \in 0 .. MaxRefs /\ r # 0 /\ run.pc \notin {"none", "starting"}
      /\ UNCHANGED <<registryVars, sessionVars, park, rel, scan, run, diskVars>>
  BY Bounds, Empties DEF ReviverClaims, IInv, RefsKnown, Early, RunKnown
<1>b. adopted' \in Adoptions /\ adopted' \in {adopted, NoAdoption}
  BY <1>t, Records DEF ReviverClaims, Fields, DropCold
<1>c. /\ rev' \in [Refs -> Revivals] /\ \A q \in Refs : q # r => rev'[q] = rev[q]
      /\ \/ rev'[r] = NoRevival
         \/ rev'[r].phase = "claimed"
      /\ call' \in [Callers -> Calls]
      /\ \A c \in Callers : \/ call'[c] = call[c]
                            \/ call[c].pc = "revival" /\ call'[c].pc = "idle" /\ call'[c].got = 0
  <2>1. CASE cur = r /\ status[r] = "parked" /\ session[r] = 0
    <3>1. rev' = [rev EXCEPT ![r].phase = "claimed"] /\ call' = call
      BY <2>1 DEF ReviverClaims
    <3>2. rev \in [Refs -> Revivals] /\ call \in [Callers -> Calls]
      BY <1>t DEF Fields
    <3>3. rev' \in [Refs -> Revivals] /\ rev'[r].phase = "claimed"
      BY ONLY <3>1, <3>2, r \in Refs DEF Revivals
    <3>4. \A q \in Refs : q # r => rev'[q] = rev[q]
      BY <3>1, <3>2
    <3> QED
      BY <2>1, <3>1, <3>2, <3>3, <3>4
  <2>2. CASE ~(cur = r /\ status[r] = "parked" /\ session[r] = 0)
    BY <1>t, <2>2, Settling, Bounds DEF ReviverClaims
  <2> QED
    BY <2>1, <2>2
<1>d. \A q \in Refs : rev[q].phase = "failing" => rev'[q] = rev[q]
  BY <1>a, <1>c
<1> USE Bounds, Empties DEF IInv, registryVars, sessionVars, actorVars, diskVars
<1>1. TypeOK'
  <2>1. Fields'
    BY <1>m, <1>a, <1>b, <1>c, <1>t DEF Fields
  <2>2. Links'
    BY <1>m, <1>a, <1>b, <1>c, <1>t DEF Fields, Links, RefsKnown
  <2> QED
    BY <2>1, <2>2, TypePartsNext
<1>2. RefsKnown'
  BY <1>m, <1>a, <1>b, <1>c, <1>1 DEF RefsKnown, TypeOK, Early
<1>3. ParkKnown'
  BY <1>m, <1>a, <1>b, <1>c, <1>1 DEF ParkKnown, TypeOK, RefsKnown, KeptKnown, RunKnown,
     Attached, Quiet, Gone, Early
<1>4. KeptKnown'
  BY <1>m, <1>a, <1>b, <1>c, <1>1 DEF KeptKnown, ParkKnown, TypeOK, RunKnown
<1>5. RunKnown'
  BY <1>m, <1>a, <1>b, <1>c, <1>1 DEF RunKnown, TypeOK, RefsKnown
<1>6. RelKnown'
  BY <1>m, <1>a, <1>b, <1>c, <1>1 DEF RelKnown, TypeOK
<1>7. AttachedKnown'
  BY <1>m, <1>a, <1>b, <1>c, <1>d, <1>1 DEF AttachedKnown, TypeOK, RefsKnown, RunKnown,
     ParkKnown, Attached, Expelled, Gone
<1>8. IdleIsTimed'
  BY <1>m, <1>a, <1>b, <1>c, <1>1 DEF IdleIsTimed, TypeOK, RefsKnown, ParkKnown, KeptKnown,
     RunKnown, Attached
<1>9. Final
  BY <1>m, <1>a, <1>b, <1>c, <1>1, <1>t DEF Final, Dead, TypeOK, Fields, Links, RefsKnown,
     RunKnown
<1>10. Handed
  BY <1>m, <1>a, <1>b, <1>c, NobodyAnswered
<1> QED
  BY <1>1, <1>2, <1>3, <1>4, <1>5, <1>6, <1>7, <1>8, <1>9, <1>10

\* No park of the current ref is in flight while it is being revived.
LEMMA ReviverAttachesKeeps ==
    ASSUME IInv, NEW r \in Refs, ReviverAttaches(r)
    PROVE  IInv' /\ Final /\ Handed
<1>m. /\ \A c \in Callers : call[c].pc # "kept"
      /\ park # NoPark => park.detached /\ ~Gone(park.session)
      /\ Quiet
      /\ \A q \in Refs : ~(rev[q].phase = "failing" /\ Gone(rev[q].session))
  BY AtRest DEF ReviverAttaches
<1>t. Fields /\ Links
  BY TypeParts DEF IInv
<1>a. PICK s \in Fresh(sess) :
         /\ rev[r].phase = "claimed"
         /\ IF cur = r /\ status[r] # "aborted"
            THEN /\ session' = [session EXCEPT ![r] = s]
                 /\ SetStatus(adopted, r, "running", TRUE)
                 /\ sess' = [sess EXCEPT ![s] = "live"]
                 /\ owner' = [owner EXCEPT ![s] = r]
                 /\ rev' = [rev EXCEPT ![r].phase = "attached", ![r].session = s]
                 /\ UNCHANGED call
            ELSE /\ Settle(r, 0) /\ adopted' = DropCold(r)
                 /\ UNCHANGED <<status, session, sess, owner>>
         /\ UNCHANGED <<cur, turn, synced, park, rel, scan, run, diskVars>>
  BY DEF ReviverAttaches
<1>b. s \in Sessions /\ s \in 0 .. MaxSessions /\ s # 0 /\ sess[s] = "unused"
  BY FreshOnes, Bounds DEF IInv
<1>c. /\ rev[r].phase = "claimed" /\ status[r] \in {"parked", "aborted"} /\ session[r] = 0
      /\ r \in 0 .. MaxRefs /\ r # 0 /\ run.pc \notin {"none", "starting"}
      /\ UNCHANGED <<cur, turn, synced, park, rel, scan, run, diskVars>>
  BY <1>a, Bounds, Empties DEF IInv, RefsKnown, Early, RunKnown
<1>d. cur = r => park = NoPark
  BY <1>c, <1>m DEF IInv, ParkKnown, Early
<1>e. /\ adopted' \in Adoptions
      /\ status' \in [Refs -> {"unused", "running", "idle", "parked", "aborted"}]
      /\ session' \in [Refs -> 0 .. MaxSessions]
      /\ sess' \in [Sessions -> {"unused", "live", "disposing", "disposed"}]
      /\ owner' \in [Sessions -> 0 .. MaxRefs] /\ rev' \in [Refs -> Revivals]
      /\ \A q \in Sessions : q # s => sess'[q] = sess[q] /\ owner'[q] = owner[q]
      /\ \A q \in Refs : q # r => /\ session'[q] = session[q] /\ status'[q] = status[q]
                                  /\ rev'[q] = rev[q]
      /\ call' \in [Callers -> Calls]
      /\ \A c \in Callers : \/ call'[c] = call[c]
                            \/ call[c].pc = "revival" /\ call'[c].pc = "idle" /\ call'[c].got = 0
      /\ \/ /\ cur = r /\ status[r] # "aborted" /\ status'[r] = "running" /\ session'[r] = s /\ sess'[s] = "live"
            /\ owner'[s] = r /\ rev'[r].phase = "attached" /\ rev'[r].session = s
            /\ adopted'.ref = adopted.ref /\ (adopted.ref # r => adopted' = adopted)
         \/ /\ rev'[r] = NoRevival /\ adopted' \in {adopted, NoAdoption}
            /\ UNCHANGED <<status, session, sess, owner>>
  <2>0. rev \in [Refs -> Revivals] /\ call \in [Callers -> Calls]
    BY <1>t DEF Fields
  <2>1. CASE cur = r /\ status[r] # "aborted"
    <3>1. rev' = [rev EXCEPT ![r].phase = "attached", ![r].session = s] /\ call' = call
      BY <1>a, <2>1
    <3>2. rev' \in [Refs -> Revivals] /\ rev'[r].phase = "attached" /\ rev'[r].session = s
      BY ONLY <1>b, <2>0, <3>1, r \in Refs DEF Revivals
    <3>3. \A q \in Refs : q # r => rev'[q] = rev[q]
      BY <3>1, <2>0
    <3>4. "running" \in Statuses /\ TRUE \in BOOLEAN /\ SetStatus(adopted, r, "running", TRUE) /\ TypeOK
      BY <1>a, <2>1 DEF Statuses, IInv
    <3>5. /\ adopted' \in Adoptions /\ adopted'.ref = adopted.ref
          /\ adopted.ref # r => adopted' = adopted
          /\ status' \in [Refs -> {"unused", "running", "idle", "parked", "aborted"}]
          /\ \A q \in Refs : q # r => status'[q] = status[q]
          /\ status'[r] = "running"
      BY <2>1, <3>4, StatusIsSet DEF Adoptions
    <3>6. /\ session' \in [Refs -> 0 .. MaxSessions]
          /\ sess' \in [Sessions -> {"unused", "live", "disposing", "disposed"}]
          /\ owner' \in [Sessions -> 0 .. MaxRefs]
          /\ \A q \in Sessions : q # s => sess'[q] = sess[q] /\ owner'[q] = owner[q]
          /\ \A q \in Refs : q # r => session'[q] = session[q]
          /\ session'[r] = s /\ sess'[s] = "live" /\ owner'[s] = r
      BY <1>a, <1>b, <1>c, <1>t, <2>1 DEF Fields
    <3> QED
      BY <2>0, <2>1, <3>1, <3>2, <3>3, <3>5, <3>6
  <2>2. CASE ~(cur = r /\ status[r] # "aborted")
    <3>1. Settle(r, 0) /\ adopted' = DropCold(r) /\ UNCHANGED <<status, session, sess, owner>>
      BY <1>a, <2>2
    <3>2. adopted' \in {adopted, NoAdoption} /\ adopted' \in Adoptions
      BY <3>1, <1>t, Records DEF DropCold, Fields
    <3> QED
      BY <1>t, <3>1, <3>2, Settling, Bounds DEF Fields
  <2> QED
    BY <2>1, <2>2
<1>f. \A c \in Callers : call'[c].pc # "kept"
  BY <1>e, <1>m
<1>g. \A q \in Refs : rev[q].phase = "failing" => rev'[q] = rev[q]
  BY <1>c, <1>e
<1> USE Bounds, Empties DEF IInv, registryVars, sessionVars, actorVars, diskVars
<1>1. TypeOK'
  <2>1. Fields'
    BY <1>m, <1>b, <1>c, <1>e, <1>t DEF Fields
  <2>2. Links'
    BY <1>m, <1>b, <1>c, <1>e, <1>t DEF Fields, Links, RefsKnown
  <2> QED
    BY <2>1, <2>2, TypePartsNext
<1>2. RefsKnown'
  BY <1>m, <1>b, <1>c, <1>e, <1>1 DEF RefsKnown, TypeOK, Early
<1>3. ParkKnown'
  BY <1>m, <1>b, <1>c, <1>d, <1>e, <1>1 DEF ParkKnown, TypeOK, RefsKnown, KeptKnown, RunKnown,
     Attached, Quiet, Gone, Early
<1>4. KeptKnown'
  BY <1>m, <1>b, <1>c, <1>d, <1>f, <1>1 DEF KeptKnown, ParkKnown, TypeOK, RunKnown
<1>5. RunKnown'
  BY <1>m, <1>b, <1>c, <1>e, <1>1 DEF RunKnown, TypeOK, RefsKnown
<1>6. RelKnown'
  BY <1>m, <1>b, <1>c, <1>e, <1>1 DEF RelKnown, TypeOK
<1>7. AttachedKnown'
  BY <1>m, <1>b, <1>c, <1>e, <1>g, <1>1 DEF AttachedKnown, TypeOK, RefsKnown, RunKnown,
     ParkKnown, Attached, Expelled, Gone
<1>8. IdleIsTimed'
  BY <1>m, <1>b, <1>c, <1>e, <1>1 DEF IdleIsTimed, TypeOK, RefsKnown, ParkKnown, KeptKnown,
     RunKnown, Attached
<1>9. Final
  BY <1>m, <1>b, <1>c, <1>e, <1>1, <1>t DEF Final, Dead, TypeOK, Fields, Links, RefsKnown,
     RunKnown
<1>10. Handed
  BY <1>m, <1>b, <1>c, <1>e, NobodyAnswered
<1> QED
  BY <1>1, <1>2, <1>3, <1>4, <1>5, <1>6, <1>7, <1>8, <1>9, <1>10

\* A session that was attached is expelled before it closes.
LEMMA ReviverFailsKeeps ==
    ASSUME IInv, NEW r \in Refs, ReviverFails(r)
    PROVE  IInv' /\ Final /\ Handed
<1>m. /\ \A c \in Callers : call[c].pc # "kept"
      /\ park # NoPark => park.detached /\ ~Gone(park.session)
      /\ Quiet
      /\ \A q \in Refs : ~(rev[q].phase = "failing" /\ Gone(rev[q].session))
  BY AtRest DEF ReviverFails
<1>t. Fields /\ Links
  BY TypeParts DEF IInv
<1>a. /\ rev[r].phase \in {"build", "claimed", "attached"}
      /\ r \in 0 .. MaxRefs /\ r # 0 /\ run.pc \notin {"none", "starting"}
      /\ rev[r].session \in 0 .. MaxSessions
      /\ UNCHANGED <<registryVars, owner, turn, synced, park, rel, scan, run, diskVars>>
  BY <1>t, Bounds, Empties DEF ReviverFails, Fields, Revivals, IInv, RunKnown
<1>b. /\ adopted' \in Adoptions /\ adopted' \in {adopted, NoAdoption}
      /\ rev' \in [Refs -> Revivals] /\ \A q \in Refs : q # r => rev'[q] = rev[q]
      /\ call' \in [Callers -> Calls]
      /\ \A c \in Callers : \/ call'[c] = call[c]
                            \/ call[c].pc = "revival" /\ call'[c].pc = "idle" /\ call'[c].got = 0
      /\ sess' \in [Sessions -> {"unused", "live", "disposing", "disposed"}]
      /\ \A q \in Sessions : sess[q] # "live" => sess'[q] = sess[q]
      /\ \A q \in Sessions : sess[q] = "live" => sess'[q] \in {"live", "disposing"}
      /\ \/ rev'[r] = NoRevival /\ sess' = sess
         \/ /\ rev'[r].phase = "failing" /\ rev'[r].session = rev[r].session
            /\ \A q \in Sessions : q # rev[r].session => sess'[q] = sess[q]
  <2>0. rev \in [Refs -> Revivals] /\ call \in [Callers -> Calls] /\ adopted \in Adoptions
         /\ sess \in [Sessions -> {"unused", "live", "disposing", "disposed"}]
    BY <1>t DEF Fields
  <2>1. CASE Settle(r, 0) /\ adopted' = DropCold(r) /\ UNCHANGED sess
    <3>1. adopted' \in {adopted, NoAdoption} /\ adopted' \in Adoptions
      BY <2>0, <2>1, Records DEF DropCold
    <3> QED
      BY <1>t, <2>0, <2>1, <3>1, Settling, Bounds
  <2>2. CASE /\ sess' = Disposing(rev[r].session)
             /\ rev' = [rev EXCEPT ![r].phase = "failing"]
             /\ UNCHANGED <<call, adopted>>
    <3>1. rev' = [rev EXCEPT ![r].phase = "failing"]
      BY <2>2
    <3>2. rev' \in [Refs -> Revivals] /\ rev'[r].phase = "failing" /\ rev'[r].session = rev[r].session
      BY ONLY <2>0, <3>1, r \in Refs DEF Revivals
    <3>3. \A q \in Refs : q # r => rev'[q] = rev[q]
      BY <3>1, <2>0
    <3> QED
      BY <1>a, <2>0, <2>2, <3>2, <3>3, Disposes DEF IInv
  <2> QED
    BY <2>1, <2>2 DEF ReviverFails
<1>c. \A c \in Callers : call'[c].pc # "kept"
  BY <1>b, <1>m
<1>d. \A q \in Refs : rev[q].phase = "failing" => rev'[q] = rev[q]
  BY <1>a, <1>b
<1> USE Bounds, Empties DEF IInv, registryVars, sessionVars, actorVars, diskVars
<1>1. TypeOK'
  <2>1. Fields'
    BY <1>m, <1>a, <1>b, <1>t DEF Fields
  <2>2. Links'
    BY <1>m, <1>a, <1>b, <1>t DEF Fields, Links, RefsKnown
  <2> QED
    BY <2>1, <2>2, TypePartsNext
<1>2. RefsKnown'
  BY <1>m, <1>a, <1>b, <1>1 DEF RefsKnown, TypeOK, Early
<1>3. ParkKnown'
  BY <1>m, <1>a, <1>b, <1>1, SMTT(30) DEF ParkKnown, TypeOK, RefsKnown, KeptKnown, RunKnown, Attached,
     Quiet, Gone, Early
<1>4. KeptKnown'
  BY <1>m, <1>a, <1>b, <1>c, <1>1 DEF KeptKnown, ParkKnown, TypeOK, RunKnown
<1>5. RunKnown'
  BY <1>m, <1>a, <1>b, <1>1 DEF RunKnown, TypeOK, RefsKnown
<1>6. RelKnown'
  BY <1>m, <1>a, <1>b, <1>1 DEF RelKnown, TypeOK
<1>7. AttachedKnown'
  BY <1>m, <1>a, <1>b, <1>d, <1>1 DEF AttachedKnown, TypeOK, RefsKnown, RunKnown, ParkKnown,
     Attached, Expelled, Gone
<1>8. IdleIsTimed'
  BY <1>m, <1>a, <1>b, <1>1 DEF IdleIsTimed, TypeOK, RefsKnown, ParkKnown, KeptKnown, RunKnown,
     Attached
<1>9. Final
  BY <1>m, <1>a, <1>b, <1>1, <1>t DEF Final, Dead, TypeOK, Fields, Links, RefsKnown, RunKnown
<1>10. Handed
  BY <1>m, <1>a, <1>b, NobodyAnswered
<1> QED
  BY <1>1, <1>2, <1>3, <1>4, <1>5, <1>6, <1>7, <1>8, <1>9, <1>10

\* Everyone who joined gets the session that is attached, or nobody does.
LEMMA ReviveSettlesKeeps ==
    ASSUME IInv, NEW r \in Refs, ReviveSettles(r)
    PROVE  IInv' /\ Final /\ Handed
<1>m. /\ \A c \in Callers : call[c].pc # "kept"
      /\ park # NoPark => park.detached /\ ~Gone(park.session)
      /\ Quiet
      /\ \A q \in Refs : ~(rev[q].phase = "failing" /\ Gone(rev[q].session))
  BY AtRest DEF ReviveSettles
<1>t. Fields /\ Links
  BY TypeParts DEF IInv
<1>a. /\ rev[r].phase = "attached"
      /\ r \in 0 .. MaxRefs /\ r # 0 /\ run.pc \notin {"none", "starting"}
      /\ rev[r].session \in 0 .. MaxSessions
      /\ synced' \in [Sessions -> BOOLEAN]
      /\ UNCHANGED <<cur, session, owner, turn, park, rel, scan, run, diskVars>>
  BY <1>t, Bounds, Empties DEF ReviveSettles, Fields, Revivals, IInv, RunKnown
<1>b. /\ rev' \in [Refs -> Revivals] /\ \A q \in Refs : q # r => rev'[q] = rev[q]
      /\ call' \in [Callers -> Calls]
      /\ \A c \in Callers :
            \/ call'[c] = call[c]
            \/ /\ call[c].pc = "revival" /\ call'[c].pc = "idle" /\ cur = r
               /\ call'[c].got = rev[r].session /\ session[r] = rev[r].session
      /\ adopted' \in Adoptions /\ adopted'.ref = adopted.ref
      /\ adopted.ref # r => adopted' = adopted
      /\ status' \in [Refs -> {"unused", "running", "idle", "parked", "aborted"}]
      /\ \A q \in Refs : q # r => status'[q] = status[q]
      /\ sess' \in [Sessions -> {"unused", "live", "disposing", "disposed"}]
      /\ \A q \in Sessions : sess[q] # "live" => sess'[q] = sess[q]
      /\ \A q \in Sessions : sess[q] = "live" => sess'[q] \in {"live", "disposing"}
      /\ \/ /\ rev'[r] = NoRevival /\ sess' = sess /\ cur = r /\ status[r] = "running"
            /\ session[r] = rev[r].session /\ status'[r] = "idle"
            /\ park = NoPark /\ adopted.ref = r => adopted'.timer
         \/ /\ rev'[r].phase = "failing" /\ rev'[r].session = rev[r].session
            /\ UNCHANGED <<status, adopted>>
            /\ \A q \in Sessions : q # rev[r].session => sess'[q] = sess[q]
  <2>0. rev \in [Refs -> Revivals] /\ call \in [Callers -> Calls] /\ adopted \in Adoptions
         /\ sess \in [Sessions -> {"unused", "live", "disposing", "disposed"}]
         /\ status \in [Refs -> {"unused", "running", "idle", "parked", "aborted"}]
    BY <1>t DEF Fields
  <2>1. CASE cur = r /\ status[r] = "running" /\ session[r] = rev[r].session
    <3>1. "idle" \in Statuses /\ TRUE \in BOOLEAN /\ SetStatus(adopted, r, "idle", TRUE) /\ TypeOK
      BY <2>1 DEF ReviveSettles, Statuses, IInv
    <3>2. /\ adopted' \in Adoptions /\ adopted'.ref = adopted.ref
          /\ adopted.ref # r => adopted' = adopted
          /\ status' \in [Refs -> {"unused", "running", "idle", "parked", "aborted"}]
          /\ \A q \in Refs : q # r => status'[q] = status[q]
          /\ status'[r] = "idle"
          /\ park = NoPark /\ adopted.ref = r => adopted'.timer
      BY <2>1, <3>1, StatusIsSet DEF Adoptions
    <3>3. Settle(r, rev[r].session) /\ sess' = sess
      BY <2>1 DEF ReviveSettles
    <3> QED
      BY <1>a, <1>t, <2>0, <2>1, <3>2, <3>3, Settling
  <2>2. CASE ~(cur = r /\ status[r] = "running" /\ session[r] = rev[r].session)
    <3>1. /\ sess' = Disposing(rev[r].session)
          /\ rev' = [rev EXCEPT ![r].phase = "failing"]
          /\ UNCHANGED <<status, adopted, call>>
      BY <2>2 DEF ReviveSettles
    <3>2. rev' = [rev EXCEPT ![r].phase = "failing"]
      BY <3>1
    <3>3. rev' \in [Refs -> Revivals] /\ rev'[r].phase = "failing" /\ rev'[r].session = rev[r].session
      BY ONLY <2>0, <3>2, r \in Refs DEF Revivals
    <3>4. \A q \in Refs : q # r => rev'[q] = rev[q]
      BY <3>2, <2>0
    <3> QED
      BY <1>a, <2>0, <3>1, <3>3, <3>4, Disposes DEF IInv
  <2> QED
    BY <2>1, <2>2
<1>c. \A c \in Callers : call'[c].pc # "kept"
  BY <1>b, <1>m
<1>d. \A q \in Refs : rev[q].phase = "failing" => rev'[q] = rev[q]
  BY <1>a, <1>b
<1> USE Bounds, Empties DEF IInv, registryVars, sessionVars, actorVars, diskVars
<1>1. TypeOK'
  <2>1. Fields'
    BY <1>m, <1>a, <1>b, <1>t DEF Fields
  <2>2. Links'
    BY <1>m, <1>a, <1>b, <1>t DEF Fields, Links, RefsKnown
  <2> QED
    BY <2>1, <2>2, TypePartsNext
<1>2. RefsKnown'
  BY <1>m, <1>a, <1>b, <1>1 DEF RefsKnown, TypeOK, Early
<1>3. ParkKnown'
  BY <1>m, <1>a, <1>b, <1>1 DEF ParkKnown, TypeOK, RefsKnown, KeptKnown, RunKnown, Attached,
     Quiet, Gone, Early
<1>4. KeptKnown'
  BY <1>m, <1>a, <1>b, <1>c, <1>1 DEF KeptKnown, ParkKnown, TypeOK, RunKnown
<1>5. RunKnown'
  BY <1>m, <1>a, <1>b, <1>1 DEF RunKnown, TypeOK, RefsKnown
<1>6. RelKnown'
  BY <1>m, <1>a, <1>b, <1>1 DEF RelKnown, TypeOK
<1>7. AttachedKnown'
  BY <1>m, <1>a, <1>b, <1>d, <1>1 DEF AttachedKnown, TypeOK, RefsKnown, RunKnown, ParkKnown,
     Attached, Expelled, Gone
<1>8. IdleIsTimed'
  BY <1>m, <1>a, <1>b, <1>1 DEF IdleIsTimed, TypeOK, RefsKnown, ParkKnown, KeptKnown, RunKnown,
     Attached
<1>9. Final
  BY <1>m, <1>a, <1>b, <1>1, <1>t DEF Final, Dead, TypeOK, Fields, Links, RefsKnown, RunKnown
<1>10. Handed
  <2> SUFFICES ASSUME NEW d \in Callers, Answered(d)
               PROVE  /\ Attached = call'[d].got
                      /\ sess[call'[d].got] = "live" \/ Expelled(call'[d].got)
    BY DEF Handed
  <2>1. call'[d] # call[d] /\ call'[d].got # 0
    BY DEF Answered
  <2>2. cur = r /\ call'[d].got = session[cur] /\ cur # 0
    BY <1>a, <1>b, <2>1
  <2> QED
    BY <2>1, <2>2, AttachedIsUp
<1> QED
  BY <1>1, <1>2, <1>3, <1>4, <1>5, <1>6, <1>7, <1>8, <1>9, <1>10

\* Nobody gets the closed session.
LEMMA ReviveFailedKeeps ==
    ASSUME IInv, NEW r \in Refs, ReviveFailed(r)
    PROVE  IInv' /\ Final /\ Handed
<1>t. Fields /\ Links
  BY TypeParts DEF IInv
<1>a. /\ rev[r].phase = "failing" /\ Gone(rev[r].session)
      /\ r \in 0 .. MaxRefs /\ r # 0 /\ run.pc \notin {"none", "starting"}
      /\ UNCHANGED <<registryVars, sessionVars, park, rel, scan, run, diskVars>>
  BY Bounds, Empties DEF ReviveFailed, IInv, RunKnown
<1>b. /\ adopted' \in Adoptions /\ adopted' \in {adopted, NoAdoption}
      /\ rev' \in [Refs -> Revivals] /\ rev'[r] = NoRevival
      /\ \A q \in Refs : q # r => rev'[q] = rev[q]
      /\ call' \in [Callers -> Calls]
      /\ \A c \in Callers : \/ call'[c] = call[c]
                            \/ call[c].pc = "revival" /\ call'[c].pc = "idle" /\ call'[c].got = 0
  <2>1. Settle(r, 0) /\ adopted' = DropCold(r) /\ adopted \in Adoptions
    BY <1>t DEF ReviveFailed, Fields
  <2>2. adopted' \in {adopted, NoAdoption} /\ adopted' \in Adoptions
    BY <2>1, Records DEF DropCold
  <2> QED
    BY <1>t, <2>1, <2>2, Settling, Bounds
<1>c. \A c \in Callers : call[c].pc = "kept" <=> call'[c].pc = "kept"
  BY <1>b
<1>d. adopted'.ref = cur /\ cur # 0 => adopted' = adopted
  BY <1>b, Empties
<1> USE Bounds, Empties DEF IInv, registryVars, sessionVars, actorVars, diskVars
<1>1. TypeOK'
  <2>1. Fields'
    BY <1>a, <1>b, <1>t DEF Fields
  <2>2. Links'
    BY <1>a, <1>b, <1>t DEF Fields, Links, RefsKnown
  <2> QED
    BY <2>1, <2>2, TypePartsNext
<1>2. RefsKnown'
  BY <1>a, <1>b, <1>1 DEF RefsKnown, TypeOK, Early
<1>3. ParkKnown'
  BY <1>a, <1>b, <1>c, <1>d, <1>1, SMTT(30) DEF ParkKnown, TypeOK, RefsKnown, KeptKnown, RunKnown,
     Attached, Quiet, Gone, Early
<1>4. KeptKnown'
  BY <1>a, <1>b, <1>1 DEF KeptKnown, ParkKnown, TypeOK, RunKnown
<1>5. RunKnown'
  BY <1>a, <1>b, <1>1 DEF RunKnown, TypeOK, RefsKnown
<1>6. RelKnown'
  BY <1>a, <1>b, <1>1 DEF RelKnown, TypeOK
<1>7. AttachedKnown'
  BY <1>a, <1>b, <1>1 DEF AttachedKnown, TypeOK, RefsKnown, RunKnown, ParkKnown, Attached,
     Expelled, Gone
<1>8. IdleIsTimed'
  BY <1>a, <1>c, <1>d, <1>1 DEF IdleIsTimed, TypeOK, RefsKnown, ParkKnown, KeptKnown, RunKnown,
     Attached
<1>9. Final
  BY <1>a, <1>1, <1>t DEF Final, Dead, TypeOK, Fields, Links, RefsKnown, RunKnown
<1>10. Handed
  BY <1>a, <1>b, NobodyAnswered
<1> QED
  BY <1>1, <1>2, <1>3, <1>4, <1>5, <1>6, <1>7, <1>8, <1>9, <1>10

-----------------------------------------------------------------------------
(* Waking. *)

\* A park that is not committed is cancelled, another one is waited for.
LEMMA EnsureLiveKeeps ==
    ASSUME IInv, NEW c \in Callers, EnsureLive(c)
    PROVE  IInv' /\ Final /\ Handed
<1>t. Fields /\ Links
  BY TypeParts DEF IInv
<1>a. /\ UNCHANGED <<registryVars, sessionVars, adopted, rel, scan, run, diskVars>>
      /\ call[c].pc = "idle" /\ cur \in 0 .. MaxRefs
      /\ cur # 0 => cur \in Refs
      /\ call \in [Callers -> Calls] /\ rev \in [Refs -> Revivals] /\ park \in Parks
      /\ park.ref = 0 => park = NoPark
  BY <1>t, Bounds, Empties DEF EnsureLive, Fields, Links
<1>b. /\ rev' \in [Refs -> Revivals] /\ call' \in [Callers -> Calls] /\ park' \in Parks
      /\ \A d \in Callers : d # c => call'[d] = call[d]
      /\ call'[c].got # 0 => cur # 0 /\ call'[c].got = session[cur]
      /\ park'.ref = park.ref /\ park'.session = park.session /\ park'.detached = park.detached
      /\ \A q \in Refs : \/ rev'[q] = rev[q]
                         \/ /\ q = cur /\ session[q] = 0 /\ status[q] = "parked" /\ park = NoPark
                            /\ rev[q] = NoRevival /\ rev'[q].phase \in {"build", "factory"}
      /\ \/ call'[c].pc \in {"idle", "revival"} /\ park = NoPark /\ park' = NoPark
         \/ /\ park # NoPark /\ park.detached /\ call'[c].pc = "parked"
            /\ park'.cancelled = park.cancelled
         \/ /\ park # NoPark /\ ~park.detached /\ cur # 0
            /\ call'[c].pc = "kept" /\ call'[c].ref = cur /\ park'.cancelled
  <2>1. CASE park = NoPark
    <3>1. Resolve(c) /\ park' = park
      BY <2>1 DEF EnsureLive
    <3> QED
      BY <1>a, <1>t, <2>1, <3>1, Resolving
  <2>2. CASE park # NoPark
    <3> DEFINE keep == Attached # 0 /\ ~park.detached
    <3>1. keep <=> ~park.detached
      BY <1>a, <2>2 DEF IInv, ParkKnown, Attached
    <3>2. ~park.detached => cur # 0
      BY <1>a, <2>2 DEF IInv, ParkKnown
    <3>3. /\ call' = [call EXCEPT ![c] = [pc |-> IF keep THEN "kept" ELSE "parked",
                                         ref |-> cur, got |-> 0]]
          /\ park' = [park EXCEPT !.cancelled = @ \/ keep] /\ rev' = rev
      BY <2>2 DEF EnsureLive
    <3> HIDE DEF keep
    <3>4. [pc |-> IF keep THEN "kept" ELSE "parked", ref |-> cur, got |-> 0] \in Calls
      BY <1>a, Bounds DEF Calls
    <3>5. /\ call' \in [Callers -> Calls] /\ call'[c].ref = cur /\ call'[c].got = 0
          /\ call'[c].pc = IF keep THEN "kept" ELSE "parked"
          /\ \A d \in Callers : d # c => call'[d] = call[d]
      BY <1>a, <3>3, <3>4
    <3>6. \A t \in BOOLEAN : /\ [park EXCEPT !.cancelled = t] \in Parks
                             /\ [park EXCEPT !.cancelled = t].ref = park.ref
                             /\ [park EXCEPT !.cancelled = t].session = park.session
                             /\ [park EXCEPT !.cancelled = t].detached = park.detached
                             /\ [park EXCEPT !.cancelled = t].cancelled = t
      BY ONLY <1>a DEF Parks
    <3>7. park' = [park EXCEPT !.cancelled = park.cancelled \/ keep] /\ (park.cancelled \/ keep) \in BOOLEAN
      BY ONLY <3>3
    <3>8. /\ park' \in Parks /\ park'.ref = park.ref /\ park'.session = park.session
          /\ park'.detached = park.detached /\ park'.cancelled = (park.cancelled \/ keep)
      BY ONLY <3>6, <3>7
    <3>9. park.cancelled \in BOOLEAN
      BY <1>a DEF Parks
    <3>10. CASE keep
      BY <1>a, <2>2, <3>1, <3>2, <3>3, <3>5, <3>8, <3>10
    <3>11. CASE ~keep
      BY <1>a, <2>2, <3>1, <3>2, <3>3, <3>5, <3>8, <3>9, <3>11
    <3> QED
      BY <3>10, <3>11
  <2> QED
    BY <2>1, <2>2
<1>c. \A q \in Refs : rev[q].phase = "failing" => rev'[q] = rev[q]
  BY <1>b, Empties
<1>d. \A d \in Callers : call[d].pc = "kept" => call'[d] = call[d]
  BY <1>a, <1>b
<1>e. \A d \in Callers : call'[d].pc = "kept" =>
         \/ call'[d] = call[d] /\ park'.detached = park.detached /\ (park.cancelled => park'.cancelled)
               /\ (park = NoPark => park' = NoPark)
         \/ call'[d].ref = cur /\ park'.cancelled /\ ~park'.detached
  <2>1. ASSUME NEW d \in Callers, d # c, call'[d].pc = "kept"
        PROVE  call[d].pc = "kept" /\ call'[d] = call[d]
    BY <1>b, <2>1
  <2>2. \A d \in Callers : call[d].pc = "kept" => park = NoPark \/ (park.cancelled /\ ~park.detached)
    BY DEF IInv, KeptKnown
  <2> QED
    BY <1>b, <2>1, <2>2
<1> USE Bounds, Empties DEF IInv, registryVars, sessionVars, actorVars, diskVars
<1>1. TypeOK'
  <2>1. Fields'
    BY <1>a, <1>b, <1>t DEF Fields
  <2>2. Links'
    BY <1>a, <1>b, <1>t DEF Fields, Links, RefsKnown
  <2> QED
    BY <2>1, <2>2, TypePartsNext
<1>2. RefsKnown'
  BY <1>a, <1>b, <1>1 DEF RefsKnown, TypeOK, Early
<1>3. ParkKnown'
  BY <1>a, <1>b, <1>d, <1>1 DEF ParkKnown, TypeOK, RefsKnown, KeptKnown, RunKnown, Attached,
     Quiet, Gone, Early
<1>4. KeptKnown'
  BY <1>a, <1>e, <1>1 DEF KeptKnown, ParkKnown, TypeOK, RunKnown
<1>5. RunKnown'
  BY <1>a, <1>b, <1>1 DEF RunKnown, TypeOK, RefsKnown
<1>6. RelKnown'
  BY <1>a, <1>b, <1>1 DEF RelKnown, TypeOK
<1>7. AttachedKnown'
  BY <1>a, <1>b, <1>c, <1>1 DEF AttachedKnown, TypeOK, RefsKnown, RunKnown, ParkKnown, Attached,
     Expelled, Gone
<1>8. IdleIsTimed'
  BY <1>a, <1>b, <1>d, <1>1 DEF IdleIsTimed, TypeOK, RefsKnown, ParkKnown, KeptKnown, RunKnown,
     Attached
<1>9. Final
  BY <1>a, <1>b, <1>1, <1>t DEF Final, Dead, TypeOK, Fields, Links, RefsKnown, RunKnown
<1>10. Handed
  BY <1>b, OneAnswered
<1> QED
  BY <1>1, <1>2, <1>3, <1>4, <1>5, <1>6, <1>7, <1>8, <1>9, <1>10

\* A caller forgets its answer.
LEMMA UseKeeps ==
    ASSUME IInv, NEW c \in Callers, Use(c)
    PROVE  IInv' /\ Final /\ Handed
<1>t. Fields /\ Links
  BY TypeParts DEF IInv
<1>a. call' \in [Callers -> Calls]
  BY <1>t, Records DEF Use, Fields
<1> USE Bounds, Empties DEF IInv, registryVars, sessionVars, actorVars, diskVars
<1>1. TypeOK'
  <2>1. Fields'
    BY <1>a, <1>t DEF Use, Fields
  <2>2. Links'
    BY <1>t DEF Use, Fields, Links, RefsKnown
  <2> QED
    BY <2>1, <2>2, TypePartsNext
<1>2. RefsKnown'
  BY <1>1 DEF Use, RefsKnown, TypeOK, Early
<1>3. ParkKnown'
  BY <1>1 DEF Use, ParkKnown, TypeOK, RefsKnown, KeptKnown, RunKnown, Attached, Quiet, Gone, Early
<1>4. KeptKnown'
  BY <1>1 DEF Use, KeptKnown, ParkKnown, TypeOK, RunKnown
<1>5. RunKnown'
  BY <1>1 DEF Use, RunKnown, TypeOK, RefsKnown
<1>6. RelKnown'
  BY <1>1 DEF Use, RelKnown, TypeOK
<1>7. AttachedKnown'
  BY <1>1 DEF Use, AttachedKnown, TypeOK, RefsKnown, RunKnown, ParkKnown, Attached, Expelled, Gone
<1>8. IdleIsTimed'
  BY <1>1 DEF Use, IdleIsTimed, TypeOK, RefsKnown, ParkKnown, KeptKnown, RunKnown, Attached
<1>9. Final
  BY <1>1, <1>t DEF Use, Final, Dead, TypeOK, Fields, Links, RefsKnown, RunKnown
<1>10. Handed
  <2>1. \A d \in Callers : call'[d] = call[d] \/ call'[d].got = 0
    BY <1>t, Empties DEF Use, Fields
  <2> QED
    BY <2>1, NobodyAnswered
<1> QED
  BY <1>1, <1>2, <1>3, <1>4, <1>5, <1>6, <1>7, <1>8, <1>9, <1>10

\* Who cancelled a park arms the timer again.
LEMMA KeepSessionKeeps ==
    ASSUME IInv, NEW c \in Callers, KeepSession(c)
    PROVE  IInv' /\ Final /\ Handed
<1>t. Fields /\ Links
  BY TypeParts DEF IInv
<1>a. /\ UNCHANGED <<registryVars, sessionVars, park, rel, scan, run, diskVars>>
      /\ call[c].pc = "kept" /\ park = NoPark /\ call[c].ref \in 0 .. MaxRefs
      /\ adopted \in Adoptions /\ Attached \in 0 .. MaxSessions
      /\ cur = 0 \/ cur = call[c].ref
  BY <1>t, Bounds, Empties DEF KeepSession, Fields, Calls, Attached, IInv, KeptKnown
<1>b. /\ rev' \in [Refs -> Revivals] /\ call' \in [Callers -> Calls]
      /\ \A d \in Callers : d # c => call'[d] = call[d]
      /\ call'[c].got # 0 => cur # 0 /\ call'[c].got = session[cur]
      /\ call'[c].pc \in {"idle", "revival"}
      /\ \A q \in Refs : \/ rev'[q] = rev[q]
                         \/ /\ q = cur /\ session[q] = 0 /\ status[q] = "parked"
                            /\ rev[q] = NoRevival /\ rev'[q].phase \in {"build", "factory"}
  <2>1. CASE Attached # 0
    <3>1. Answer(c, Attached) /\ rev' = rev
      BY <2>1 DEF KeepSession
    <3>2. [pc |-> "idle", ref |-> 0, got |-> Attached] \in Calls
      BY <1>a, Bounds DEF Calls
    <3>3. call' = [call EXCEPT ![c] = [pc |-> "idle", ref |-> 0, got |-> Attached]]
          /\ call \in [Callers -> Calls] /\ rev \in [Refs -> Revivals]
      BY <1>t, <3>1 DEF Answer, Fields
    <3>4. cur # 0 /\ Attached = session[cur]
      BY <2>1 DEF Attached
    <3> QED
      BY <3>1, <3>2, <3>3, <3>4
  <2>2. CASE Attached = 0
    BY <1>t, <2>2, Resolving DEF KeepSession
  <2> QED
    BY <2>1, <2>2
<1>c. /\ adopted' \in Adoptions /\ adopted'.ref = adopted.ref
      /\ adopted.timer => adopted'.timer
      /\ adopted.ref = 0 => adopted' = adopted
      /\ cur # 0 /\ adopted.ref = cur /\ status[cur] = "idle" /\ session[cur] # 0 => adopted'.timer
  <2>1. CASE /\ Attached # 0 /\ adopted.ref # 0 /\ adopted.ref = call[c].ref
             /\ status[call[c].ref] = "idle"
    <3>1. adopted' = [adopted EXCEPT !.timer = TRUE]
      BY <2>1 DEF KeepSession
    <3>2. adopted' \in Adoptions /\ adopted'.ref = adopted.ref /\ adopted'.timer = TRUE
      BY ONLY <1>a, <3>1 DEF Adoptions
    <3> QED
      BY <2>1, <3>2
  <2>2. CASE ~(/\ Attached # 0 /\ adopted.ref # 0 /\ adopted.ref = call[c].ref
               /\ status[call[c].ref] = "idle")
    BY <1>a, <2>2 DEF KeepSession, Attached
  <2> QED
    BY <2>1, <2>2
<1>d. \A q \in Refs : rev[q].phase = "failing" => rev'[q] = rev[q]
  BY <1>b, Empties
<1>e. \A d \in Callers : d # c => (call[d].pc = "kept" <=> call'[d].pc = "kept")
  BY <1>a, <1>b
<1> USE Bounds, Empties DEF IInv, registryVars, sessionVars, actorVars, diskVars
<1>1. TypeOK'
  <2>1. Fields'
    BY <1>a, <1>b, <1>c, <1>t DEF Fields
  <2>2. Links'
    BY <1>a, <1>b, <1>c, <1>t DEF Fields, Links, RefsKnown
  <2> QED
    BY <2>1, <2>2, TypePartsNext
<1>2. RefsKnown'
  BY <1>a, <1>b, <1>c, <1>1 DEF RefsKnown, TypeOK, Early
<1>3. ParkKnown'
  BY <1>a, <1>b, <1>c, <1>1 DEF ParkKnown, TypeOK, RefsKnown, KeptKnown, RunKnown, Attached,
     Quiet, Gone, Early
<1>4. KeptKnown'
  BY <1>a, <1>b, <1>c, <1>1 DEF KeptKnown, ParkKnown, TypeOK, RunKnown
<1>5. RunKnown'
  BY <1>a, <1>b, <1>c, <1>1 DEF RunKnown, TypeOK, RefsKnown
<1>6. RelKnown'
  BY <1>a, <1>b, <1>c, <1>1 DEF RelKnown, TypeOK
<1>7. AttachedKnown'
  BY <1>a, <1>b, <1>c, <1>d, <1>1 DEF AttachedKnown, TypeOK, RefsKnown, RunKnown, ParkKnown,
     Attached, Expelled, Gone
<1>8. IdleIsTimed'
  BY <1>a, <1>b, <1>c, <1>e, <1>1 DEF IdleIsTimed, TypeOK, RefsKnown, ParkKnown, KeptKnown,
     RunKnown, Attached
<1>9. Final
  BY <1>a, <1>b, <1>c, <1>1, <1>t DEF Final, Dead, TypeOK, Fields, Links, RefsKnown, RunKnown
<1>10. Handed
  BY <1>b, OneAnswered
<1> QED
  BY <1>1, <1>2, <1>3, <1>4, <1>5, <1>6, <1>7, <1>8, <1>9, <1>10

\* Who waited for a park resolves the id anew.
LEMMA AfterParkKeeps ==
    ASSUME IInv, NEW c \in Callers, AfterPark(c)
    PROVE  IInv' /\ Final /\ Handed
<1>t. Fields /\ Links
  BY TypeParts DEF IInv
<1>a. /\ UNCHANGED <<registryVars, sessionVars, adopted, park, rel, scan, run, diskVars>>
      /\ call[c].pc = "parked" /\ park = NoPark
  BY <1>t, Bounds, Empties DEF AfterPark
<1>b. /\ rev' \in [Refs -> Revivals] /\ call' \in [Callers -> Calls]
      /\ \A d \in Callers : d # c => call'[d] = call[d]
      /\ call'[c].got # 0 => cur # 0 /\ call'[c].got = session[cur]
      /\ call'[c].pc \in {"idle", "revival"}
      /\ \A q \in Refs : \/ rev'[q] = rev[q]
                         \/ /\ q = cur /\ session[q] = 0 /\ status[q] = "parked"
                            /\ rev[q] = NoRevival /\ rev'[q].phase \in {"build", "factory"}
  BY <1>t, Resolving DEF AfterPark
<1>c. \A q \in Refs : rev[q].phase = "failing" => rev'[q] = rev[q]
  BY <1>b, Empties
<1>d. \A d \in Callers : call[d].pc = "kept" <=> call'[d].pc = "kept"
  BY <1>a, <1>b
<1>e. \A d \in Callers : call'[d].pc = "kept" => call'[d] = call[d]
  BY <1>a, <1>b
<1> USE Bounds, Empties DEF IInv, registryVars, sessionVars, actorVars, diskVars
<1>1. TypeOK'
  <2>1. Fields'
    BY <1>a, <1>b, <1>t DEF Fields
  <2>2. Links'
    BY <1>a, <1>b, <1>t DEF Fields, Links, RefsKnown
  <2> QED
    BY <2>1, <2>2, TypePartsNext
<1>2. RefsKnown'
  BY <1>a, <1>b, <1>1 DEF RefsKnown, TypeOK, Early
<1>3. ParkKnown'
  BY <1>a, <1>b, <1>1 DEF ParkKnown, TypeOK, RefsKnown, KeptKnown, RunKnown, Attached, Quiet,
     Gone, Early
<1>4. KeptKnown'
  BY <1>a, <1>e, <1>1 DEF KeptKnown, ParkKnown, TypeOK, RunKnown
<1>5. RunKnown'
  BY <1>a, <1>b, <1>1 DEF RunKnown, TypeOK, RefsKnown
<1>6. RelKnown'
  BY <1>a, <1>b, <1>1 DEF RelKnown, TypeOK
<1>7. AttachedKnown'
  BY <1>a, <1>b, <1>c, <1>1 DEF AttachedKnown, TypeOK, RefsKnown, RunKnown, ParkKnown, Attached,
     Expelled, Gone
<1>8. IdleIsTimed'
  BY <1>a, <1>b, <1>d, <1>1 DEF IdleIsTimed, TypeOK, RefsKnown, ParkKnown, KeptKnown, RunKnown,
     Attached
<1>9. Final
  BY <1>a, <1>b, <1>1, <1>t DEF Final, Dead, TypeOK, Fields, Links, RefsKnown, RunKnown
<1>10. Handed
  BY <1>b, OneAnswered
<1> QED
  BY <1>1, <1>2, <1>3, <1>4, <1>5, <1>6, <1>7, <1>8, <1>9, <1>10

-----------------------------------------------------------------------------
(* Releasing. *)

\* A kill never overtakes a park that is about to commit.
LEMMA KillKeeps ==
    ASSUME IInv, NEW l \in Releasers, NEW kind \in Kills, Kill(l, kind)
    PROVE  IInv' /\ Final /\ Handed
<1>t. Fields /\ Links
  BY TypeParts DEF IInv
<1>a. /\ rel[l].pc = "idle" /\ cur # 0 /\ cur \in Refs /\ run.pc # "none"
      /\ UNCHANGED <<status, session, owner, turn, synced, rev, call, scan, run, diskVars>>
      /\ kind \in {"none", "kill", "cancel", "finalize"}
      /\ rel \in [Releasers -> Releases] /\ session[cur] \in 0 .. MaxSessions
      /\ adopted \in Adoptions /\ park \in Parks /\ cur \in 0 .. MaxRefs
      /\ sess \in [Sessions -> {"unused", "live", "disposing", "disposed"}]
  BY <1>t, Bounds, KillsAssumption DEF Kill, Fields, IInv, RunKnown
<1>b. /\ rel' \in [Releasers -> Releases] /\ \A m \in Releasers : m # l => rel'[m] = rel[m]
      /\ rel'[l].pc # "idle"
      /\ rel'[l].pc \in {"park", "persist", "dispose"} => rel'[l].ref # 0
      /\ cur' \in {0, cur} /\ (cur' # cur => session[cur] = 0)
      /\ adopted' \in Adoptions /\ adopted' \in {adopted, NoAdoption}
      /\ park' \in Parks /\ park'.ref = park.ref /\ park'.session = park.session
      /\ park'.detached = park.detached /\ (park.cancelled => park'.cancelled)
      /\ park = NoPark => park' = NoPark
      /\ park' # park => adopted'.ref # park.ref
      /\ sess' \in [Sessions -> {"unused", "live", "disposing", "disposed"}]
      /\ \A q \in Sessions : sess[q] # "live" => sess'[q] = sess[q]
      /\ \A q \in Sessions : sess[q] = "live" => sess'[q] \in {"live", "disposing"}
      /\ \A q \in Sessions : sess'[q] = sess[q] \/ (rel'[l].pc = "dispose" /\ rel'[l].live = q)
      /\ park # NoPark /\ park.ref = cur => cur' = cur /\ sess' = sess /\ rel'[l].pc # "dispose"
  <2> DEFINE e == IF kind = "kill" THEN cur ELSE 0
  <2>1. e \in {0, cur} /\ e \in 0 .. MaxRefs
    BY <1>a, Bounds
  <2>2. CASE status[cur] = "running" /\ session[cur] # 0 /\ turn[session[cur]]
    <3>1. /\ rel' = [rel EXCEPT ![l] = [pc |-> "abort", ref |-> e, kind |-> kind, live |-> session[cur]]]
          /\ UNCHANGED <<cur, sess, adopted, park>>
      BY <2>2 DEF Kill
    <3>2. [pc |-> "abort", ref |-> e, kind |-> kind, live |-> session[cur]] \in Releases
      BY <1>a, <2>1 DEF Releases
    <3> HIDE DEF e
    <3> QED
      BY <1>a, <3>1, <3>2
  <2>3. CASE ~(status[cur] = "running" /\ session[cur] # 0 /\ turn[session[cur]])
    <3>1. Release(l, e, kind)
      BY <2>3 DEF Kill
    <3> HIDE DEF e
    <3> QED
      BY <1>a, <1>t, <2>1, <3>1, WholeRelease
  <2> QED
    BY <2>2, <2>3
<1> USE Bounds, Empties DEF IInv, registryVars, sessionVars, actorVars, diskVars
<1>1. TypeOK'
  <2>1. Fields'
    BY <1>a, <1>b, <1>t DEF Fields
  <2>2. Links'
    BY <1>a, <1>b, <1>t DEF Fields, Links, RefsKnown
  <2> QED
    BY <2>1, <2>2, TypePartsNext
<1>2. RefsKnown'
  BY <1>a, <1>b, <1>1 DEF RefsKnown, TypeOK, Early
<1>3. ParkKnown'
  <2>1. CASE park = NoPark
    BY <1>b, <2>1 DEF ParkKnown
  <2>2. CASE park # NoPark /\ ~park.detached
    <3>1. cur = park.ref /\ session[cur] = park.session /\ Quiet /\ park.session # 0 /\ cur # 0
      BY <1>a, <2>2 DEF ParkKnown
    <3>2. cur' = cur /\ sess' = sess /\ rel'[l].pc # "dispose"
      BY <1>b, <2>2, <3>1
    <3>3. Quiet'
      BY <1>a, <1>b, <3>1, <3>2 DEF Quiet, Gone
    <3>4. park'.cancelled /\ adopted'.ref = cur => \E c \in Callers : call[c].pc = "kept"
      BY <1>b, <2>2, <3>1, Empties DEF ParkKnown
    <3> QED
      BY <1>a, <1>b, <2>2, <3>1, <3>2, <3>3, <3>4 DEF ParkKnown
  <2>3. CASE park # NoPark /\ park.detached
    BY <1>a, <1>b, <2>3 DEF ParkKnown, Attached
  <2> QED
    BY <2>1, <2>2, <2>3
<1>4. KeptKnown'
  BY <1>a, <1>b, <1>1 DEF KeptKnown, ParkKnown, TypeOK, RunKnown
<1>5. RunKnown'
  BY <1>a, <1>b, <1>1 DEF RunKnown, TypeOK, RefsKnown
<1>6. RelKnown'
  BY <1>a, <1>b, <1>1 DEF RelKnown, TypeOK
<1>7. AttachedKnown'
  BY <1>a, <1>b, <1>1, SMTT(30) DEF AttachedKnown, TypeOK, RefsKnown, RunKnown, ParkKnown, Attached,
     Expelled, Gone
<1>8. IdleIsTimed'
  BY <1>a, <1>b, <1>1 DEF IdleIsTimed, TypeOK, RefsKnown, ParkKnown, KeptKnown, RunKnown, Attached
<1>9. Final
  BY <1>a, <1>b, <1>1, <1>t DEF Final, Dead, TypeOK, Fields, Links, RefsKnown, RunKnown
<1>10. Handed
  BY <1>a, <1>b, NobodyAnswered
<1> QED
  BY <1>1, <1>2, <1>3, <1>4, <1>5, <1>6, <1>7, <1>8, <1>9, <1>10

\* The release goes on with the ref it had seen.
LEMMA TurnAbortedKeeps ==
    ASSUME IInv, NEW l \in Releasers, TurnAborted(l)
    PROVE  IInv' /\ Final /\ Handed
<1>m. /\ \A c \in Callers : call[c].pc # "kept"
      /\ park # NoPark => park.detached /\ ~Gone(park.session)
      /\ Quiet
      /\ \A q \in Refs : ~(rev[q].phase = "failing" /\ Gone(rev[q].session))
  BY AtRest DEF TurnAborted
<1>t. Fields /\ Links
  BY TypeParts DEF IInv
<1>a. /\ rel[l].pc = "aborted" /\ run.pc # "none" /\ rel[l].ref \in 0 .. MaxRefs
      /\ rel[l].kind \in {"none", "kill", "cancel", "finalize"}
      /\ Release(l, rel[l].ref, rel[l].kind)
      /\ UNCHANGED <<status, session, owner, turn, synced, rev, call, scan, run, diskVars>>
  BY <1>t, Bounds DEF TurnAborted, Fields, Releases, IInv, RunKnown
<1>b. UNCHANGED <<status, session, owner, turn, synced, rev, call, scan, run, diskVars>>
  BY <1>a
<1>c. /\ rel' \in [Releasers -> Releases] /\ \A m \in Releasers : m # l => rel'[m] = rel[m]
      /\ rel'[l].pc # "idle"
      /\ rel'[l].pc \in {"park", "persist", "dispose"} => rel'[l].ref # 0
      /\ cur' \in {0, cur} /\ (cur' # cur => session[cur] = 0)
      /\ adopted' \in Adoptions /\ adopted' \in {adopted, NoAdoption}
      /\ park' \in Parks /\ park'.ref = park.ref /\ park'.session = park.session
      /\ park'.detached = park.detached /\ (park.cancelled => park'.cancelled)
      /\ park = NoPark => park' = NoPark
      /\ park' # park => adopted'.ref # park.ref
      /\ sess' \in [Sessions -> {"unused", "live", "disposing", "disposed"}]
      /\ \A q \in Sessions : sess[q] # "live" => sess'[q] = sess[q]
      /\ \A q \in Sessions : sess[q] = "live" => sess'[q] \in {"live", "disposing"}
      /\ \A q \in Sessions : sess'[q] = sess[q] \/ (rel'[l].pc = "dispose" /\ rel'[l].live = q)
  BY <1>a, <1>t, WholeRelease
<1>d. run.pc # "none"
  BY <1>a
<1> USE Bounds, Empties DEF IInv, registryVars, sessionVars, actorVars, diskVars
<1>1. TypeOK'
  <2>1. Fields'
    BY <1>m, <1>b, <1>c, <1>t DEF Fields
  <2>2. Links'
    BY <1>m, <1>b, <1>c, <1>t DEF Fields, Links, RefsKnown
  <2> QED
    BY <2>1, <2>2, TypePartsNext
<1>2. RefsKnown'
  BY <1>m, <1>b, <1>c, <1>1 DEF RefsKnown, TypeOK, Early
<1>3. ParkKnown'
  BY <1>m, <1>b, <1>c, <1>1 DEF ParkKnown, TypeOK, RefsKnown, KeptKnown, RunKnown, Attached,
     Quiet, Gone, Early
<1>4. KeptKnown'
  BY <1>m, <1>b, <1>c, <1>1 DEF KeptKnown, ParkKnown, TypeOK, RunKnown
<1>5. RunKnown'
  BY <1>m, <1>b, <1>c, <1>d, <1>1 DEF RunKnown, TypeOK, RefsKnown
<1>6. RelKnown'
  <2>1. /\ RelKnown /\ \A m \in Releasers : m # l => rel'[m] = rel[m]
        /\ rel'[l].pc \in {"park", "persist", "dispose"} => rel'[l].ref # 0
    BY <1>c
  <2> QED
    BY ONLY <2>1 DEF RelKnown
<1>7. AttachedKnown'
  <2>0. rel[l].pc = "aborted"
    BY DEF TurnAborted
  <2>1. \A q \in Sessions : Expelled(q) => Expelled(q)'
    BY <2>0, <1>b, <1>c DEF Expelled
  <2>2. \A q \in Sessions : rel'[l].pc = "dispose" /\ rel'[l].live = q => Expelled(q)'
    BY DEF Expelled
  <2> QED
    BY <1>1, <2>1, <2>2, <1>b, <1>c, <1>m DEF AttachedKnown, TypeOK, RefsKnown, RunKnown
<1>8. IdleIsTimed'
  BY <1>m, <1>b, <1>c, <1>1 DEF IdleIsTimed, TypeOK, RefsKnown, ParkKnown, KeptKnown, RunKnown,
     Attached
<1>9. Final
  BY <1>m, <1>b, <1>c, <1>1, <1>t DEF Final, Dead, TypeOK, Fields, Links, RefsKnown, RunKnown
<1>10. Handed
  BY <1>m, <1>b, <1>c, NobodyAnswered
<1> QED
  BY <1>1, <1>2, <1>3, <1>4, <1>5, <1>6, <1>7, <1>8, <1>9, <1>10

\* The release goes on when the park is over.
LEMMA ReleaseAfterParkKeeps ==
    ASSUME IInv, NEW l \in Releasers, ReleaseAfterPark(l)
    PROVE  IInv' /\ Final /\ Handed
<1>t. Fields /\ Links
  BY TypeParts DEF IInv
<1>a. /\ rel[l].pc = "park" /\ park = NoPark /\ run.pc # "none" /\ rel[l].ref \in Refs
      /\ rel[l].kind \in {"none", "kill", "cancel", "finalize"}
      /\ ReleaseRest(l, rel[l].ref, rel[l].kind)
      /\ UNCHANGED <<status, session, owner, turn, synced, park, rev, call, scan, run, diskVars>>
  BY <1>t, Bounds DEF ReleaseAfterPark, Fields, Releases, IInv, RunKnown, RelKnown
<1>b. UNCHANGED <<status, session, owner, turn, synced, park, rev, call, scan, run, diskVars>> /\ park = NoPark
  BY <1>a
<1>c. adopted' \in Adoptions /\ adopted' \in {adopted, NoAdoption}
  BY <1>t, Records DEF ReleaseAfterPark, Fields, OnRemoved
<1>d. /\ rel' \in [Releasers -> Releases] /\ \A m \in Releasers : m # l => rel'[m] = rel[m]
      /\ rel'[l].pc # "idle" /\ rel'[l].pc # "park"
      /\ rel'[l].pc \in {"park", "persist", "dispose"} => rel'[l].ref # 0
      /\ cur' \in {0, cur} /\ (cur' # cur => session[cur] = 0)
      /\ sess' \in [Sessions -> {"unused", "live", "disposing", "disposed"}]
      /\ \A q \in Sessions : sess[q] # "live" => sess'[q] = sess[q]
      /\ \A q \in Sessions : sess[q] = "live" => sess'[q] \in {"live", "disposing"}
      /\ \A q \in Sessions : sess'[q] = sess[q] \/ (rel'[l].pc = "dispose" /\ rel'[l].live = q)
  BY <1>a, <1>t, RestOfRelease
<1> USE Bounds, Empties DEF IInv, registryVars, sessionVars, actorVars, diskVars
<1>1. TypeOK'
  <2>1. Fields'
    BY <1>b, <1>c, <1>d, <1>t DEF Fields
  <2>2. Links'
    BY <1>b, <1>c, <1>d, <1>t DEF Fields, Links, RefsKnown
  <2> QED
    BY <2>1, <2>2, TypePartsNext
<1>2. RefsKnown'
  BY <1>b, <1>c, <1>d, <1>1 DEF RefsKnown, TypeOK, Early
<1>3. ParkKnown'
  BY <1>b, <1>c, <1>d, <1>1 DEF ParkKnown, TypeOK, RefsKnown, KeptKnown, RunKnown, Attached,
     Quiet, Gone, Early
<1>4. KeptKnown'
  BY <1>b, <1>c, <1>d, <1>1 DEF KeptKnown, ParkKnown, TypeOK, RunKnown
<1>5. RunKnown'
  BY <1>a, <1>b, <1>c, <1>d, <1>1 DEF RunKnown, TypeOK, RefsKnown
<1>6. RelKnown'
  BY <1>a, <1>b, <1>c, <1>d, <1>1 DEF RelKnown, TypeOK
<1>7. AttachedKnown'
  <2>0. rel[l].pc = "park"
    BY DEF ReleaseAfterPark
  <2>1. \A q \in Sessions : Expelled(q) => Expelled(q)'
    BY <2>0, <1>b, <1>c, <1>d DEF Expelled
  <2>2. \A q \in Sessions : rel'[l].pc = "dispose" /\ rel'[l].live = q => Expelled(q)'
    BY DEF Expelled
  <2> QED
    BY <1>1, <2>1, <2>2, <1>b, <1>c, <1>d DEF AttachedKnown, TypeOK, RefsKnown, RunKnown
<1>8. IdleIsTimed'
  BY <1>b, <1>c, <1>d, <1>1 DEF IdleIsTimed, TypeOK, RefsKnown, ParkKnown, KeptKnown, RunKnown,
     Attached
<1>9. Final
  BY <1>b, <1>c, <1>d, <1>1, <1>t DEF Final, Dead, TypeOK, Fields, Links, RefsKnown, RunKnown
<1>10. Handed
  BY <1>b, <1>c, <1>d, NobodyAnswered
<1> QED
  BY <1>1, <1>2, <1>3, <1>4, <1>5, <1>6, <1>7, <1>8, <1>9, <1>10

\* The ref is buried with its tombstone written.
LEMMA PersistedKeeps ==
    ASSUME IInv, NEW l \in Releasers, Persisted(l)
    PROVE  IInv' /\ Final /\ Handed
<1>m. /\ \A c \in Callers : call[c].pc # "kept"
      /\ park # NoPark => park.detached /\ ~Gone(park.session)
      /\ Quiet
      /\ \A q \in Refs : ~(rev[q].phase = "failing" /\ Gone(rev[q].session))
  BY AtRest DEF Persisted
<1>t. Fields /\ Links
  BY TypeParts DEF IInv
<1>a. /\ rel[l].pc = "persist" /\ run.pc # "none" /\ rel[l].ref \in Refs
      /\ UNCHANGED <<cur, owner, turn, synced, park, rev, call, scan, run, transcript>>
      /\ tombstone' \in BOOLEAN
  BY <1>t, Bounds DEF Persisted, Fields, Releases, IInv, RunKnown, RelKnown, diskVars
<1>b. /\ rel' \in [Releasers -> Releases] /\ \A m \in Releasers : m # l => rel'[m] = rel[m]
      /\ rel'[l].pc \in {"dispose", "done"}
      /\ rel'[l].pc # "done" => rel'[l].ref # 0
      /\ adopted' = adopted
      /\ status' \in [Refs -> {"unused", "running", "idle", "parked", "aborted"}]
      /\ session' \in [Refs -> 0 .. MaxSessions]
      /\ sess' \in [Sessions -> {"unused", "live", "disposing", "disposed"}]
      /\ \A q \in Sessions : sess[q] # "live" => sess'[q] = sess[q]
      /\ \A q \in Sessions : sess[q] = "live" => sess'[q] \in {"live", "disposing"}
      /\ \/ UNCHANGED <<status, session, sess>>
         \/ /\ cur = rel[l].ref /\ status'[cur] = "aborted" /\ session'[cur] = 0
            /\ \A q \in Refs : q # cur => status'[q] = status[q] /\ session'[q] = session[q]
            /\ \A q \in Sessions : q # session[cur] => sess'[q] = sess[q]
  BY <1>a, Entombing DEF Persisted
<1>c. tombstone => tombstone'
  BY <1>t DEF Persisted, Fields, diskVars
<1> USE Bounds, Empties DEF IInv, registryVars, sessionVars, actorVars, diskVars
<1>1. TypeOK'
  <2>1. Fields'
    BY <1>m, <1>a, <1>b, <1>t DEF Fields
  <2>2. Links'
    BY <1>m, <1>a, <1>b, <1>t DEF Fields, Links, RefsKnown
  <2> QED
    BY <2>1, <2>2, TypePartsNext
<1>2. RefsKnown'
  BY <1>m, <1>a, <1>b, <1>1 DEF RefsKnown, TypeOK, Early
<1>3. ParkKnown'
  BY <1>m, <1>a, <1>b, <1>1 DEF ParkKnown, TypeOK, RefsKnown, KeptKnown, RunKnown, Attached,
     Quiet, Gone, Early
<1>4. KeptKnown'
  BY <1>m, <1>a, <1>b, <1>1 DEF KeptKnown, ParkKnown, TypeOK, RunKnown
<1>5. RunKnown'
  BY <1>m, <1>a, <1>b, <1>1 DEF RunKnown, TypeOK, RefsKnown
<1>6. RelKnown'
  BY <1>m, <1>a, <1>b, <1>1 DEF RelKnown, TypeOK
<1>7. AttachedKnown'
  BY <1>m, <1>a, <1>b, <1>1 DEF AttachedKnown, TypeOK, RefsKnown, RunKnown, ParkKnown, Attached,
     Expelled, Gone
<1>8. IdleIsTimed'
  BY <1>m, <1>a, <1>b, <1>1 DEF IdleIsTimed, TypeOK, RefsKnown, ParkKnown, KeptKnown, RunKnown,
     Attached
<1>9. Final
  BY <1>m, <1>a, <1>b, <1>c, <1>1, <1>t DEF Final, Dead, TypeOK, Fields, Links, RefsKnown,
     RunKnown
<1>10. Handed
  BY <1>m, <1>a, <1>b, NobodyAnswered
<1> QED
  BY <1>1, <1>2, <1>3, <1>4, <1>5, <1>6, <1>7, <1>8, <1>9, <1>10

\* It is buried in memory only, or not at all.
LEMMA PersistFailsKeeps ==
    ASSUME IInv, NEW l \in Releasers, PersistFails(l)
    PROVE  IInv' /\ Final /\ Handed
<1>m. /\ \A c \in Callers : call[c].pc # "kept"
      /\ park # NoPark => park.detached /\ ~Gone(park.session)
      /\ Quiet
      /\ \A q \in Refs : ~(rev[q].phase = "failing" /\ Gone(rev[q].session))
  BY AtRest DEF PersistFails
<1>t. Fields /\ Links
  BY TypeParts DEF IInv
<1>a. /\ rel[l].pc = "persist" /\ run.pc # "none" /\ rel[l].ref \in Refs
      /\ UNCHANGED <<cur, owner, turn, synced, park, rev, call, scan, run, transcript>>
      /\ tombstone' \in BOOLEAN
  BY <1>t, Bounds DEF PersistFails, Fields, Releases, IInv, RunKnown, RelKnown, diskVars
<1>b. /\ rel' \in [Releasers -> Releases] /\ \A m \in Releasers : m # l => rel'[m] = rel[m]
      /\ rel'[l].pc \in {"dispose", "done"}
      /\ rel'[l].pc # "done" => rel'[l].ref # 0
      /\ adopted' = adopted
      /\ status' \in [Refs -> {"unused", "running", "idle", "parked", "aborted"}]
      /\ session' \in [Refs -> 0 .. MaxSessions]
      /\ sess' \in [Sessions -> {"unused", "live", "disposing", "disposed"}]
      /\ \A q \in Sessions : sess[q] # "live" => sess'[q] = sess[q]
      /\ \A q \in Sessions : sess[q] = "live" => sess'[q] \in {"live", "disposing"}
      /\ \/ UNCHANGED <<status, session, sess>>
         \/ /\ cur = rel[l].ref /\ status'[cur] = "aborted" /\ session'[cur] = 0
            /\ \A q \in Refs : q # cur => status'[q] = status[q] /\ session'[q] = session[q]
            /\ \A q \in Sessions : q # session[cur] => sess'[q] = sess[q]
  <2>1. CASE rel[l].kind = "finalize"
    BY <1>a, <2>1, Entombing DEF PersistFails
  <2>2. CASE rel[l].kind # "finalize"
    BY <1>t, <2>2, Records, Empties DEF PersistFails, Fields
  <2> QED
    BY <2>1, <2>2
<1>c. tombstone => tombstone'
  BY <1>t DEF PersistFails, Fields, diskVars
<1> USE Bounds, Empties DEF IInv, registryVars, sessionVars, actorVars, diskVars
<1>1. TypeOK'
  <2>1. Fields'
    BY <1>m, <1>a, <1>b, <1>t DEF Fields
  <2>2. Links'
    BY <1>m, <1>a, <1>b, <1>t DEF Fields, Links, RefsKnown
  <2> QED
    BY <2>1, <2>2, TypePartsNext
<1>2. RefsKnown'
  BY <1>m, <1>a, <1>b, <1>1 DEF RefsKnown, TypeOK, Early
<1>3. ParkKnown'
  BY <1>m, <1>a, <1>b, <1>1 DEF ParkKnown, TypeOK, RefsKnown, KeptKnown, RunKnown, Attached,
     Quiet, Gone, Early
<1>4. KeptKnown'
  BY <1>m, <1>a, <1>b, <1>1 DEF KeptKnown, ParkKnown, TypeOK, RunKnown
<1>5. RunKnown'
  BY <1>m, <1>a, <1>b, <1>1 DEF RunKnown, TypeOK, RefsKnown
<1>6. RelKnown'
  BY <1>m, <1>a, <1>b, <1>1 DEF RelKnown, TypeOK
<1>7. AttachedKnown'
  BY <1>m, <1>a, <1>b, <1>1 DEF AttachedKnown, TypeOK, RefsKnown, RunKnown, ParkKnown, Attached,
     Expelled, Gone
<1>8. IdleIsTimed'
  BY <1>m, <1>a, <1>b, <1>1 DEF IdleIsTimed, TypeOK, RefsKnown, ParkKnown, KeptKnown, RunKnown,
     Attached
<1>9. Final
  BY <1>m, <1>a, <1>b, <1>c, <1>1, <1>t DEF Final, Dead, TypeOK, Fields, Links, RefsKnown,
     RunKnown
<1>10. Handed
  BY <1>m, <1>a, <1>b, NobodyAnswered
<1> QED
  BY <1>1, <1>2, <1>3, <1>4, <1>5, <1>6, <1>7, <1>8, <1>9, <1>10

\* The closed session is not attached, or the id goes with it.
LEMMA ReleasedKeeps ==
    ASSUME IInv, NEW l \in Releasers, Released(l)
    PROVE  IInv' /\ Final /\ Handed
<1>t. Fields /\ Links
  BY TypeParts DEF IInv
<1>a. /\ rel[l].pc = "dispose" /\ Gone(rel[l].live) /\ run.pc # "none"
      /\ UNCHANGED <<status, session, sessionVars, park, rev, call, scan, run, diskVars>>
      /\ park = NoPark \/ park.detached
  BY DEF Released, IInv, ParkKnown, Quiet, RunKnown
<1>b. /\ rel' \in [Releasers -> Releases] /\ \A m \in Releasers : m # l => rel'[m] = rel[m]
      /\ rel'[l].pc = "done"
  BY <1>t, Records, Empties DEF Released, Fields
<1>c. /\ cur' \in {0, cur} /\ adopted' \in {adopted, NoAdoption} /\ adopted' \in Adoptions
  <2>1. rel[l].ref \in 0 .. MaxRefs /\ adopted \in Adoptions
    BY <1>t DEF Fields, Releases
  <2> QED
    BY <2>1, Unregisters, Records DEF Released, IInv
<1> USE Bounds, Empties DEF IInv, registryVars, sessionVars, actorVars, diskVars
<1>1. TypeOK'
  <2>1. Fields'
    BY <1>a, <1>b, <1>c, <1>t DEF Fields
  <2>2. Links'
    BY <1>a, <1>b, <1>c, <1>t DEF Fields, Links, RefsKnown
  <2> QED
    BY <2>1, <2>2, TypePartsNext
<1>2. RefsKnown'
  BY <1>a, <1>b, <1>c, <1>1 DEF RefsKnown, TypeOK, Early
<1>3. ParkKnown'
  BY <1>a, <1>b, <1>c, <1>1 DEF ParkKnown, TypeOK, RefsKnown, KeptKnown, RunKnown, Attached,
     Quiet, Gone, Early
<1>4. KeptKnown'
  BY <1>a, <1>b, <1>c, <1>1 DEF KeptKnown, ParkKnown, TypeOK, RunKnown
<1>5. RunKnown'
  BY <1>a, <1>b, <1>c, <1>1 DEF RunKnown, TypeOK, RefsKnown
<1>6. RelKnown'
  BY <1>a, <1>b, <1>c, <1>1 DEF RelKnown, TypeOK
<1>7. AttachedKnown'
  BY <1>a, <1>b, <1>c, <1>1 DEF AttachedKnown, TypeOK, RefsKnown, RunKnown, ParkKnown, Attached,
     Expelled, Gone
<1>8. IdleIsTimed'
  BY <1>a, <1>b, <1>c, <1>1 DEF IdleIsTimed, TypeOK, RefsKnown, ParkKnown, KeptKnown, RunKnown,
     Attached
<1>9. Final
  BY <1>a, <1>b, <1>c, <1>1, <1>t DEF Final, Dead, TypeOK, Fields, Links, RefsKnown, RunKnown
<1>10. Handed
  BY <1>a, <1>b, <1>c, NobodyAnswered
<1> QED
  BY <1>1, <1>2, <1>3, <1>4, <1>5, <1>6, <1>7, <1>8, <1>9, <1>10

\* The run releases its own ref, or closes a session that is not attached.
LEMMA FinalizeAbortedKeeps ==
    ASSUME IInv, NEW l \in Releasers, NEW ending \in {"shutdown", "kill"}, FinalizeAborted(l, ending)
    PROVE  IInv' /\ Final /\ Handed
<1>m. /\ \A c \in Callers : call[c].pc # "kept"
      /\ park # NoPark => park.detached /\ ~Gone(park.session)
      /\ Quiet
      /\ \A q \in Refs : ~(rev[q].phase = "failing" /\ Gone(rev[q].session))
  BY AtRest DEF FinalizeAborted
<1>t. Fields /\ Links
  BY TypeParts DEF IInv
<1>a. run' \in Runs /\ run'.pc = "done" /\ run'.ref = run.ref /\ run'.session = run.session
  <2>1. run' = [run EXCEPT !.pc = "done"]
    BY DEF FinalizeAborted
  <2>2. run \in Runs
    BY <1>t DEF Fields
  <2> QED
    BY ONLY <2>1, <2>2 DEF Runs
<1>b. /\ run.pc = "active" /\ rel[l].pc = "idle" /\ run.session \in 0 .. MaxSessions /\ run.session # 0
      /\ UNCHANGED <<status, session, owner, turn, synced, rev, call, scan, diskVars>>
      /\ rel \in [Releasers -> Releases] /\ adopted \in Adoptions /\ park \in Parks
      /\ cur \in 0 .. MaxRefs
      /\ sess \in [Sessions -> {"unused", "live", "disposing", "disposed"}]
  BY <1>t DEF FinalizeAborted, Fields, Runs, IInv, RunKnown
<1>c. /\ rel' \in [Releasers -> Releases] /\ \A m \in Releasers : m # l => rel'[m] = rel[m]
      /\ rel'[l].pc \in {"park", "persist", "dispose"} => rel'[l].ref # 0
      /\ cur' \in {0, cur} /\ (cur' # cur => session[cur] = 0)
      /\ adopted' \in Adoptions /\ adopted' \in {adopted, NoAdoption}
      /\ park' \in Parks /\ park'.ref = park.ref /\ park'.session = park.session
      /\ park'.detached = park.detached /\ (park.cancelled => park'.cancelled)
      /\ park = NoPark => park' = NoPark
      /\ park' # park => adopted'.ref # park.ref
      /\ sess' \in [Sessions -> {"unused", "live", "disposing", "disposed"}]
      /\ \A q \in Sessions : sess[q] # "live" => sess'[q] = sess[q]
      /\ \A q \in Sessions : sess[q] = "live" => sess'[q] \in {"live", "disposing"}
      /\ \A q \in Sessions : \/ sess'[q] = sess[q]
                             \/ rel'[l].pc = "dispose" /\ rel'[l].live = q
                             \/ cur # 0 => session[cur] # q
  <2>1. CASE OwnsRef
    <3>1. Release(l, cur, IF ending = "kill" THEN "finalize" ELSE "cancel")
      BY <2>1 DEF FinalizeAborted
    <3> QED
      BY <1>b, <1>t, <3>1, WholeRelease
  <2>2. CASE ~OwnsRef
    <3>1. sess' = Disposing(run.session) /\ UNCHANGED <<cur, adopted, park, rel>>
      BY <2>2 DEF FinalizeAborted
    <3>2. cur # 0 => session[cur] # run.session
      BY <2>2 DEF OwnsRef
    <3>3. /\ sess' \in [Sessions -> {"unused", "live", "disposing", "disposed"}]
          /\ \A q \in Sessions : sess[q] # "live" => sess'[q] = sess[q]
          /\ \A q \in Sessions : sess[q] = "live" => sess'[q] \in {"live", "disposing"}
          /\ \A q \in Sessions : q # run.session => sess'[q] = sess[q]
      BY <1>b, <3>1, Disposes DEF IInv
    <3> QED
      BY <1>b, <3>1, <3>2, <3>3
  <2> QED
    BY <2>1, <2>2
<1> USE Bounds, Empties DEF IInv, registryVars, sessionVars, actorVars, diskVars
<1>1. TypeOK'
  <2>1. Fields'
    BY <1>m, <1>a, <1>b, <1>c, <1>t DEF Fields
  <2>2. Links'
    BY <1>m, <1>a, <1>b, <1>c, <1>t DEF Fields, Links, RefsKnown
  <2> QED
    BY <2>1, <2>2, TypePartsNext
<1>2. RefsKnown'
  BY <1>m, <1>a, <1>b, <1>c, <1>1 DEF RefsKnown, TypeOK, Early
<1>3. ParkKnown'
  BY <1>m, <1>a, <1>b, <1>c, <1>1 DEF ParkKnown, TypeOK, RefsKnown, KeptKnown, RunKnown,
     Attached, Quiet, Gone, Early
<1>4. KeptKnown'
  BY <1>m, <1>a, <1>b, <1>c, <1>1 DEF KeptKnown, ParkKnown, TypeOK, RunKnown
<1>5. RunKnown'
  BY <1>m, <1>a, <1>b, <1>c, <1>1 DEF RunKnown, TypeOK, RefsKnown
<1>6. RelKnown'
  BY <1>m, <1>a, <1>b, <1>c, <1>1 DEF RelKnown, TypeOK
<1>7. AttachedKnown'
  <2>0. rel[l].pc = "idle"
    BY DEF FinalizeAborted
  <2>1. \A q \in Sessions : Expelled(q) => Expelled(q)'
    BY <2>0, <1>a, <1>b, <1>c DEF Expelled
  <2>2. \A q \in Sessions : rel'[l].pc = "dispose" /\ rel'[l].live = q => Expelled(q)'
    BY DEF Expelled
  <2> QED
    BY <1>1, <2>1, <2>2, <1>a, <1>b, <1>c, <1>m DEF AttachedKnown, TypeOK, RefsKnown, RunKnown
<1>8. IdleIsTimed'
  BY <1>m, <1>a, <1>b, <1>c, <1>1 DEF IdleIsTimed, TypeOK, RefsKnown, ParkKnown, KeptKnown,
     RunKnown, Attached
<1>9. Final
  BY <1>m, <1>a, <1>b, <1>c, <1>1, <1>t DEF Final, Dead, TypeOK, Fields, Links, RefsKnown,
     RunKnown
<1>10. Handed
  BY <1>m, <1>a, <1>b, <1>c, NobodyAnswered
<1> QED
  BY <1>1, <1>2, <1>3, <1>4, <1>5, <1>6, <1>7, <1>8, <1>9, <1>10

-----------------------------------------------------------------------------
(* Sessions and scans. *)

\* A running agent needs no timer.
LEMMA AgentStartKeeps ==
    ASSUME IInv, NEW s \in Sessions, AgentStart(s)
    PROVE  IInv' /\ Final /\ Handed
<1>m. /\ \A c \in Callers : call[c].pc # "kept"
      /\ park # NoPark => park.detached /\ ~Gone(park.session)
      /\ Quiet
      /\ \A q \in Refs : ~(rev[q].phase = "failing" /\ Gone(rev[q].session))
  BY AtRest DEF AgentStart
<1>t. Fields /\ Links
  BY TypeParts DEF IInv
<1>a. /\ turn' \in [Sessions -> BOOLEAN] /\ cur \in 0 .. MaxRefs /\ sess[s] # "unused"
      /\ adopted \in Adoptions /\ status \in [Refs -> {"unused", "running", "idle", "parked", "aborted"}]
      /\ UNCHANGED <<cur, session, sess, owner, synced, park, rev, call, scan, run, diskVars>>
  BY <1>t DEF AgentStart, Fields
<1>b. run.pc \notin {"none", "starting"} \/ Attached # s
  BY <1>t, Bounds DEF IInv, RunKnown, Attached, Fields
<1>c. /\ adopted' \in Adoptions /\ adopted'.ref = adopted.ref
      /\ adopted.ref # cur => adopted' = adopted
      /\ status' \in [Refs -> {"unused", "running", "idle", "parked", "aborted"}]
      /\ \/ UNCHANGED <<status, adopted>>
         \/ /\ cur # 0 /\ cur \in Refs /\ session[cur] = s /\ status[cur] # "aborted"
            /\ status'[cur] = "running"
            /\ \A q \in Refs : q # cur => status'[q] = status[q]
  <2>1. CASE synced[s] /\ Attached = s
    <3>1. cur # 0 /\ cur \in Refs /\ session[cur] = s
      BY <1>a, <2>1, Bounds DEF Attached
    <3>2. SetStatus(adopted, cur, "running", TRUE) /\ "running" \in Statuses /\ TRUE \in BOOLEAN /\ TypeOK
      BY <2>1 DEF AgentStart, Statuses, IInv
    <3>3. /\ adopted' \in Adoptions /\ adopted'.ref = adopted.ref
          /\ adopted.ref # cur => adopted' = adopted
          /\ status' \in [Refs -> {"unused", "running", "idle", "parked", "aborted"}]
          /\ \A q \in Refs : q # cur => status'[q] = status[q]
          /\ status[cur] # "aborted" => status'[cur] = "running"
          /\ status[cur] = "aborted" => status'[cur] = status[cur]
          /\ status'[cur] = status[cur] => adopted' = adopted
      BY <3>1, <3>2, StatusIsSet DEF Adoptions
    <3>4. CASE status'[cur] = status[cur]
      BY <1>a, <3>3, <3>4
    <3>5. CASE status'[cur] # status[cur]
      BY <3>1, <3>3, <3>5
    <3> QED
      BY <3>4, <3>5
  <2>2. CASE ~(synced[s] /\ Attached = s)
    BY <1>a, <2>2 DEF AgentStart
  <2> QED
    BY <2>1, <2>2
<1>d. rel' = rel
  BY DEF AgentStart
<1> USE Bounds, Empties DEF IInv, registryVars, sessionVars, actorVars, diskVars
<1>1. TypeOK'
  <2>1. Fields'
    BY <1>m, <1>a, <1>c, <1>d, <1>t DEF Fields
  <2>2. Links'
    BY <1>m, <1>a, <1>c, <1>d, <1>t DEF Fields, Links, RefsKnown
  <2> QED
    BY <2>1, <2>2, TypePartsNext
<1>2. RefsKnown'
  BY <1>m, <1>a, <1>c, <1>d, <1>1 DEF RefsKnown, TypeOK, Early
<1>3. ParkKnown'
  BY <1>m, <1>a, <1>c, <1>d, <1>1 DEF ParkKnown, TypeOK, RefsKnown, KeptKnown, RunKnown,
     Attached, Quiet, Gone, Early
<1>4. KeptKnown'
  BY <1>m, <1>a, <1>c, <1>d, <1>1 DEF KeptKnown, ParkKnown, TypeOK, RunKnown
<1>5. RunKnown'
  BY <1>m, <1>a, <1>b, <1>c, <1>d, <1>1 DEF RunKnown, TypeOK, RefsKnown
<1>6. RelKnown'
  BY <1>m, <1>a, <1>c, <1>d, <1>1 DEF RelKnown, TypeOK
<1>7. AttachedKnown'
  BY <1>m, <1>a, <1>c, <1>d, <1>1 DEF AttachedKnown, TypeOK, RefsKnown, RunKnown, ParkKnown,
     Attached, Expelled, Gone
<1>8. IdleIsTimed'
  BY <1>m, <1>a, <1>c, <1>d, <1>1 DEF IdleIsTimed, TypeOK, RefsKnown, ParkKnown, KeptKnown,
     RunKnown, Attached
<1>9. Final
  BY <1>m, <1>a, <1>c, <1>d, <1>1, <1>t DEF Final, Dead, TypeOK, Fields, Links, RefsKnown,
     RunKnown
<1>10. Handed
  BY <1>m, <1>a, <1>c, <1>d, NobodyAnswered
<1> QED
  BY <1>1, <1>2, <1>3, <1>4, <1>5, <1>6, <1>7, <1>8, <1>9, <1>10

\* No park is in flight while a session is attached, so the timer is armed.
LEMMA AgentEndKeeps ==
    ASSUME IInv, NEW s \in Sessions, AgentEnd(s)
    PROVE  IInv' /\ Final /\ Handed
<1>m. /\ \A c \in Callers : call[c].pc # "kept"
      /\ park # NoPark => park.detached /\ ~Gone(park.session)
      /\ Quiet
      /\ \A q \in Refs : ~(rev[q].phase = "failing" /\ Gone(rev[q].session))
  BY AtRest DEF AgentEnd
<1>t. Fields /\ Links
  BY TypeParts DEF IInv
<1>a. /\ turn' \in [Sessions -> BOOLEAN] /\ cur \in 0 .. MaxRefs /\ sess[s] # "unused"
      /\ adopted \in Adoptions /\ status \in [Refs -> {"unused", "running", "idle", "parked", "aborted"}]
      /\ UNCHANGED <<cur, session, sess, owner, synced, park, rev, call, scan, run, diskVars>>
  BY <1>t DEF AgentEnd, Fields
<1>b. run.pc \notin {"none", "starting"} \/ Attached # s
  BY <1>t, Bounds DEF IInv, RunKnown, Attached, Fields
<1>c. /\ adopted' \in Adoptions /\ adopted'.ref = adopted.ref
      /\ adopted.ref # cur => adopted' = adopted
      /\ status' \in [Refs -> {"unused", "running", "idle", "parked", "aborted"}]
      /\ \/ UNCHANGED <<status, adopted>>
         \/ /\ cur # 0 /\ cur \in Refs /\ session[cur] = s /\ status[cur] # "aborted"
            /\ status'[cur] = "idle"
            /\ \A q \in Refs : q # cur => status'[q] = status[q]
            /\ park = NoPark /\ adopted.ref = cur => adopted'.timer
  <2>1. CASE synced[s] /\ Attached = s
    <3>1. cur # 0 /\ cur \in Refs /\ session[cur] = s
      BY <1>a, <2>1, Bounds DEF Attached
    <3>2. SetStatus(adopted, cur, "idle", TRUE) /\ "idle" \in Statuses /\ TRUE \in BOOLEAN /\ TypeOK
      BY <2>1 DEF AgentEnd, Statuses, IInv
    <3>3. /\ adopted' \in Adoptions /\ adopted'.ref = adopted.ref
          /\ adopted.ref # cur => adopted' = adopted
          /\ status' \in [Refs -> {"unused", "running", "idle", "parked", "aborted"}]
          /\ \A q \in Refs : q # cur => status'[q] = status[q]
          /\ status[cur] # "aborted" => status'[cur] = "idle"
          /\ status[cur] = "aborted" => status'[cur] = status[cur]
          /\ status'[cur] = status[cur] => adopted' = adopted
          /\ park = NoPark /\ adopted.ref = cur /\ status'[cur] # status[cur] => adopted'.timer
      BY <3>1, <3>2, StatusIsSet DEF Adoptions
    <3>4. CASE status'[cur] = status[cur]
      BY <1>a, <3>3, <3>4
    <3>5. CASE status'[cur] # status[cur]
      BY <3>1, <3>3, <3>5
    <3> QED
      BY <3>4, <3>5
  <2>2. CASE ~(synced[s] /\ Attached = s)
    BY <1>a, <2>2 DEF AgentEnd
  <2> QED
    BY <2>1, <2>2
<1>d. /\ rel' \in [Releasers -> Releases]
      /\ \A m \in Releasers : \/ rel'[m] = rel[m]
                              \/ rel[m].pc = "abort" /\ rel'[m].pc = "aborted"
  BY <1>t, TurnsOver DEF AgentEnd
<1>e. run.pc # "none" \/ rel' = rel
  <2>1. run.pc = "none" => \A m \in Releasers : rel[m].pc # "abort"
    BY DEF IInv, RunKnown
  <2>2. rel \in [Releasers -> Releases]
    BY <1>t DEF Fields
  <2>3. rel' = [m \in Releasers |-> IF rel[m].pc = "abort" /\ rel[m].live = s
                                    THEN [rel[m] EXCEPT !.pc = "aborted"] ELSE rel[m]]
    BY DEF AgentEnd, TurnOver
  <2> QED
    BY <2>1, <2>2, <2>3
<1> USE Bounds, Empties DEF IInv, registryVars, sessionVars, actorVars, diskVars
<1>1. TypeOK'
  <2>1. Fields'
    BY <1>m, <1>a, <1>c, <1>d, <1>e, <1>t DEF Fields
  <2>2. Links'
    BY <1>m, <1>a, <1>c, <1>d, <1>e, <1>t DEF Fields, Links, RefsKnown
  <2> QED
    BY <2>1, <2>2, TypePartsNext
<1>2. RefsKnown'
  BY <1>m, <1>a, <1>c, <1>d, <1>e, <1>1 DEF RefsKnown, TypeOK, Early
<1>3. ParkKnown'
  BY <1>m, <1>a, <1>c, <1>d, <1>e, <1>1 DEF ParkKnown, TypeOK, RefsKnown, KeptKnown, RunKnown,
     Attached, Quiet, Gone, Early
<1>4. KeptKnown'
  BY <1>m, <1>a, <1>c, <1>d, <1>e, <1>1 DEF KeptKnown, ParkKnown, TypeOK, RunKnown
<1>5. RunKnown'
  BY <1>m, <1>a, <1>b, <1>c, <1>d, <1>e, <1>1 DEF RunKnown, TypeOK, RefsKnown
<1>6. RelKnown'
  BY <1>m, <1>a, <1>c, <1>d, <1>e, <1>1 DEF RelKnown, TypeOK
<1>7. AttachedKnown'
  BY <1>m, <1>a, <1>c, <1>d, <1>e, <1>1 DEF AttachedKnown, TypeOK, RefsKnown, RunKnown,
     ParkKnown, Attached, Expelled, Gone
<1>8. IdleIsTimed'
  BY <1>m, <1>a, <1>c, <1>d, <1>e, <1>1 DEF IdleIsTimed, TypeOK, RefsKnown, ParkKnown,
     KeptKnown, RunKnown, Attached
<1>9. Final
  BY <1>m, <1>a, <1>c, <1>d, <1>e, <1>1, <1>t DEF Final, Dead, TypeOK, Fields, Links, RefsKnown,
     RunKnown
<1>10. Handed
  BY <1>m, <1>a, <1>c, <1>d, <1>e, NobodyAnswered
<1> QED
  BY <1>1, <1>2, <1>3, <1>4, <1>5, <1>6, <1>7, <1>8, <1>9, <1>10

\* A ref keeps the id without its session only if it is parked by an isolated run.
LEMMA SessionDisposedKeeps ==
    ASSUME IInv, NEW s \in Sessions, SessionDisposed(s)
    PROVE  IInv' /\ Final /\ Handed
<1>m. /\ \A c \in Callers : call[c].pc # "kept"
      /\ park # NoPark => park.detached /\ ~Gone(park.session)
      /\ Quiet
      /\ \A q \in Refs : ~(rev[q].phase = "failing" /\ Gone(rev[q].session))
  BY AtRest DEF SessionDisposed
<1>t. Fields /\ Links
  BY TypeParts DEF IInv
<1>a. /\ sess[s] = "disposing" /\ turn' \in [Sessions -> BOOLEAN]
      /\ sess' \in [Sessions -> {"unused", "live", "disposing", "disposed"}]
      /\ sess'[s] = "disposed" /\ \A q \in Sessions : q # s => sess'[q] = sess[q]
      /\ owner[s] \in 0 .. MaxRefs
      /\ UNCHANGED <<status, session, owner, synced, park, rev, call, scan, run, diskVars>>
  BY <1>t DEF SessionDisposed, Fields
<1>b. /\ cur' \in {0, cur} /\ adopted' \in {adopted, NoAdoption} /\ adopted' \in Adoptions
      /\ ~Spared(owner[s]) /\ cur = owner[s] => cur' = 0
  <2>1. adopted \in Adoptions
    BY <1>t DEF Fields
  <2>2. CASE Spared(owner[s])
    BY <2>1, <2>2 DEF SessionDisposed
  <2>3. CASE ~Spared(owner[s])
    BY <1>a, <2>1, <2>3, Unregisters, Records DEF SessionDisposed, IInv
  <2> QED
    BY <2>2, <2>3
<1>c. /\ rel' \in [Releasers -> Releases]
      /\ \A m \in Releasers : \/ rel'[m] = rel[m]
                              \/ rel[m].pc = "abort" /\ rel'[m].pc = "aborted"
  BY <1>t, TurnsOver DEF SessionDisposed
<1>d. run.pc # "none" \/ rel' = rel
  <2>1. run.pc = "none" => \A m \in Releasers : rel[m].pc # "abort"
    BY DEF IInv, RunKnown
  <2>2. rel \in [Releasers -> Releases]
    BY <1>t DEF Fields
  <2>3. rel' = [m \in Releasers |-> IF rel[m].pc = "abort" /\ rel[m].live = s
                                    THEN [rel[m] EXCEPT !.pc = "aborted"] ELSE rel[m]]
    BY DEF SessionDisposed, TurnOver
  <2> QED
    BY <2>1, <2>2, <2>3
<1> USE Bounds, Empties DEF IInv, registryVars, sessionVars, actorVars, diskVars
<1>1. TypeOK'
  <2>1. Fields'
    BY <1>m, <1>a, <1>b, <1>c, <1>d, <1>t DEF Fields
  <2>2. Links'
    BY <1>m, <1>a, <1>b, <1>c, <1>d, <1>t DEF Fields, Links, RefsKnown
  <2> QED
    BY <2>1, <2>2, TypePartsNext
<1>2. RefsKnown'
  BY <1>m, <1>a, <1>b, <1>c, <1>d, <1>1 DEF RefsKnown, TypeOK, Early
<1>3. ParkKnown'
  BY <1>m, <1>a, <1>b, <1>c, <1>d, <1>1 DEF ParkKnown, TypeOK, RefsKnown, KeptKnown, RunKnown,
     Attached, Quiet, Gone, Early
<1>4. KeptKnown'
  BY <1>m, <1>a, <1>b, <1>c, <1>d, <1>1 DEF KeptKnown, ParkKnown, TypeOK, RunKnown
<1>5. RunKnown'
  BY <1>m, <1>a, <1>b, <1>c, <1>d, <1>1 DEF RunKnown, TypeOK, RefsKnown
<1>6. RelKnown'
  BY <1>m, <1>a, <1>b, <1>c, <1>d, <1>1 DEF RelKnown, TypeOK
<1>7. AttachedKnown'
  <2>1. \A q \in Sessions : Expelled(q) => Expelled(q)'
    BY <1>a, <1>c DEF Expelled
  <2>2. ASSUME cur' # 0, session'[cur'] # 0, session[cur] = s
        PROVE  run.pc = "isolated" /\ run.session = s
    <3>1. cur' = cur /\ cur # 0 /\ cur \in Refs
      BY <1>b, <1>t, <2>2 DEF Fields
    <3>2. owner[s] = cur
      BY <1>t, <2>2, <3>1 DEF Links
    <3>3. Spared(cur)
      BY <1>b, <2>2, <3>1, <3>2
    <3>4. status[cur] # "aborted"
      BY <2>2, <3>1 DEF RefsKnown
    <3>5. park.ref # cur
      BY <1>m, <2>2, <3>1 DEF ParkKnown, Attached
    <3>6. status[cur] = "parked"
      BY <3>3, <3>4, <3>5 DEF Spared
    <3> QED
      BY <2>2, <3>1, <3>6 DEF AttachedKnown
  <2>3. ASSUME cur' # 0, session'[cur'] # 0, session[cur] # s
        PROVE  cur' = cur /\ session[cur] \in Sessions /\ sess'[session[cur]] = sess[session[cur]]
    BY <1>a, <1>b, <1>t, <2>3 DEF Fields
  <2>4. UNCHANGED <<status, session, run>>
    BY <1>a
  <2> QED
    BY <1>b, <2>1, <2>2, <2>3, <2>4 DEF AttachedKnown
<1>8. IdleIsTimed'
  BY <1>m, <1>a, <1>b, <1>c, <1>d, <1>1 DEF IdleIsTimed, TypeOK, RefsKnown, ParkKnown,
     KeptKnown, RunKnown, Attached
<1>9. Final
  BY <1>m, <1>a, <1>b, <1>c, <1>d, <1>1, <1>t DEF Final, Dead, TypeOK, Fields, Links, RefsKnown,
     RunKnown
<1>10. Handed
  BY <1>m, <1>a, <1>b, <1>c, <1>d, NobodyAnswered
<1> QED
  BY <1>1, <1>2, <1>3, <1>4, <1>5, <1>6, <1>7, <1>8, <1>9, <1>10

\* A scan looks for the tombstone first.
LEMMA ScanCheckKeeps ==
    ASSUME IInv, NEW x \in Scanners, ScanCheck(x)
    PROVE  IInv' /\ Final /\ Handed
<1>m. /\ \A c \in Callers : call[c].pc # "kept"
      /\ park # NoPark => park.detached /\ ~Gone(park.session)
      /\ Quiet
      /\ \A q \in Refs : ~(rev[q].phase = "failing" /\ Gone(rev[q].session))
  BY AtRest DEF ScanCheck
<1>t. Fields /\ Links
  BY TypeParts DEF IInv
<1>a. scan' \in [Scanners -> [pc : {"idle", "reading"}, tombstone : BOOLEAN]]
  BY <1>t DEF ScanCheck, Fields
<1> USE Bounds, Empties DEF IInv, registryVars, sessionVars, actorVars, diskVars
<1>1. TypeOK'
  <2>1. Fields'
    BY <1>m, <1>a, <1>t DEF ScanCheck, Fields
  <2>2. Links'
    BY <1>m, <1>t DEF ScanCheck, Fields, Links, RefsKnown
  <2> QED
    BY <2>1, <2>2, TypePartsNext
<1>2. RefsKnown'
  BY <1>m, <1>1 DEF ScanCheck, RefsKnown, TypeOK, Early
<1>3. ParkKnown'
  BY <1>m, <1>1 DEF ScanCheck, ParkKnown, TypeOK, RefsKnown, KeptKnown, RunKnown, Attached,
     Quiet, Gone, Early
<1>4. KeptKnown'
  BY <1>m, <1>1 DEF ScanCheck, KeptKnown, ParkKnown, TypeOK, RunKnown
<1>5. RunKnown'
  BY <1>m, <1>1 DEF ScanCheck, RunKnown, TypeOK, RefsKnown
<1>6. RelKnown'
  BY <1>m, <1>1 DEF ScanCheck, RelKnown, TypeOK
<1>7. AttachedKnown'
  BY <1>m, <1>1 DEF ScanCheck, AttachedKnown, TypeOK, RefsKnown, RunKnown, ParkKnown, Attached,
     Expelled, Gone
<1>8. IdleIsTimed'
  BY <1>m, <1>1 DEF ScanCheck, IdleIsTimed, TypeOK, RefsKnown, ParkKnown, KeptKnown, RunKnown,
     Attached
<1>9. Final
  BY <1>m, <1>1, <1>t DEF ScanCheck, Final, Dead, TypeOK, Fields, Links, RefsKnown, RunKnown
<1>10. Handed
  BY <1>m, NobodyAnswered DEF ScanCheck
<1> QED
  BY <1>1, <1>2, <1>3, <1>4, <1>5, <1>6, <1>7, <1>8, <1>9, <1>10

\* The new ref has no session.
LEMMA ScanRegisterKeeps ==
    ASSUME IInv, NEW x \in Scanners, ScanRegister(x)
    PROVE  IInv' /\ Final /\ Handed
<1>m. /\ \A c \in Callers : call[c].pc # "kept"
      /\ park # NoPark => park.detached /\ ~Gone(park.session)
      /\ Quiet
      /\ \A q \in Refs : ~(rev[q].phase = "failing" /\ Gone(rev[q].session))
  BY AtRest DEF ScanRegister
<1>t. Fields /\ Links
  BY TypeParts DEF IInv
<1>a. PICK r \in Fresh(status) :
         /\ scan[x].pc = "reading" /\ cur' = r
         /\ scan' = [scan EXCEPT ![x] = [pc |-> "idle", tombstone |-> FALSE]]
         /\ status' = [status EXCEPT ![r] = IF scan[x].tombstone THEN "aborted" ELSE "parked"]
         /\ UNCHANGED <<session, sessionVars, adopted, park, rev, call, rel, run, diskVars>>
  BY DEF ScanRegister
<1>b. r \in Refs /\ r \in 0 .. MaxRefs /\ r # 0 /\ status[r] = "unused"
  BY FreshOnes, Bounds DEF IInv
<1>c. /\ status' \in [Refs -> {"unused", "running", "idle", "parked", "aborted"}]
      /\ status'[r] \in {"aborted", "parked"} /\ \A q \in Refs : q # r => status'[q] = status[q]
  BY <1>a, <1>b, <1>t DEF Fields
<1>d. /\ scan' \in [Scanners -> [pc : {"idle", "reading"}, tombstone : BOOLEAN]]
      /\ run.pc \notin {"none", "starting"} /\ session[r] = 0 /\ rev[r] = NoRevival
  BY <1>a, <1>b, <1>t DEF Fields, IInv, RunKnown, RefsKnown
<1> USE Bounds, Empties DEF IInv, registryVars, sessionVars, actorVars, diskVars
<1>1. TypeOK'
  <2>1. Fields'
    BY <1>m, <1>a, <1>b, <1>c, <1>d, <1>t DEF Fields
  <2>2. Links'
    BY <1>m, <1>a, <1>b, <1>c, <1>d, <1>t DEF Fields, Links, RefsKnown
  <2> QED
    BY <2>1, <2>2, TypePartsNext
<1>2. RefsKnown'
  BY <1>m, <1>a, <1>b, <1>c, <1>d, <1>1 DEF RefsKnown, TypeOK, Early
<1>3. ParkKnown'
  BY <1>m, <1>a, <1>b, <1>c, <1>d, <1>1 DEF ParkKnown, TypeOK, RefsKnown, KeptKnown, RunKnown,
     Attached, Quiet, Gone, Early
<1>4. KeptKnown'
  BY <1>m, <1>a, <1>b, <1>c, <1>d, <1>1 DEF KeptKnown, ParkKnown, TypeOK, RunKnown
<1>5. RunKnown'
  BY <1>m, <1>a, <1>b, <1>c, <1>d, <1>1 DEF RunKnown, TypeOK, RefsKnown
<1>6. RelKnown'
  BY <1>m, <1>a, <1>b, <1>c, <1>d, <1>1 DEF RelKnown, TypeOK
<1>7. AttachedKnown'
  BY <1>m, <1>a, <1>b, <1>c, <1>d, <1>1 DEF AttachedKnown, TypeOK, RefsKnown, RunKnown,
     ParkKnown, Attached, Expelled, Gone
<1>8. IdleIsTimed'
  BY <1>m, <1>a, <1>b, <1>c, <1>d, <1>1 DEF IdleIsTimed, TypeOK, RefsKnown, ParkKnown,
     KeptKnown, RunKnown, Attached
<1>9. Final
  BY <1>m, <1>a, <1>b, <1>c, <1>d, <1>1, <1>t DEF Final, Dead, TypeOK, Fields, Links, RefsKnown,
     RunKnown
<1>10. Handed
  BY <1>m, <1>a, <1>b, <1>c, <1>d, NobodyAnswered
<1> QED
  BY <1>1, <1>2, <1>3, <1>4, <1>5, <1>6, <1>7, <1>8, <1>9, <1>10

-----------------------------------------------------------------------------
\* One step of the specification, or a stutter.
LEMMA NextStep == ASSUME IInv, [Next]_vars PROVE IInv' /\ Final /\ Handed
<1>1. CASE Next
  <2>1. CASE Running
    BY <2>1, SpawnKeeps, SpawnAttachKeeps, SpawnFailsKeeps, FinalizeKeepAliveKeeps,
       FinalizeDoneKeeps, FinalizeDisposeKeeps, FinalizeAbortedKeeps DEF Running
  <2>2. CASE Parking
    BY <2>2, TimerFiresKeeps, ParkCommitKeeps, ParkFinishKeeps DEF Parking
  <2>3. ASSUME NEW c \in Callers, Waking(c) PROVE IInv' /\ Final /\ Handed
    BY <2>3, EnsureLiveKeeps, UseKeeps, KeepSessionKeeps, AfterParkKeeps DEF Waking
  <2>4. ASSUME NEW r \in Refs, Reviving(r) PROVE IInv' /\ Final /\ Handed
    BY <2>4, FactoryAnswersKeeps, ReviverClaimsKeeps, ReviverAttachesKeeps, ReviverFailsKeeps,
       ReviveSettlesKeeps, ReviveFailedKeeps DEF Reviving
  <2>5. ASSUME NEW l \in Releasers, Releasing(l) PROVE IInv' /\ Final /\ Handed
    BY <2>5, KillKeeps, TurnAbortedKeeps, ReleaseAfterParkKeeps, PersistedKeeps,
       PersistFailsKeeps, ReleasedKeeps DEF Releasing
  <2>6. ASSUME NEW s \in Sessions, Living(s) PROVE IInv' /\ Final /\ Handed
    BY <2>6, AgentStartKeeps, AgentEndKeeps, SessionDisposedKeeps DEF Living
  <2>7. ASSUME NEW x \in Scanners, Scanning(x) PROVE IInv' /\ Final /\ Handed
    BY <2>7, ScanCheckKeeps, ScanRegisterKeeps DEF Scanning
  <2> QED
    BY <1>1, <2>1, <2>2, <2>3, <2>4, <2>5, <2>6, <2>7 DEF Next
<1>2. CASE UNCHANGED vars
  <2>1. IInv'
    BY <1>2, Stutters
  <2>2. Handed
    BY <1>2, NobodyAnswered DEF vars, actorVars
  <2>3. Final
    BY <1>2 DEF Final, Dead, vars, registryVars, actorVars, diskVars
  <2> QED
    BY <2>1, <2>2, <2>3
<1> QED
  BY <1>1, <1>2

-----------------------------------------------------------------------------
\* The strengthened invariant holds in every reachable state, for every number of
\* callers, releases, scans, refs and sessions, and every way the run may end.
THEOREM Invariance == Spec => []IInv
<1>1. IInv /\ [Next]_vars => IInv'
  BY NextStep
<1> QED
  BY Initially, <1>1, PTL DEF Spec

\* Every variable keeps its type, and no reference of the registry, of the manager's
\* adoption, park and revival maps dangles.
THEOREM TypeCorrect == Spec => []TypeOK
<1>1. IInv => TypeOK
  BY DEF IInv
<1> QED
  BY Invariance, <1>1, PTL

\* The idle timer of an adopted, idle agent with a session is armed, unless a park is
\* in flight or was cancelled by a caller who has not resumed yet.
THEOREM IdleAgentsAreTimed == Spec => []IdleIsTimed
<1>1. IInv => IdleIsTimed
  BY DEF IInv
<1> QED
  BY Invariance, <1>1, PTL

\* No step hands out a session other than the one the registry leads to, nor one that
\* a park is closing.
THEOREM AnswersAreAttached == Spec => HandsOutAttached
<1>1. IInv /\ [Next]_vars => [Handed]_vars
  BY NextStep
<1>2. Handed <=> \A c \in Callers : Answered(c) =>
                   LET s == call'[c].got IN Attached = s /\ (sess[s] = "live" \/ Expelled(s))
  BY DEF Handed
<1> QED
  BY Invariance, <1>1, <1>2, PTL DEF Spec, HandsOutAttached

\* No step takes an aborted ref back or gives it a session, and none names a usable ref
\* by an id whose tombstone is there, unless a scan had looked for the file before.
THEOREM KillsAreFinal == Spec => DeathIsFinal
<1>1. IInv /\ [Next]_vars => [Final]_vars
  BY NextStep
<1>2. Final <=>
      /\ \A r \in Refs : status[r] = "aborted" =>
            status'[r] = "aborted" /\ session'[r] \in {0, session[r]}
      /\ (Dead /\ \A x \in Scanners : scan[x].pc = "reading" => scan[x].tombstone) => Dead'
  BY DEF Final
<1> QED
  BY Invariance, <1>1, <1>2, PTL DEF Spec, DeathIsFinal

-----------------------------------------------------------------------------
(* One session at a time.  Where two releases overlap, or two scans, there *)
(* may be two; where they come in turn, Sole is what keeps them apart: who *)
(* holds an open session, and that nobody opens one beside it.             *)

\* A release begins only when no other is under way, and one scan reads at a time.
Turnwise ==
    \A l \in Releasers : rel[l].pc = "idle" /\ rel'[l] # rel[l] =>
        \A m \in Releasers : rel[m].pc \in {"idle", "done"}
ScansInTurn ==
    \A x, y \in Scanners : scan[x].pc = "reading" /\ scan[y].pc = "reading" => x = y

Open(s) == sess[s] \in {"live", "disposing"}
AllClosed == \A s \in Sessions : ~Open(s)

\* Before the run has attached its session there is none.
NoneBefore == run.pc \in {"none", "starting"} => \A s \in Sessions : sess[s] = "unused"

\* A scan under way found the id free, and nobody takes it meanwhile.
ScanAlone == \A x \in Scanners : scan[x].pc = "reading" => cur = 0

\* Until the run is over nobody adopts or revives its ref, or attaches another session to
\* it; and while the id is that ref's, no other session is open.
RunAlone ==
    run.pc \in {"active", "oneShot", "isolated"} =>
        /\ run.pc = "active" => run.ref # 0
        /\ run.ref # 0 =>
              /\ adopted.ref # run.ref /\ rev[run.ref] = NoRevival
              /\ owner[run.session] = run.ref
              /\ \/ status[run.ref] = "aborted"
                 \/ /\ status[run.ref] \in {"running", "idle", "parked"}
                    /\ status[run.ref] = "parked" => run.pc = "isolated"
                    /\ session[run.ref] = run.session
              /\ cur = run.ref => \A s \in Sessions : Open(s) => s = run.session

\* What a release waits for is being closed, and no other session is open.
RelAlone ==
    \A l \in Releasers : rel[l].pc = "dispose" =>
        /\ rel[l].live # 0 /\ sess[rel[l].live] \in {"disposing", "disposed"}
        /\ \A s \in Sessions : Open(s) => s = rel[l].live

\* An open session is attached; or it is on its way out, the id is still that of its ref,
\* and a park or a release waits for it.
Held ==
    \A s \in Sessions : Open(s) =>
        \/ Attached = s
        \/ sess[s] = "disposing" /\ park.detached /\ park.session = s /\ cur = park.ref
        \/ /\ sess[s] = "disposing"
           /\ \E l \in Releasers : /\ rel[l].pc = "dispose" /\ rel[l].live = s
                                   /\ cur = rel[l].ref /\ status[cur] = "aborted"

Sole == NoneBefore /\ ScanAlone /\ RunAlone /\ RelAlone /\ Held

LEMMA SoleAtFirst == Init => Sole
BY BoundsAssumption DEF Init, Sole, NoneBefore, ScanAlone, RunAlone, RelAlone, Held, Open, Resting

\* Two sessions are never open at once.
LEMMA AtMostOne ==
    ASSUME IInv, Sole
    PROVE  \A s, t \in Sessions : Open(s) /\ Open(t) => s = t
<1> SUFFICES ASSUME NEW s \in Sessions, NEW t \in Sessions, Open(s), Open(t) PROVE s = t
  OBVIOUS
<1>1. ASSUME NEW u \in Sessions, NEW v \in Sessions, Open(u), Open(v), Attached = u
      PROVE  u = v
  <2>1. ~park.detached
    BY <1>1, Bounds, Empties DEF IInv, ParkKnown
  <2> QED
    BY <1>1, <2>1 DEF Sole, Held, RelAlone
<1>2. (\E l \in Releasers : rel[l].pc = "dispose") => s = t
  BY DEF Sole, RelAlone
<1> QED
  BY <1>1, <1>2 DEF Sole, Held

\* What is live is attached, and what is attached to the id's ref is open alone.
LEMMA OneSessionHere ==
    ASSUME IInv, Sole
    PROVE  OneSession
<1> DEFINE S == {s \in Sessions : sess[s] \in {"live", "disposing"}}
<1>1. \A s, t \in S : s = t
  BY AtMostOne DEF Open
<1> HIDE DEF S
<1>2. Cardinality(S) <= 1
  <2>1. CASE S = {}
    BY <2>1, FS_EmptySet
  <2>2. CASE S # {}
    <3>1. PICK s \in S : TRUE
      BY <2>2
    <3>2. S = {s}
      BY <1>1, <3>1
    <3>3. Cardinality({s}) = 1
      BY FS_Singleton
    <3> QED
      BY <3>2, <3>3
  <2> QED
    BY <2>1, <2>2
<1>3. \A s \in Sessions : sess[s] = "live" => Attached = s
  BY DEF Sole, Held, Open
<1> QED
  BY <1>2, <1>3 DEF OneSession, S

-----------------------------------------------------------------------------
(* Steps that open no session and leave those that are open where they are. *)

Undisturbed ==
    /\ cur' = cur /\ session' = session
    /\ \A s \in Sessions : park.detached /\ park.session = s /\ sess'[s] = "disposing" =>
           park'.detached /\ park'.session = s /\ park'.ref = park.ref
    /\ \A l \in Releasers : rel[l].pc = "dispose" => rel'[l] = rel[l]

Gentle ==
    /\ Undisturbed \/ AllClosed'
    /\ owner' = owner
    /\ run' = run \/ run'.pc = "done" \/ (run.pc = "none" /\ run'.pc = "starting")
    /\ run' = run => /\ session' = session
                     /\ \/ adopted'.ref \in {0, adopted.ref}
                        \/ adopted'.ref \in Refs /\ rev[adopted'.ref] # NoRevival
    /\ \A s \in Sessions : \/ sess'[s] = sess[s]
                           \/ sess[s] = "live" /\ sess'[s] = "disposing"
                           \/ sess[s] = "disposing" /\ sess'[s] = "disposed"
    /\ \A r \in Refs : \/ status'[r] = status[r] \/ status[r] = "unused"
                       \/ status[r] # "aborted" /\ status'[r] \in {"running", "idle"}
    /\ \A r \in Refs : \/ rev'[r] = rev[r] \/ rev[r] # NoRevival
                       \/ r = cur /\ session[r] = 0 /\ status[r] = "parked"
    /\ \A l \in Releasers : rel'[l].pc = "dispose" => rel'[l] = rel[l]
    /\ \A x \in Scanners : scan'[x].pc = "reading" => cur' = 0

LEMMA GentleKeeps ==
    ASSUME IInv, Sole, Gentle
    PROVE  Sole'
<1>t. Fields /\ Links
  BY TypeParts DEF IInv
<1>0. /\ \A s \in Sessions : Open(s)' => Open(s)
      /\ \A s \in Sessions : sess[s] = "unused" => sess'[s] = "unused"
  BY DEF Gentle, Open
<1>1. NoneBefore'
  BY <1>0 DEF Gentle, Sole, NoneBefore
<1>2. ScanAlone'
  BY DEF Gentle, ScanAlone
<1>3. RunAlone'
  <2> SUFFICES ASSUME run'.pc \in {"active", "oneShot", "isolated"} PROVE RunAlone'
    BY DEF RunAlone
  <2>1. run' = run /\ session' = session /\ owner' = owner
    BY DEF Gentle
  <2>2. /\ run.pc = "active" => run.ref # 0
        /\ run.session # 0
    BY <2>1 DEF Sole, RunAlone, IInv, RunKnown
  <2>3. ASSUME run.ref # 0
        PROVE  /\ adopted'.ref # run.ref /\ rev'[run.ref] = NoRevival
               /\ owner[run.session] = run.ref
               /\ \/ status'[run.ref] = "aborted"
                  \/ /\ status'[run.ref] \in {"running", "idle", "parked"}
                     /\ status'[run.ref] = "parked" => run.pc = "isolated"
                     /\ session[run.ref] = run.session
               /\ cur' = run.ref => \A s \in Sessions : Open(s)' => s = run.session
    <3>1. run.ref \in Refs
      BY <1>t, <2>3, Bounds DEF Fields, Runs
    <3>2. /\ adopted.ref # run.ref /\ rev[run.ref] = NoRevival
          /\ owner[run.session] = run.ref
          /\ \/ status[run.ref] = "aborted"
             \/ /\ status[run.ref] \in {"running", "idle", "parked"}
                /\ status[run.ref] = "parked" => run.pc = "isolated"
                /\ session[run.ref] = run.session
          /\ cur = run.ref => \A s \in Sessions : Open(s) => s = run.session
      BY <2>1, <2>3 DEF Sole, RunAlone
    <3>3. adopted'.ref # run.ref
      BY <2>1, <2>3, <3>2 DEF Gentle
    <3>4. rev'[run.ref] = NoRevival
      BY <2>2, <3>1, <3>2 DEF Gentle
    <3>5. \/ status'[run.ref] = "aborted"
          \/ /\ status'[run.ref] \in {"running", "idle", "parked"}
             /\ status'[run.ref] = "parked" => run.pc = "isolated"
             /\ session[run.ref] = run.session
      BY <3>1, <3>2 DEF Gentle
    <3>6. cur' = run.ref => \A s \in Sessions : Open(s)' => s = run.session
      BY <1>0, <3>2 DEF Gentle, Undisturbed, AllClosed
    <3> QED
      BY <3>2, <3>3, <3>4, <3>5, <3>6
  <2> QED
    BY <2>1, <2>2, <2>3 DEF RunAlone
<1>4. RelAlone'
  <2> SUFFICES ASSUME NEW l \in Releasers, rel'[l].pc = "dispose"
               PROVE  /\ rel'[l].live # 0 /\ sess'[rel'[l].live] \in {"disposing", "disposed"}
                      /\ \A s \in Sessions : Open(s)' => s = rel'[l].live
    BY DEF RelAlone
  <2>1. rel'[l] = rel[l]
    BY DEF Gentle
  <2>2. rel[l].live \in Sessions
    BY <1>t, <2>1, Bounds DEF Fields, Releases, Sole, RelAlone
  <2> QED
    BY <1>0, <2>1, <2>2 DEF Sole, RelAlone, Gentle
<1>5. Held'
  <2> SUFFICES ASSUME NEW s \in Sessions, Open(s)'
               PROVE  \/ Attached' = s
                      \/ /\ sess'[s] = "disposing" /\ park'.detached /\ park'.session = s
                         /\ cur' = park'.ref
                      \/ /\ sess'[s] = "disposing"
                         /\ \E l \in Releasers : /\ rel'[l].pc = "dispose" /\ rel'[l].live = s
                                                 /\ cur' = rel'[l].ref /\ status'[cur'] = "aborted"
    BY DEF Held
  <2>1. Undisturbed /\ Open(s) /\ (sess[s] = "disposing" => sess'[s] = "disposing")
    BY <1>0 DEF Gentle, AllClosed, Open
  <2>2. CASE Attached = s
    BY <2>1, <2>2 DEF Attached, Undisturbed
  <2>3. CASE sess[s] = "disposing" /\ park.detached /\ park.session = s /\ cur = park.ref
    BY <2>1, <2>3 DEF Undisturbed
  <2>4. CASE /\ sess[s] = "disposing"
             /\ \E l \in Releasers : /\ rel[l].pc = "dispose" /\ rel[l].live = s
                                     /\ cur = rel[l].ref /\ status[cur] = "aborted"
    <3>1. PICK l \in Releasers : /\ rel[l].pc = "dispose" /\ rel[l].live = s
                                 /\ cur = rel[l].ref /\ status[cur] = "aborted"
      BY <2>4
    <3>2. cur \in Refs
      BY <1>t, <3>1, Bounds DEF Fields, IInv, RelKnown
    <3>3. status'[cur] = "aborted"
      BY <3>1, <3>2 DEF Gentle
    <3> QED
      BY <2>1, <2>4, <3>1, <3>3 DEF Undisturbed
  <2> QED
    BY <2>1, <2>2, <2>3, <2>4 DEF Sole, Held
<1> QED
  BY <1>1, <1>2, <1>3, <1>4, <1>5 DEF Sole

\* The id is free, and no session was ever opened.
LEMMA SpawnAlone == ASSUME IInv, Sole, Spawn PROVE Gentle
<1>1. PICK r \in Refs :
         /\ status[r] = "unused" /\ run.pc = "none" /\ cur' = r
         /\ status' = [status EXCEPT ![r] = "running"]
         /\ run' = [run EXCEPT !.pc = "starting", !.ref = r]
         /\ UNCHANGED <<session, sessionVars, adopted, park, rev, call, rel, scan, diskVars>>
  BY FreshOnes DEF Spawn, IInv
<1>2. /\ run'.pc = "starting" /\ \A q \in Refs : q # r => status'[q] = status[q]
      /\ run' # run
  BY <1>1 DEF IInv, TypeOK
<1>3. AllClosed'
  BY <1>1 DEF AllClosed, Open, Sole, NoneBefore, sessionVars
<1>4. \A x \in Scanners : scan'[x].pc # "reading"
  BY <1>1 DEF IInv, RunKnown
<1> QED
  BY <1>1, <1>2, <1>3, <1>4 DEF Gentle, sessionVars

\* A run that finds its ref taken opens nothing.
LEMMA SpawnFailsAlone == ASSUME IInv, Sole, SpawnFails PROVE Gentle
<1>1. run.pc = "starting" /\ run' = [run EXCEPT !.pc = "done"]
      /\ UNCHANGED <<status, session, sessionVars, park, rev, call, rel, scan, diskVars>>
  BY DEF SpawnFails
<1>2. run'.pc = "done" /\ run' # run
  BY <1>1 DEF IInv, TypeOK
<1>3. AllClosed'
  BY <1>1 DEF AllClosed, Open, Sole, NoneBefore, sessionVars
<1>4. \A x \in Scanners : scan'[x].pc # "reading"
  BY <1>1 DEF IInv, RunKnown
<1> QED
  BY <1>1, <1>2, <1>3, <1>4 DEF Gentle, sessionVars

\* The first session is the only one.
LEMMA SpawnAttachAlone == ASSUME IInv, Sole, SpawnAttach PROVE Sole'
<1>t. Fields /\ Links
  BY TypeParts DEF IInv
<1>0. /\ run.pc = "starting" /\ run.ref \in Refs /\ adopted.ref = 0 /\ rev[run.ref] = NoRevival
      /\ \A x \in Scanners : scan[x].pc = "idle"
      /\ \A s \in Sessions : sess[s] = "unused"
      /\ status[run.ref] # "unused" /\ status[run.ref] \in {"unused", "running", "aborted"}
      /\ UNCHANGED <<park, rev, call, rel, scan, tombstone>>
  BY <1>t, Bounds, Empties DEF SpawnAttach, IInv, RunKnown, Fields, Runs, Sole, NoneBefore
<1>d. \A l \in Releasers : rel[l].pc # "dispose"
  <2> SUFFICES ASSUME NEW l \in Releasers, rel[l].pc = "dispose" PROVE FALSE
    OBVIOUS
  <2>1. rel[l].live \in Sessions /\ sess[rel[l].live] \in {"disposing", "disposed"}
    BY <1>t, Bounds DEF Fields, Releases, Sole, RelAlone
  <2> QED
    BY <1>0, <2>1
<1>1. CASE cur = run.ref /\ status[cur] # "aborted"
  <2>1. PICK s \in Sessions :
            /\ session' = [session EXCEPT ![cur] = s]
            /\ sess' = [sess EXCEPT ![s] = "live"]
            /\ owner' = [owner EXCEPT ![s] = cur]
            /\ run' = [run EXCEPT !.pc = "active", !.session = s]
            /\ UNCHANGED <<cur, status, turn, adopted>>
    BY <1>1, FreshOnes DEF SpawnAttach, IInv
  <2>2. /\ sess'[s] = "live" /\ \A q \in Sessions : q # s => sess'[q] = "unused"
        /\ session'[cur] = s /\ owner'[s] = cur
        /\ run'.pc = "active" /\ run'.session = s /\ run'.ref = run.ref
    BY <1>0, <1>1, <1>t, <2>1 DEF Fields, Runs
  <2>3. NoneBefore' /\ ScanAlone' /\ RelAlone'
    BY <1>0, <1>d, <2>1, <2>2 DEF NoneBefore, ScanAlone, RelAlone
  <2>4. RunAlone'
    BY <1>0, <1>1, <2>1, <2>2, Bounds DEF RunAlone, Open
  <2>5. Held'
    BY <1>0, <1>1, <2>1, <2>2, Bounds DEF Held, Open, Attached
  <2> QED
    BY <2>3, <2>4, <2>5 DEF Sole
<1>2. CASE ~(cur = run.ref /\ status[cur] # "aborted")
  <2>1. run' = [run EXCEPT !.pc = "done"] /\ UNCHANGED <<registryVars, sessionVars, adopted>>
    BY <1>2 DEF SpawnAttach
  <2>2. run'.pc = "done" /\ run' # run
    BY <1>0, <1>t, <2>1 DEF Fields, Runs
  <2>3. Gentle
    BY <1>0, <2>1, <2>2 DEF Gentle, Undisturbed, registryVars, sessionVars
  <2> QED
    BY <2>3, GentleKeeps
<1> QED
  BY <1>1, <1>2

\* Whether it is adopted or disposed of, the run's session stays where it is.
LEMMA FinalizeKeepAliveAlone == ASSUME IInv, Sole, FinalizeKeepAlive PROVE Gentle
<1>t. Fields /\ Links
  BY TypeParts DEF IInv
<1>1. /\ run.pc = "active" /\ run' = [run EXCEPT !.pc = "done"]
      /\ UNCHANGED <<cur, session, owner, turn, synced, park, rev, call, rel, scan, diskVars>>
      /\ \/ /\ cur # 0 /\ status[cur] # "aborted" /\ session[cur] = run.session
            /\ status' = [status EXCEPT ![cur] = "idle"] /\ sess' = sess
         \/ sess' = Disposing(run.session) /\ status' = status
  BY DEF FinalizeKeepAlive, OwnsRef
<1>2. run'.pc = "done" /\ run' # run /\ run.session \in 0 .. MaxSessions
  BY <1>1, <1>t DEF Fields, Runs
<1>3. \A s \in Sessions : sess'[s] = sess[s] \/ (sess[s] = "live" /\ sess'[s] = "disposing")
  BY <1>1, <1>t DEF Fields, Disposing
<1>4. \A r \in Refs : \/ status'[r] = status[r]
                      \/ status[r] # "aborted" /\ status'[r] = "idle"
  BY <1>1, <1>t DEF Fields
<1>5. \A x \in Scanners : scan'[x].pc = "reading" => cur' = 0
  BY <1>1 DEF Sole, ScanAlone
<1> QED
  BY <1>1, <1>2, <1>3, <1>4, <1>5 DEF Gentle, Undisturbed

\* Nothing else is open when the run's session is gone.
LEMMA FinalizeDoneAlone == ASSUME IInv, Sole, FinalizeDone PROVE Gentle
<1>t. Fields /\ Links
  BY TypeParts DEF IInv
<1>1. /\ run.pc \in {"oneShot", "isolated"} /\ Gone(run.session)
      /\ run' = [run EXCEPT !.pc = "done"]
      /\ UNCHANGED <<status, sessionVars, park, rev, call, rel, scan, diskVars>>
  BY DEF FinalizeDone
<1>2. run'.pc = "done" /\ run' # run
  BY <1>1, <1>t DEF Fields, Runs
<1>3. \/ cur' = cur /\ session' = session
      \/ cur = run.ref /\ run.ref # 0 /\ cur' \in {0, cur}
  BY <1>1 DEF FinalizeDone, Unregister
<1>4. cur = run.ref /\ run.ref # 0 => AllClosed'
  BY <1>1 DEF Sole, RunAlone, AllClosed, Open, Gone, sessionVars
<1>5. Undisturbed \/ AllClosed'
  BY <1>1, <1>3, <1>4 DEF Undisturbed
<1>6. \A x \in Scanners : scan'[x].pc = "reading" => cur' = 0
  BY <1>1, <1>3 DEF Sole, ScanAlone
<1> QED
  BY <1>1, <1>2, <1>5, <1>6 DEF Gentle, sessionVars

\* The session of a run that disposes of it stays attached.
LEMMA FinalizeDisposeAlone ==
    ASSUME IInv, Sole, NEW mode \in {"oneShot", "isolated"}, FinalizeDispose(mode) PROVE Sole'
<1>t. Fields /\ Links /\ TypeOK
  BY TypeParts DEF IInv
<1>1. /\ run.pc = "active"
      /\ run' = [run EXCEPT !.pc = mode, !.ref = IF OwnsRef THEN cur ELSE 0]
      /\ IF mode = "isolated" /\ OwnsRef
         THEN SetStatus(adopted, cur, "parked", TRUE)
         ELSE UNCHANGED <<status, adopted>>
      /\ sess' = Disposing(run.session)
      /\ UNCHANGED <<cur, session, owner, turn, synced, park, rev, call, rel, scan, diskVars>>
  BY DEF FinalizeDispose
<1>2. /\ run.ref \in Refs /\ run.session \in Sessions /\ run.session \in 0 .. MaxSessions
      /\ adopted.ref # run.ref /\ rev[run.ref] = NoRevival
      /\ owner[run.session] = run.ref
      /\ \/ status[run.ref] = "aborted"
         \/ status[run.ref] \in {"running", "idle"} /\ session[run.ref] = run.session
      /\ cur = run.ref => \A s \in Sessions : Open(s) => s = run.session
  BY <1>1, <1>t, Bounds DEF Sole, RunAlone, IInv, RunKnown, Fields, Runs
<1>3. /\ OwnsRef => cur = run.ref
      /\ run'.pc = mode /\ run'.session = run.session
      /\ run'.ref = IF OwnsRef THEN cur ELSE 0
  <2>1. OwnsRef => cur = run.ref
    BY <1>2, <1>t, Bounds DEF OwnsRef, Fields, Links
  <2> QED
    BY <1>1, <1>t, <2>1 DEF Fields, Runs
<1>4. /\ \A s \in Sessions : \/ sess'[s] = sess[s]
                             \/ sess[s] = "live" /\ sess'[s] = "disposing"
      /\ \A s \in Sessions : Open(s)' => Open(s)
  BY <1>1, <1>2, <1>t DEF Fields, Disposing, Open
<1>5. /\ \A r \in Refs : r # run.ref \/ ~OwnsRef => status'[r] = status[r]
      /\ \A r \in Refs : status[r] = "aborted" => status'[r] = "aborted"
      /\ OwnsRef => status'[run.ref] \in {status[run.ref]} \cup
                        (IF mode = "isolated" THEN {"parked"} ELSE {})
      /\ adopted'.ref = adopted.ref
  <2>1. CASE mode = "isolated" /\ OwnsRef
    <3>1. "parked" \in Statuses /\ cur = run.ref /\ SetStatus(adopted, run.ref, "parked", TRUE)
      BY <1>1, <1>3, <2>1 DEF Statuses
    <3>0. TypeOK /\ run.ref \in Refs
      BY <1>t, <1>2
    <3>2. /\ \A q \in Refs : q # run.ref => status'[q] = status[q]
          /\ status'[run.ref] \in {status[run.ref], "parked"}
          /\ status[run.ref] = "aborted" => status'[run.ref] = "aborted"
          /\ adopted'.ref = adopted.ref
      BY ONLY <3>0, <3>1, StatusIsSet
    <3> QED
      BY <1>2, <2>1, <3>2
  <2>2. CASE ~(mode = "isolated" /\ OwnsRef)
    BY <1>1, <2>2
  <2> QED
    BY <2>1, <2>2
<1>6. NoneBefore' /\ ScanAlone'
  BY <1>1, <1>3 DEF NoneBefore, ScanAlone, Sole
<1>7. RunAlone'
  <2>1. CASE ~OwnsRef
    BY <1>3, <2>1 DEF RunAlone
  <2>2. CASE OwnsRef
    <3>1. /\ run'.ref = run.ref /\ session[run.ref] = run.session /\ rev' = rev /\ cur' = cur
          /\ owner' = owner /\ session' = session
      BY <1>1, <1>3, <2>2 DEF OwnsRef
    <3>2. \/ status'[run.ref] = "aborted"
          \/ /\ status'[run.ref] \in {"running", "idle", "parked"}
             /\ status'[run.ref] = "parked" => mode = "isolated"
      BY <1>2, <1>5, <2>2
    <3> QED
      BY <1>2, <1>3, <1>4, <1>5, <3>1, <3>2 DEF RunAlone
  <2> QED
    BY <2>1, <2>2
<1>8. RelAlone'
  <2> SUFFICES ASSUME NEW l \in Releasers, rel[l].pc = "dispose"
               PROVE  /\ rel[l].live # 0 /\ sess'[rel[l].live] \in {"disposing", "disposed"}
                      /\ \A s \in Sessions : Open(s)' => s = rel[l].live
    BY <1>1 DEF RelAlone
  <2>1. rel[l].live \in Sessions
    BY <1>t, Bounds DEF Fields, Releases, Sole, RelAlone
  <2> QED
    BY <1>4, <2>1 DEF Sole, RelAlone
<1>9. Held'
  <2>1. \A r \in Refs : status[r] = "aborted" => status'[r] = "aborted"
    BY <1>5
  <2>2. \A l \in Releasers : rel[l].pc = "dispose" /\ cur = rel[l].ref => cur \in Refs
    BY <1>t, Bounds DEF Fields, IInv, RelKnown
  <2> QED
    BY <1>1, <1>4, <2>1, <2>2 DEF Sole, Held, Open, Attached
<1> QED
  BY <1>6, <1>7, <1>8, <1>9 DEF Sole

-----------------------------------------------------------------------------
(* Parking and waking. *)

\* Starting a park moves nothing.
LEMMA TimerFiresAlone == ASSUME IInv, Sole, TimerFires PROVE Gentle
<1>t. Fields /\ Links
  BY TypeParts DEF IInv
<1>1. /\ adopted' = [adopted EXCEPT !.timer = FALSE]
      /\ park' = IF park = NoPark /\ adopted.ref = cur /\ session[cur] # 0
                 THEN [NoPark EXCEPT !.ref = cur, !.session = session[cur]] ELSE park
      /\ UNCHANGED <<registryVars, sessionVars, rev, actorVars, diskVars>>
  BY DEF TimerFires
<1>2. adopted'.ref = adopted.ref
  BY <1>1, <1>t DEF Fields, Adoptions
<1>3. park.detached => park' = park
  BY <1>1, Empties
<1> QED
  BY <1>1, <1>2, <1>3 DEF Gentle, Undisturbed, Sole, ScanAlone, registryVars, sessionVars,
     actorVars

\* A park that commits takes the session from the ref, and waits for it to close.
LEMMA ParkCommitAlone == ASSUME IInv, Sole, ParkCommit PROVE Sole'
<1>t. Fields /\ Links /\ TypeOK
  BY TypeParts DEF IInv
<1>0. /\ park # NoPark /\ ~park.detached
      /\ UNCHANGED <<cur, owner, turn, synced, rev, actorVars, diskVars>>
  BY DEF ParkCommit
<1>1. CASE /\ cur = park.ref /\ session[cur] = park.session /\ adopted.ref = park.ref
           /\ park' = [park EXCEPT !.detached = TRUE]
           /\ session' = [session EXCEPT ![cur] = 0]
           /\ SetStatus(adopted, cur, "parked", TRUE)
           /\ sess' = Disposing(park.session)
  <2>1. /\ cur \in Refs /\ park.session \in Sessions /\ park.session \in 0 .. MaxSessions
        /\ Attached = park.session
    BY <1>0, <1>1, <1>t, Bounds DEF IInv, ParkKnown, Fields, Links, Parks, Attached
  <2>2. /\ park'.detached /\ park'.session = park.session /\ park'.ref = park.ref
        /\ session'[cur] = 0 /\ \A q \in Refs : q # cur => session'[q] = session[q]
    BY <1>1, <1>t, <2>1 DEF Fields, Parks
  <2>3. /\ \A q \in Refs : q # cur => status'[q] = status[q]
        /\ adopted'.ref = adopted.ref
        /\ status[cur] # "aborted"
    <3>1. "parked" \in Statuses
      BY DEF Statuses
    <3>2. SetStatus(adopted, cur, "parked", TRUE)
      BY <1>1
    <3>3. /\ \A q \in Refs : q # cur => status'[q] = status[q]
          /\ adopted'.ref = adopted.ref
      BY ONLY <1>t, <2>1, <3>1, <3>2, StatusIsSet
    <3>4. status[cur] # "aborted"
      BY <1>1, <2>1, Bounds DEF IInv, RefsKnown
    <3> QED
      BY <3>3, <3>4
  <2>4. /\ \A s \in Sessions : sess'[s] = sess[s] \/ (sess[s] = "live" /\ sess'[s] = "disposing")
        /\ \A s \in Sessions : Open(s)' => Open(s)
        /\ sess'[park.session] # "live"
    BY <1>1, <1>t, <2>1, Bounds DEF Fields, Disposing, Open
  <2>5. NoneBefore' /\ ScanAlone'
    BY <1>0, <2>4 DEF NoneBefore, ScanAlone, Sole, actorVars
  <2>6. RunAlone'
    <3> SUFFICES ASSUME run.pc \in {"active", "oneShot", "isolated"} PROVE RunAlone'
      BY <1>0 DEF RunAlone, actorVars
    <3>1. run.ref # 0 => run.ref \in Refs /\ run.ref # cur
      BY <1>1, <1>t, Bounds DEF Sole, RunAlone, Fields, Runs
    <3>2. run' = run /\ owner' = owner /\ rev' = rev /\ cur' = cur
      BY <1>0 DEF actorVars
    <3> QED
      BY <2>2, <2>3, <2>4, <3>1, <3>2 DEF Sole, RunAlone
  <2>7. RelAlone'
    <3> SUFFICES ASSUME NEW l \in Releasers, rel[l].pc = "dispose"
                 PROVE  /\ rel[l].live # 0 /\ sess'[rel[l].live] \in {"disposing", "disposed"}
                        /\ \A s \in Sessions : Open(s)' => s = rel[l].live
      BY <1>0 DEF RelAlone, actorVars
    <3>1. rel[l].live \in Sessions
      BY <1>t, Bounds DEF Fields, Releases, Sole, RelAlone
    <3> QED
      BY <2>4, <3>1 DEF Sole, RelAlone
  <2>8. Held'
    <3> SUFFICES ASSUME NEW s \in Sessions, Open(s)'
                 PROVE  sess'[s] = "disposing" /\ park'.detached /\ park'.session = s
                        /\ cur' = park'.ref
      BY DEF Held
    <3>1. Attached = s
      BY <1>0, <2>3, <2>4 DEF Sole, Held
    <3> QED
      BY <1>0, <1>1, <2>1, <2>2, <2>4, <3>1 DEF Open
  <2> QED
    BY <2>5, <2>6, <2>7, <2>8 DEF Sole
<1>2. CASE park' = NoPark /\ UNCHANGED <<session, status, adopted, sess>>
  <2>1. Gentle
    BY <1>0, <1>2 DEF Gentle, Undisturbed, Sole, ScanAlone, actorVars
  <2> QED
    BY <2>1, GentleKeeps
<1> QED
  BY <1>1, <1>2 DEF ParkCommit

LEMMA ParkFinishAlone == ASSUME IInv, Sole, ParkFinish PROVE Gentle
BY DEF ParkFinish, Gone, Gentle, Undisturbed, Sole, ScanAlone, registryVars, sessionVars, actorVars

\* A caller that is answered, waits or starts a revival opens no session.
Resolves(c) ==
    /\ \/ rev' = rev
       \/ Resolve(c)
    /\ adopted'.ref = adopted.ref /\ (park' = park \/ ~park.detached)
    /\ UNCHANGED <<registryVars, sessionVars, rel, scan, run, diskVars>>

LEMMA ResolvesAlone ==
    ASSUME IInv, Sole, NEW c \in Callers, Resolves(c) PROVE Gentle
<1>t. Fields /\ Links
  BY TypeParts DEF IInv
<1>1. \A r \in Refs : \/ rev'[r] = rev[r]
                      \/ r = cur /\ session[r] = 0 /\ status[r] = "parked"
  <2>1. CASE rev' = rev
    BY <2>1
  <2>2. CASE Resolve(c)
    BY <1>t, <2>2, Resolving
  <2> QED
    BY <2>1, <2>2 DEF Resolves
<1>2. /\ adopted'.ref = adopted.ref /\ (park.detached => park' = park)
      /\ UNCHANGED <<registryVars, sessionVars, rel, scan, run, diskVars>>
  BY DEF Resolves
<1> QED
  BY <1>1, <1>2 DEF Gentle, Undisturbed, Sole, ScanAlone, registryVars, sessionVars

LEMMA WakingAlone == ASSUME IInv, Sole, NEW c \in Callers, Waking(c) PROVE Gentle
<1>t. Fields /\ Links
  BY TypeParts DEF IInv
<1>1. CASE EnsureLive(c)
  <2>1. CASE park = NoPark
    BY <1>1, <2>1, ResolvesAlone DEF EnsureLive, Resolves
  <2>2. CASE park # NoPark
    <3>1. rev' = rev /\ UNCHANGED <<registryVars, sessionVars, adopted, rel, scan, run, diskVars>>
      BY <1>1, <2>2 DEF EnsureLive
    <3>2. park' = [park EXCEPT !.cancelled = @ \/ (Attached # 0 /\ ~park.detached)]
      BY <1>1, <2>2 DEF EnsureLive
    <3>3. park.detached => park' = park
      BY <1>t, <3>2 DEF Fields, Parks
    <3> QED
      BY <3>1, <3>3, ResolvesAlone DEF Resolves
  <2> QED
    BY <2>1, <2>2
<1>2. CASE Use(c)
  BY <1>2, ResolvesAlone DEF Use, Resolves
<1>3. CASE KeepSession(c)
  <2>1. adopted'.ref = adopted.ref /\ (rev' = rev \/ Resolve(c))
    BY <1>3, <1>t DEF KeepSession, Fields, Adoptions
  <2> QED
    BY <1>3, <2>1, ResolvesAlone DEF KeepSession, Resolves
<1>4. CASE AfterPark(c)
  BY <1>4, ResolvesAlone DEF AfterPark, Resolves
<1> QED
  BY <1>1, <1>2, <1>3, <1>4 DEF Waking

-----------------------------------------------------------------------------
(* Revivals. *)

\* A revival that goes on without attaching anything leaves the open session alone.
LEMMA RevivalAlone ==
    ASSUME IInv, Sole, NEW r \in Refs, rev[r] # NoRevival,
           \A q \in Refs : q # r => rev'[q] = rev[q],
           adopted'.ref \in {0, adopted.ref, r},
           \A s \in Sessions : \/ sess'[s] = sess[s]
                               \/ sess[s] = "live" /\ sess'[s] = "disposing",
           \A q \in Refs : \/ status'[q] = status[q]
                           \/ status[q] = "running" /\ status'[q] = "idle",
           UNCHANGED <<cur, session, owner, park, rel, scan, run>>
    PROVE  Gentle
BY DEF Gentle, Undisturbed, Sole, ScanAlone

LEMMA RevivingAlone ==
    ASSUME IInv, Sole, NEW r \in Refs, Reviving(r), ~ReviverAttaches(r) PROVE Gentle
<1>t. Fields /\ Links /\ TypeOK
  BY TypeParts DEF IInv
<1>0. /\ \A s \in 0 .. MaxSessions : Settle(r, s) => \A q \in Refs : q # r => rev'[q] = rev[q]
      /\ adopted' = DropCold(r) => adopted'.ref \in {0, adopted.ref}
      /\ \A p \in {"build", "claimed", "failing"} : rev' = [rev EXCEPT ![r].phase = p] =>
            \A q \in Refs : q # r => rev'[q] = rev[q]
  <2>1. \A s \in 0 .. MaxSessions : Settle(r, s) => \A q \in Refs : q # r => rev'[q] = rev[q]
    BY <1>t, Settling
  <2>2. adopted' = DropCold(r) => adopted'.ref \in {0, adopted.ref}
    BY Empties DEF DropCold
  <2> QED
    BY <1>t, <2>1, <2>2 DEF Fields
<1>1. ASSUME NEW able \in BOOLEAN, FactoryAnswers(r, able) PROVE Gentle
  <2>1. /\ rev[r] # NoRevival /\ adopted'.ref \in {adopted.ref, r}
        /\ UNCHANGED <<registryVars, sessionVars, park, rel, scan, run, diskVars>>
    BY <1>1, Empties DEF FactoryAnswers
  <2>2. \A q \in Refs : q # r => rev'[q] = rev[q]
    BY <1>0, <1>1, <1>t, Bounds DEF FactoryAnswers, Fields
  <2> QED
    BY <2>1, <2>2, RevivalAlone DEF registryVars, sessionVars
<1>2. CASE ReviverClaims(r)
  <2>1. /\ rev[r] # NoRevival /\ adopted'.ref \in {0, adopted.ref}
        /\ UNCHANGED <<registryVars, sessionVars, park, rel, scan, run, diskVars>>
    BY <1>0, <1>2, Empties DEF ReviverClaims
  <2>2. \A q \in Refs : q # r => rev'[q] = rev[q]
    BY <1>0, <1>2, Bounds DEF ReviverClaims
  <2> QED
    BY <2>1, <2>2, RevivalAlone DEF registryVars, sessionVars
<1>3. CASE ReviverFails(r)
  <2>1. /\ rev[r] # NoRevival /\ adopted'.ref \in {0, adopted.ref}
        /\ sess' = sess \/ sess' = Disposing(rev[r].session)
        /\ UNCHANGED <<registryVars, owner, turn, synced, park, rel, scan, run, diskVars>>
    BY <1>0, <1>3, Empties DEF ReviverFails
  <2>2. \A q \in Refs : q # r => rev'[q] = rev[q]
    BY <1>0, <1>3, Bounds DEF ReviverFails
  <2>3. \A s \in Sessions : sess'[s] = sess[s] \/ (sess[s] = "live" /\ sess'[s] = "disposing")
    BY <1>t, <2>1 DEF Fields, Disposing
  <2> QED
    BY <2>1, <2>2, <2>3, RevivalAlone DEF registryVars
<1>4. CASE ReviveSettles(r)
  <2>1. /\ rev[r] # NoRevival /\ rev[r].session \in 0 .. MaxSessions
        /\ UNCHANGED <<cur, session, owner, turn, park, rel, scan, run, diskVars>>
    BY <1>4, <1>t, Empties DEF ReviveSettles, Fields, Revivals
  <2>2. \A q \in Refs : q # r => rev'[q] = rev[q]
    BY <1>0, <1>4, <2>1 DEF ReviveSettles
  <2>3. \A s \in Sessions : sess'[s] = sess[s] \/ (sess[s] = "live" /\ sess'[s] = "disposing")
    BY <1>4, <1>t, <2>1 DEF ReviveSettles, Fields, Disposing
  <2>4. /\ adopted'.ref = adopted.ref
        /\ \A q \in Refs : \/ status'[q] = status[q]
                           \/ status[q] = "running" /\ status'[q] = "idle"
    <3>1. CASE status' = status /\ adopted' = adopted
      BY <3>1
    <3>2. CASE SetStatus(adopted, r, "idle", TRUE) /\ status[r] = "running"
      <4>1. "idle" \in Statuses
        BY DEF Statuses
      <4> QED
        BY <1>t, <3>2, <4>1, StatusIsSet
    <3> QED
      BY <1>4, <3>1, <3>2 DEF ReviveSettles
  <2> QED
    BY <2>1, <2>2, <2>3, <2>4, RevivalAlone
<1>5. CASE ReviveFailed(r)
  <2>1. /\ rev[r] # NoRevival /\ adopted'.ref \in {0, adopted.ref}
        /\ UNCHANGED <<registryVars, sessionVars, park, rel, scan, run, diskVars>>
    BY <1>0, <1>5, Empties DEF ReviveFailed
  <2>2. \A q \in Refs : q # r => rev'[q] = rev[q]
    BY <1>0, <1>5, Bounds DEF ReviveFailed
  <2> QED
    BY <2>1, <2>2, RevivalAlone DEF registryVars, sessionVars
<1> QED
  BY <1>1, <1>2, <1>3, <1>4, <1>5 DEF Reviving

\* While a revival of the current ref is under way no session is open.
LEMMA NoneWhileReviving ==
    ASSUME IInv, Sole, Macrotask, NEW r \in Refs, rev[r].phase = "claimed", cur = r,
           status[r] # "aborted"
    PROVE  AllClosed /\ \A l \in Releasers : rel[l].pc # "dispose"
<1>1. session[cur] = 0 /\ Attached = 0 /\ ~park.detached
  BY AtRest, Bounds, Empties DEF IInv, RefsKnown, Early, ParkKnown, Attached
<1>2. AllClosed
  BY <1>1, Bounds DEF Sole, Held, AllClosed
<1>3. \A l \in Releasers : rel[l].pc # "dispose"
  <2> SUFFICES ASSUME NEW l \in Releasers, rel[l].pc = "dispose" PROVE FALSE
    OBVIOUS
  <2>1. rel[l].live # 0 /\ sess[rel[l].live] \in {"disposing", "disposed"}
    BY DEF Sole, RelAlone
  <2>2. rel[l].live \in Sessions
    BY <2>1, TypeParts, Bounds DEF IInv, Fields, Releases
  <2>3. Gone(rel[l].live)
    BY <1>2, <2>1, <2>2 DEF AllClosed, Open, Gone
  <2> QED
    BY <2>3, AtRest DEF Quiet
<1> QED
  BY <1>2, <1>3

\* So the one it attaches is the only one.
LEMMA ReviverAttachesAlone ==
    ASSUME IInv, Sole, NEW r \in Refs, ReviverAttaches(r) PROVE Sole'
<1>t. Fields /\ Links /\ TypeOK
  BY TypeParts DEF IInv
<1>0. /\ Macrotask /\ rev[r].phase = "claimed" /\ rev[r] # NoRevival
      /\ UNCHANGED <<cur, turn, synced, park, rel, scan, run, diskVars>>
  BY Empties DEF ReviverAttaches
<1>1. CASE cur = r /\ status[r] # "aborted"
  <2>1. PICK s \in Sessions :
           /\ sess[s] = "unused" /\ session' = [session EXCEPT ![r] = s]
           /\ SetStatus(adopted, r, "running", TRUE)
           /\ sess' = [sess EXCEPT ![s] = "live"]
           /\ owner' = [owner EXCEPT ![s] = r]
           /\ rev' = [rev EXCEPT ![r].phase = "attached", ![r].session = s]
    BY <1>1, <1>t, FreshOnes DEF ReviverAttaches
  <2>2. AllClosed /\ \A l \in Releasers : rel[l].pc # "dispose"
    BY <1>0, <1>1, NoneWhileReviving
  <2>3. /\ sess'[s] = "live" /\ \A q \in Sessions : q # s => sess'[q] = sess[q]
        /\ \A q \in Sessions : Open(q)' => q = s
        /\ \A q \in Sessions : q # s => owner'[q] = owner[q]
        /\ session'[r] = s /\ \A q \in Refs : q # r => session'[q] = session[q]
        /\ \A q \in Refs : q # r => rev'[q] = rev[q]
    <3>1. \A q \in Refs : q # r => rev'[q] = rev[q]
      BY <1>t, <2>1 DEF Fields
    <3>2. /\ sess'[s] = "live" /\ \A q \in Sessions : q # s => sess'[q] = sess[q]
          /\ \A q \in Sessions : q # s => owner'[q] = owner[q]
          /\ session'[r] = s /\ \A q \in Refs : q # r => session'[q] = session[q]
      BY <1>t, <2>1 DEF Fields
    <3> QED
      BY <2>2, <3>1, <3>2 DEF Open, AllClosed
  <2>4. adopted'.ref = adopted.ref /\ \A q \in Refs : q # r => status'[q] = status[q]
    <3>1. "running" \in Statuses /\ SetStatus(adopted, r, "running", TRUE)
      BY <2>1 DEF Statuses
    <3> QED
      BY ONLY <1>t, <3>1, r \in Refs, StatusIsSet
  <2>5. NoneBefore' /\ ScanAlone' /\ RelAlone'
    <3>1. run.pc \notin {"none", "starting"}
      BY <1>0 DEF IInv, RunKnown
    <3> QED
      BY <1>0, <2>2, <3>1 DEF NoneBefore, ScanAlone, RelAlone, Sole
  <2>6. RunAlone'
    <3> SUFFICES ASSUME run.pc \in {"active", "oneShot", "isolated"} PROVE RunAlone'
      BY <1>0 DEF RunAlone
    <3>1. run.session \in Sessions /\ run.session # s
      BY <1>t, <2>1, Bounds DEF IInv, RunKnown, Fields, Runs
    <3>2. run.ref # 0 => run.ref \in Refs /\ run.ref # r
      BY <1>0, <1>t, Bounds DEF Sole, RunAlone, Fields, Runs
    <3> QED
      BY <1>0, <1>1, <2>3, <2>4, <3>1, <3>2 DEF Sole, RunAlone
  <2>7. Held'
    BY <1>0, <1>1, <2>3, Bounds DEF Held, Attached
  <2> QED
    BY <2>5, <2>6, <2>7 DEF Sole
<1>2. CASE ~(cur = r /\ status[r] # "aborted")
  <2>1. Settle(r, 0) /\ adopted' = DropCold(r) /\ UNCHANGED <<status, session, sess, owner>>
    BY <1>2 DEF ReviverAttaches
  <2>2. (\A q \in Refs : q # r => rev'[q] = rev[q]) /\ adopted'.ref \in {0, adopted.ref}
    BY <1>t, <2>1, Settling, Bounds, Empties DEF DropCold
  <2>3. Gentle
    BY <1>0, <2>1, <2>2, RevivalAlone
  <2> QED
    BY <2>3, GentleKeeps
<1> QED
  BY <1>1, <1>2

-----------------------------------------------------------------------------
(* Sessions and scans. *)

\* A turn that starts or ends sets the status of what is attached, and no more.
LEMMA TurnAlone ==
    ASSUME IInv, Sole, NEW st \in {"running", "idle"},
           \/ cur # 0 /\ SetStatus(adopted, cur, st, TRUE)
           \/ UNCHANGED <<status, adopted>>,
           \A m \in Releasers : \/ rel'[m] = rel[m]
                                \/ rel[m].pc = "abort" /\ rel'[m].pc = "aborted",
           UNCHANGED <<cur, session, sess, owner, park, rev, scan, run>>
    PROVE  Gentle
<1>t. Fields /\ Links /\ TypeOK
  BY TypeParts DEF IInv
<1>1. /\ adopted'.ref = adopted.ref
      /\ \A r \in Refs : \/ status'[r] = status[r]
                         \/ status[r] # "aborted" /\ status'[r] \in {"running", "idle"}
  <2>1. CASE cur # 0 /\ SetStatus(adopted, cur, st, TRUE)
    <3>1. cur \in Refs /\ st \in Statuses
      BY <1>t, <2>1, Bounds DEF Fields, Statuses
    <3> QED
      BY <1>t, <2>1, <3>1, StatusIsSet
  <2> QED
    BY <2>1
<1> QED
  BY <1>1 DEF Gentle, Undisturbed, Sole, ScanAlone

\* What a disposal leaves is that no session is open.
LEMMA SessionDisposedAlone ==
    ASSUME IInv, Sole, NEW s \in Sessions, SessionDisposed(s) PROVE Gentle
<1>t. Fields /\ Links
  BY TypeParts DEF IInv
<1>1. /\ sess[s] = "disposing" /\ sess' = [sess EXCEPT ![s] = "disposed"] /\ TurnOver(s)
      /\ UNCHANGED <<status, session, owner, synced, park, rev, call, scan, run, diskVars>>
  BY DEF SessionDisposed
<1>2. sess'[s] = "disposed" /\ \A q \in Sessions : q # s => sess'[q] = sess[q]
  BY <1>1, <1>t DEF Fields
<1>3. AllClosed'
  BY <1>1, <1>2, AtMostOne DEF AllClosed, Open
<1>4. \A m \in Releasers : rel'[m].pc = "dispose" => rel'[m] = rel[m]
  BY <1>1, <1>t, TurnsOver
<1>5. cur' \in {0, cur} /\ adopted'.ref \in {0, adopted.ref}
  BY Empties DEF SessionDisposed, Unregister, OnRemoved
<1> QED
  BY <1>1, <1>2, <1>3, <1>4, <1>5 DEF Gentle, Sole, ScanAlone

LEMMA LivingAlone ==
    ASSUME IInv, Sole, NEW s \in Sessions, Living(s) PROVE Gentle
<1>t. Fields /\ Links
  BY TypeParts DEF IInv
<1>0. Attached = s => cur # 0
  BY Bounds DEF Attached
<1>1. CASE AgentStart(s)
  BY <1>0, <1>1, TurnAlone DEF AgentStart
<1>2. CASE AgentEnd(s)
  <2>1. \A m \in Releasers : \/ rel'[m] = rel[m]
                             \/ rel[m].pc = "abort" /\ rel'[m].pc = "aborted"
    BY <1>2, <1>t, TurnsOver DEF AgentEnd
  <2> QED
    BY <1>0, <1>2, <2>1, TurnAlone DEF AgentEnd
<1> QED
  BY <1>1, <1>2, SessionDisposedAlone DEF Living

\* A scan finds the id free, and registers before another has begun to read.
LEMMA ScanningAlone ==
    ASSUME IInv, Sole, ScansInTurn, NEW x \in Scanners, Scanning(x) PROVE Gentle
<1>t. Fields /\ Links /\ TypeOK
  BY TypeParts DEF IInv
<1>1. CASE ScanCheck(x)
  <2>1. cur = 0 /\ UNCHANGED <<registryVars, sessionVars, adopted, park, rev, call, rel, run>>
    BY <1>1 DEF ScanCheck
  <2> QED
    BY <2>1 DEF Gentle, Undisturbed, registryVars, sessionVars
<1>2. CASE ScanRegister(x)
  <2>1. PICK r \in Refs :
          /\ status[r] = "unused" /\ scan[x].pc = "reading"
          /\ scan' = [scan EXCEPT ![x] = [pc |-> "idle", tombstone |-> FALSE]]
          /\ status' = [status EXCEPT ![r] = IF scan[x].tombstone THEN "aborted" ELSE "parked"]
          /\ UNCHANGED <<session, sessionVars, adopted, park, rev, call, rel, run, diskVars>>
    BY <1>2, <1>t, FreshOnes DEF ScanRegister
  <2>2. cur = 0 /\ Attached = 0
    BY <2>1 DEF Sole, ScanAlone, Attached
  <2>3. AllClosed'
    <3>1. park.detached => park.ref # 0
      BY <1>t, Empties DEF Links
    <3> QED
      BY <2>1, <2>2, <3>1, Bounds DEF Sole, Held, AllClosed, Open, IInv, RelKnown, sessionVars
  <2>4. \A y \in Scanners : scan'[y].pc # "reading"
    BY <1>t, <2>1 DEF Fields, ScansInTurn
  <2>5. \A q \in Refs : status'[q] = status[q] \/ status[q] = "unused"
    BY <1>t, <2>1 DEF Fields
  <2> QED
    BY <2>1, <2>3, <2>4, <2>5 DEF Gentle, sessionVars
<1> QED
  BY <1>1, <1>2 DEF Scanning

-----------------------------------------------------------------------------
(* Releases. *)

\* No release waits for a disposal.
NoneDisposes == \A l \in Releasers : rel[l].pc # "dispose"

\* A release that no park delays either goes on to write the tombstone, or frees an id
\* that leads to no session, or waits for the session that is attached.
LEMMA RestAlone ==
    ASSUME IInv, Sole, NoneDisposes, NEW l \in Releasers, NEW r \in Refs,
           NEW kind \in {"none", "kill", "cancel", "finalize"}, ReleaseRest(l, r, kind),
           park = NoPark \/ park.ref # r, park' = park,
           \A m \in Releasers : m # l => rel'[m] = rel[m],
           run' = run \/ run'.pc = "done", adopted'.ref \in {0, adopted.ref},
           UNCHANGED <<status, session, owner, rev, scan>>
    PROVE  Sole'
<1>t. Fields /\ Links
  BY TypeParts DEF IInv
<1>0. l \in Releasers /\ rel \in [Releasers -> Releases] /\ r # 0
  BY <1>t, Bounds DEF Fields
<1> DEFINE live == IF cur = r THEN session[r] ELSE 0
<1>1. CASE Tombstoned(kind)
  <2>1. cur' = cur /\ sess' = sess /\ rel'[l].pc = "persist"
    BY <1>0, <1>1 DEF ReleaseRest
  <2>2. Gentle
    BY <2>1 DEF Gentle, Undisturbed, NoneDisposes, Sole, ScanAlone
  <2> QED
    BY <2>2, GentleKeeps
<1>2. CASE ~Tombstoned(kind) /\ live = 0
  <2>1. /\ sess' = sess /\ rel'[l].pc = "done"
        /\ cur' = IF cur = r THEN 0 ELSE cur
    BY <1>0, <1>2, Empties DEF ReleaseRest, Disposing
  <2>2. cur = r => AllClosed'
    <3> SUFFICES ASSUME cur = r PROVE AllClosed
      BY <2>1 DEF AllClosed, Open
    <3>1. Attached = 0
      BY <1>2 DEF Attached
    <3>2. ~(park.detached /\ cur = park.ref)
      BY Empties
    <3> QED
      BY <3>1, <3>2, Bounds DEF Sole, Held, AllClosed, NoneDisposes
  <2>3. Gentle
    BY <2>1, <2>2 DEF Gentle, Undisturbed, NoneDisposes, Sole, ScanAlone
  <2> QED
    BY <2>3, GentleKeeps
<1>3. CASE ~Tombstoned(kind) /\ live # 0
  <2>1. live \in Sessions /\ live \in 0 .. MaxSessions /\ cur = r /\ Attached = live /\ sess[live] # "unused"
        /\ ~park.detached
    BY <1>0, <1>3, <1>t, Bounds, Empties DEF Fields, Attached, IInv, RefsKnown, ParkKnown
  <2>2. /\ sess' = Disposing(live) /\ cur' = cur
        /\ rel' = [rel EXCEPT ![l] = [pc |-> "dispose", ref |-> r, kind |-> kind, live |-> live]]
    BY <1>3 DEF ReleaseRest
  <2> HIDE DEF live
  <2>3. /\ \A s \in Sessions : sess'[s] = sess[s] \/ (sess[s] = "live" /\ sess'[s] = "disposing")
        /\ \A s \in Sessions : Open(s)' => Open(s)
        /\ sess'[live] \in {"disposing", "disposed"}
    BY <1>t, <2>1, <2>2, Bounds DEF Fields, Disposing, Open
  <2>4. rel'[l].pc = "dispose" /\ rel'[l].live = live
    BY <1>0, <2>2
  <2>5. \A s \in Sessions : Open(s) => s = live
    BY <2>1 DEF Sole, Held, NoneDisposes
  <2>6. NoneBefore' /\ ScanAlone'
    BY <2>2, <2>3 DEF NoneBefore, ScanAlone, Sole
  <2>7. RunAlone'
    <3> SUFFICES ASSUME run'.pc \in {"active", "oneShot", "isolated"} PROVE RunAlone'
      BY DEF RunAlone
    <3>1. run' = run
      OBVIOUS
    <3>2. run.ref # 0 => adopted'.ref # run.ref
      BY <3>1 DEF Sole, RunAlone
    <3> QED
      BY <2>2, <2>3, <3>1, <3>2 DEF Sole, RunAlone
  <2>8. RelAlone'
    BY <2>1, <2>3, <2>4, <2>5, Bounds DEF RelAlone, NoneDisposes
  <2>9. Held'
    <3>1. Attached' = live
      BY <2>1, <2>2 DEF Attached
    <3> QED
      BY <2>3, <2>5, <3>1 DEF Held
  <2> QED
    BY <2>6, <2>7, <2>8, <2>9 DEF Sole
<1> QED
  BY <1>1, <1>2, <1>3

\* release, with whatever it finds.
LEMMA ReleaseAlone ==
    ASSUME IInv, Sole, NoneDisposes, NEW l \in Releasers, NEW e \in 0 .. MaxRefs,
           NEW kind \in {"none", "kill", "cancel", "finalize"}, Release(l, e, kind),
           run' = run \/ run'.pc = "done", UNCHANGED <<status, session, owner, rev, scan>>
    PROVE  Sole'
<1>t. Fields /\ Links
  BY TypeParts DEF IInv
<1>0. /\ \A m \in Releasers : m # l => rel'[m] = rel[m]
      /\ adopted' \in {adopted, NoAdoption}
      /\ rel \in [Releasers -> Releases]
  BY <1>t, WholeRelease DEF Fields
<1>1. PICK r \in 0 .. MaxRefs :
        IF r = 0
        THEN rel' = [rel EXCEPT ![l] = Done] /\ UNCHANGED <<cur, sess, park>>
        ELSE IF park # NoPark /\ park.ref = r
        THEN /\ park' = [park EXCEPT !.cancelled = @ \/ ~park.detached]
             /\ rel' = [rel EXCEPT ![l] = [pc |-> "park", ref |-> r, kind |-> kind, live |-> 0]]
             /\ UNCHANGED <<cur, sess>>
        ELSE ReleaseRest(l, r, kind) /\ UNCHANGED park
  <2> DEFINE r == IF cur # 0 /\ e \in {0, cur} THEN cur
                  ELSE IF adopted.ref # 0 /\ e \in {0, adopted.ref} THEN adopted.ref
                  ELSE 0
  <2>1. r \in 0 .. MaxRefs
    BY <1>t, Bounds DEF Fields, Adoptions
  <2> QED
    BY <2>1 DEF Release
<1>2. CASE r # 0 /\ ~(park # NoPark /\ park.ref = r)
  BY <1>0, <1>1, <1>2, RestAlone, Bounds, Empties
<1>3. CASE r = 0 \/ (park # NoPark /\ park.ref = r)
  <2>1. rel'[l].pc \in {"done", "park"} /\ cur' = cur /\ sess' = sess
    BY <1>0, <1>1, <1>3, Empties
  <2>2. park.detached => park'.detached /\ park'.ref = park.ref /\ park'.session = park.session
    BY <1>1, <1>3, <1>t DEF Fields, Parks
  <2>3. Gentle
    BY <1>0, <2>1, <2>2, Empties DEF Gentle, Undisturbed, NoneDisposes, Sole, ScanAlone
  <2> QED
    BY <2>3, GentleKeeps
<1> QED
  BY <1>2, <1>3

\* A ref that is buried gives its session to the release that waits for it.
LEMMA EntombAlone ==
    ASSUME IInv, Sole, NoneDisposes, Macrotask, NEW l \in Releasers, rel[l].pc = "persist",
           Entomb(l, rel[l].ref), UNCHANGED <<cur, owner, park, rev, scan, run>>
    PROVE  Sole'
<1>t. Fields /\ Links /\ TypeOK
  BY TypeParts DEF IInv
<1> DEFINE r == rel[l].ref
           live == IF cur = r THEN session[r] ELSE 0
<1>0. /\ r \in Refs /\ rel \in [Releasers -> Releases] /\ live \in 0 .. MaxSessions
      /\ session' = IF cur = r THEN [session EXCEPT ![r] = 0] ELSE session
      /\ sess' = Disposing(live)
      /\ rel' = [rel EXCEPT ![l] = IF live = 0 THEN Done
                                   ELSE [@ EXCEPT !.pc = "dispose", !.live = live]]
  BY <1>t, Bounds DEF Entomb, Fields, Releases, IInv, RelKnown
<1>1. /\ \A m \in Releasers : m # l => rel'[m] = rel[m]
      /\ adopted' = adopted
      /\ \/ UNCHANGED <<status, session, sess>>
         \/ /\ cur = r /\ status'[cur] = "aborted" /\ session'[cur] = 0
            /\ \A q \in Refs : q # cur => status'[q] = status[q] /\ session'[q] = session[q]
            /\ \A q \in Sessions : q # session[cur] => sess'[q] = sess[q]
  BY <1>0, Entombing
<1>2. /\ \A s \in Sessions : sess'[s] = sess[s] \/ (sess[s] = "live" /\ sess'[s] = "disposing")
      /\ \A s \in Sessions : Open(s)' => Open(s)
      /\ live # 0 => sess'[live] # "live"
  BY <1>0, <1>t, Bounds DEF Fields, Disposing, Open
<1>3. /\ live = 0 => rel'[l].pc = "done"
      /\ live # 0 => rel'[l].pc = "dispose" /\ rel'[l].live = live /\ rel'[l].ref = r
  BY <1>0, Empties DEF Releases
<1>4. live # 0 => /\ live \in Sessions /\ cur = r /\ Attached = live /\ sess[live] # "unused"
                  /\ ~park.detached
                  /\ \A s \in Sessions : Open(s) => s = live
  <2> SUFFICES ASSUME live # 0 PROVE /\ live \in Sessions /\ cur = r /\ Attached = live
                                     /\ sess[live] # "unused" /\ ~park.detached
                                     /\ \A s \in Sessions : Open(s) => s = live
    OBVIOUS
  <2>1. live \in Sessions /\ cur = r /\ Attached = live /\ sess[live] # "unused" /\ ~park.detached
    BY <1>0, <1>t, Bounds, Empties DEF Fields, Attached, IInv, RefsKnown, ParkKnown
  <2> QED
    BY <2>1 DEF Sole, Held, NoneDisposes
<1>5. live = 0 => Attached' \in {0, Attached} /\ sess' = sess /\ (cur = r => Attached = 0)
  BY <1>0, <1>1 DEF Attached, Disposing
<1>6. status[r] # "aborted" \/ status'[r] = "aborted"
  BY <1>1
<1>7. cur = r => status'[r] = "aborted"
  <2>1. SetStatus(adopted, r, "aborted", cur = r) /\ "aborted" \in Statuses
    BY DEF Entomb, Statuses
  <2> QED
    BY ONLY <2>1, <1>0, <1>t, StatusIsSet
<1> HIDE DEF live
<1>8. NoneBefore' /\ ScanAlone'
  BY <1>2 DEF NoneBefore, ScanAlone, Sole
<1>9. RunAlone'
  <2> SUFFICES ASSUME run.pc \in {"active", "oneShot", "isolated"} PROVE RunAlone'
    BY DEF RunAlone
  <2>1. run.ref # 0 => run.ref \in Refs
    BY <1>t, Bounds DEF Fields, Runs
  <2> QED
    BY <1>1, <1>2, <2>1 DEF Sole, RunAlone
<1>10. RelAlone'
  <2>1. live # 0 => sess'[live] \in {"disposing", "disposed"}
    BY <1>2, <1>4, <1>t DEF Fields
  <2> SUFFICES ASSUME NEW m \in Releasers, rel'[m].pc = "dispose"
               PROVE  /\ rel'[m].live # 0 /\ sess'[rel'[m].live] \in {"disposing", "disposed"}
                      /\ \A s \in Sessions : Open(s)' => s = rel'[m].live
    BY DEF RelAlone
  <2>2. m = l /\ live # 0
    BY <1>1, <1>3 DEF NoneDisposes
  <2> QED
    BY <1>2, <1>3, <1>4, <2>1, <2>2
<1>11. Held'
  <2>1. CASE live # 0
    BY <1>2, <1>3, <1>4, <1>7, <2>1 DEF Held, Open
  <2>2. CASE live = 0 /\ cur = r
    BY <1>2, <1>5, <2>2, Bounds DEF Sole, Held, NoneDisposes
  <2>3. CASE cur # r
    <3>1. session' = session
      BY <1>0, <2>3
    <3>2. Attached' = Attached
      BY <3>1 DEF Attached
    <3> QED
      BY <1>2, <3>2 DEF Sole, Held, NoneDisposes, Open
  <2> QED
    BY <2>1, <2>2, <2>3
<1> QED
  BY <1>8, <1>9, <1>10, <1>11 DEF Sole

\* Who is at work on a release is alone, and a release that is over stays over.
Busy(l) == rel[l].pc \notin {"idle", "done"}
InTurn == \A l, m \in Releasers : Busy(l) /\ Busy(m) => l = m

\* A step moves one release, or wakes those that wait for a turn.
RelMoves ==
    \/ \A m \in Releasers : \/ rel'[m] = rel[m]
                            \/ rel[m].pc = "abort" /\ rel'[m].pc = "aborted"
    \/ \E l \in Releasers : rel[l].pc # "done" /\ \A m \in Releasers : m # l => rel'[m] = rel[m]

LEMMA StaysInTurn == ASSUME InTurn, Turnwise, RelMoves PROVE InTurn'
<1> SUFFICES ASSUME NEW l \in Releasers, NEW m \in Releasers, Busy(l)', Busy(m)' PROVE l = m
  BY DEF InTurn
<1>1. CASE \A k \in Releasers : \/ rel'[k] = rel[k]
                                \/ rel[k].pc = "abort" /\ rel'[k].pc = "aborted"
  BY <1>1 DEF InTurn, Busy
<1>2. ASSUME NEW k \in Releasers, rel[k].pc # "done",
             \A q \in Releasers : q # k => rel'[q] = rel[q]
      PROVE  l = m
  <2>1. CASE Busy(k)
    BY <1>2, <2>1 DEF InTurn, Busy
  <2>2. CASE ~Busy(k)
    <3>1. rel[k].pc = "idle" /\ (Busy(k)' => rel'[k] # rel[k])
      BY <1>2, <2>2 DEF Busy
    <3> QED
      BY <1>2, <3>1 DEF InTurn, Turnwise, Busy
  <2> QED
    BY <2>1, <2>2
<1> QED
  BY <1>1, <1>2 DEF RelMoves

LEMMA ReleasingMoves ==
    ASSUME IInv, NEW l \in Releasers, Releasing(l) PROVE RelMoves
<1>t. Fields /\ Links
  BY TypeParts DEF IInv
<1>0. rel \in [Releasers -> Releases] /\ rel[l] \in Releases /\ cur \in 0 .. MaxRefs
  BY <1>t DEF Fields
<1>1. ASSUME NEW kind \in Kills, Kill(l, kind) PROVE RelMoves
  <2>1. CASE rel' = [rel EXCEPT ![l] = [pc |-> "abort", ref |-> IF kind = "kill" THEN cur ELSE 0,
                                        kind |-> kind, live |-> session[cur]]]
    BY <1>0, <1>1, <2>1 DEF Kill, RelMoves
  <2>2. CASE Release(l, IF kind = "kill" THEN cur ELSE 0, kind)
    <3>1. /\ (IF kind = "kill" THEN cur ELSE 0) \in 0 .. MaxRefs
          /\ kind \in {"none", "kill", "cancel", "finalize"}
      BY <1>0, Bounds, KillsAssumption
    <3>2. \A m \in Releasers : m # l => rel'[m] = rel[m]
      BY <1>t, <2>2, <3>1, WholeRelease
    <3> QED
      BY <1>1, <3>2 DEF Kill, RelMoves
  <2> QED
    BY <1>1, <2>1, <2>2 DEF Kill
<1>2. CASE TurnAborted(l)
  <2>1. rel[l].ref \in 0 .. MaxRefs /\ rel[l].kind \in {"none", "kill", "cancel", "finalize"}
    BY <1>0 DEF Releases
  <2> QED
    BY <1>2, <1>t, <2>1, WholeRelease DEF TurnAborted, RelMoves
<1>3. CASE ReleaseAfterPark(l)
  <2>1. rel[l].ref \in Refs /\ rel[l].kind \in {"none", "kill", "cancel", "finalize"}
    BY <1>0, <1>3, Bounds DEF Releases, IInv, RelKnown, ReleaseAfterPark
  <2> QED
    BY <1>3, <1>t, <2>1, RestOfRelease DEF ReleaseAfterPark, RelMoves
<1>4. CASE Persisted(l) \/ PersistFails(l)
  <2>1. rel[l].pc = "persist" /\ (Entomb(l, rel[l].ref) \/ rel' = [rel EXCEPT ![l] = Done])
    BY <1>4 DEF Persisted, PersistFails
  <2>2. rel[l].ref \in Refs
    BY <1>0, <2>1, Bounds DEF Releases, IInv, RelKnown
  <2> QED
    BY <1>0, <2>1, <2>2, Entombing DEF RelMoves
<1>5. CASE Released(l)
  BY <1>0, <1>5 DEF Released, RelMoves
<1> QED
  BY <1>1, <1>2, <1>3, <1>4, <1>5 DEF Releasing

\* Nobody waits for a disposal when a release begins, nor when the one under way goes on.
LEMMA NobodyElse ==
    ASSUME InTurn, Turnwise, NEW l \in Releasers,
           \/ rel[l].pc = "idle" /\ rel'[l] # rel[l]
           \/ rel[l].pc \in {"aborted", "park", "persist"}
    PROVE  NoneDisposes
BY DEF InTurn, Turnwise, Busy, NoneDisposes

LEMMA ReleasingAlone ==
    ASSUME IInv, Sole, InTurn, Turnwise, NEW l \in Releasers, Releasing(l) PROVE Sole'
<1>t. Fields /\ Links
  BY TypeParts DEF IInv
<1>0. rel \in [Releasers -> Releases] /\ rel[l] \in Releases /\ cur \in 0 .. MaxRefs
  BY <1>t DEF Fields
<1>1. ASSUME NEW kind \in Kills, Kill(l, kind) PROVE Sole'
  <2>0. /\ rel[l].pc = "idle"
        /\ UNCHANGED <<status, session, owner, turn, synced, rev, call, scan, run, diskVars>>
    BY <1>1 DEF Kill
  <2>1. CASE /\ rel' = [rel EXCEPT ![l] = [pc |-> "abort", ref |-> IF kind = "kill" THEN cur ELSE 0,
                                           kind |-> kind, live |-> session[cur]]]
             /\ UNCHANGED <<cur, sess, adopted, park>>
    <3>1. rel'[l].pc = "abort" /\ \A m \in Releasers : m # l => rel'[m] = rel[m]
      BY <1>0, <2>1
    <3>2. Gentle
      BY <2>0, <2>1, <3>1 DEF Gentle, Undisturbed, Sole, ScanAlone
    <3> QED
      BY <3>2, GentleKeeps
  <2>2. CASE Release(l, IF kind = "kill" THEN cur ELSE 0, kind)
    <3>1. /\ (IF kind = "kill" THEN cur ELSE 0) \in 0 .. MaxRefs
          /\ kind \in {"none", "kill", "cancel", "finalize"}
      BY <1>0, Bounds, KillsAssumption
    <3>2. rel'[l].pc # "idle"
      BY <1>t, <2>2, <3>1, WholeRelease
    <3>3. NoneDisposes
      BY <2>0, <3>2, NobodyElse
    <3> QED
      BY <2>0, <2>2, <3>1, <3>3, ReleaseAlone
  <2> QED
    BY <1>1, <2>1, <2>2 DEF Kill
<1>2. CASE TurnAborted(l)
  <2>1. rel[l].ref \in 0 .. MaxRefs /\ rel[l].kind \in {"none", "kill", "cancel", "finalize"}
    BY <1>0 DEF Releases
  <2>2. NoneDisposes
    BY <1>2, NobodyElse DEF TurnAborted
  <2> QED
    BY <1>2, <2>1, <2>2, ReleaseAlone DEF TurnAborted
<1>3. CASE ReleaseAfterPark(l)
  <2>1. rel[l].ref \in Refs /\ rel[l].kind \in {"none", "kill", "cancel", "finalize"}
    BY <1>0, <1>3, Bounds DEF Releases, IInv, RelKnown, ReleaseAfterPark
  <2>2. NoneDisposes
    BY <1>3, NobodyElse DEF ReleaseAfterPark
  <2>3. \A m \in Releasers : m # l => rel'[m] = rel[m]
    BY <1>3, <1>t, <2>1, RestOfRelease DEF ReleaseAfterPark
  <2>4. adopted'.ref \in {0, adopted.ref}
    BY <1>3, Empties DEF ReleaseAfterPark, OnRemoved
  <2> QED
    BY <1>3, <2>1, <2>2, <2>3, <2>4, RestAlone DEF ReleaseAfterPark
<1>4. CASE Persisted(l) \/ PersistFails(l)
  <2>1. /\ rel[l].pc = "persist" /\ Macrotask
        /\ UNCHANGED <<cur, owner, turn, synced, park, rev, call, scan, run>>
    BY <1>4 DEF Persisted, PersistFails
  <2>2. CASE Entomb(l, rel[l].ref)
    BY <2>1, <2>2, NobodyElse, EntombAlone
  <2>3. CASE rel' = [rel EXCEPT ![l] = Done] /\ UNCHANGED <<status, session, sess, adopted>>
    <3>1. rel'[l].pc = "done" /\ \A m \in Releasers : m # l => rel'[m] = rel[m]
      BY <1>0, <2>3, Empties
    <3>2. Gentle
      BY <2>1, <2>3, <3>1 DEF Gentle, Undisturbed, Sole, ScanAlone
    <3> QED
      BY <3>2, GentleKeeps
  <2> QED
    BY <1>4, <2>2, <2>3 DEF Persisted, PersistFails
<1>5. CASE Released(l)
  <2>1. /\ rel[l].pc = "dispose" /\ Gone(rel[l].live) /\ rel' = [rel EXCEPT ![l] = Done]
        /\ UNCHANGED <<status, session, sessionVars, park, rev, call, scan, run, diskVars>>
    BY <1>5 DEF Released
  <2>2. cur' \in {0, cur} /\ adopted'.ref \in {0, adopted.ref}
    BY <1>5, Empties DEF Released, Unregister, OnRemoved
  <2>3. rel'[l].pc = "done" /\ \A m \in Releasers : m # l => rel'[m] = rel[m]
    BY <1>0, <2>1, Empties
  <2>4. AllClosed'
    BY <2>1 DEF AllClosed, Open, Sole, RelAlone, Gone, sessionVars
  <2>5. Gentle
    BY <2>1, <2>2, <2>3, <2>4 DEF Gentle, Sole, ScanAlone, sessionVars
  <2> QED
    BY <2>5, GentleKeeps
<1> QED
  BY <1>1, <1>2, <1>3, <1>4, <1>5 DEF Releasing

\* A run that ends by an abort releases its ref, if it still has it.
LEMMA FinalizeAbortedAlone ==
    ASSUME IInv, Sole, InTurn, Turnwise, NEW l \in Releasers, NEW ending \in {"shutdown", "kill"},
           FinalizeAborted(l, ending)
    PROVE  Sole' /\ RelMoves
<1>t. Fields /\ Links
  BY TypeParts DEF IInv
<1>0. /\ run.pc = "active" /\ rel[l].pc = "idle" /\ run' = [run EXCEPT !.pc = "done"]
      /\ UNCHANGED <<status, session, owner, turn, synced, rev, call, scan, diskVars>>
      /\ cur \in 0 .. MaxRefs
  BY <1>t DEF FinalizeAborted, Fields
<1>1. run'.pc = "done" /\ run' # run /\ run.session \in 0 .. MaxSessions
  BY <1>0, <1>t DEF Fields, Runs
<1>2. ASSUME NEW kind \in {"finalize", "cancel"}, Release(l, cur, kind) PROVE Sole' /\ RelMoves
  <2>1. rel'[l].pc # "idle" /\ \A m \in Releasers : m # l => rel'[m] = rel[m]
    BY <1>0, <1>2, <1>t, WholeRelease
  <2>2. NoneDisposes
    BY <1>0, <2>1, NobodyElse
  <2>3. Sole'
    BY <1>0, <1>1, <1>2, <2>2, ReleaseAlone
  <2> QED
    BY <1>0, <2>1, <2>3 DEF RelMoves
<1>3. CASE sess' = Disposing(run.session) /\ UNCHANGED <<cur, adopted, park, rel>>
  <2>1. \A s \in Sessions : sess'[s] = sess[s] \/ (sess[s] = "live" /\ sess'[s] = "disposing")
    BY <1>1, <1>3, <1>t DEF Fields, Disposing
  <2>2. Gentle
    BY <1>0, <1>1, <1>3, <2>1 DEF Gentle, Undisturbed, Sole, ScanAlone
  <2> QED
    BY <1>3, <2>2, GentleKeeps DEF RelMoves
<1> QED
  BY <1>2, <1>3 DEF FinalizeAborted

-----------------------------------------------------------------------------
\* One step, while releases and scans come one at a time.
LEMMA StepAlone ==
    ASSUME IInv, Sole, InTurn, Turnwise, ScansInTurn, [Next]_vars
    PROVE  Sole' /\ InTurn'
<1>t. Fields /\ Links
  BY TypeParts DEF IInv
<1>0. ASSUME Gentle PROVE Sole'
  BY <1>0, GentleKeeps
<1>1. CASE Running
  <2>1. CASE Spawn \/ SpawnAttach \/ SpawnFails \/ FinalizeKeepAlive \/ FinalizeDone
    <3>1. rel' = rel
      BY <2>1 DEF Spawn, SpawnAttach, SpawnFails, FinalizeKeepAlive, FinalizeDone
    <3>2. Sole'
      BY <1>0, <2>1, SpawnAlone, SpawnAttachAlone, SpawnFailsAlone, FinalizeKeepAliveAlone,
         FinalizeDoneAlone
    <3> QED
      BY <3>1, <3>2, StaysInTurn DEF RelMoves
  <2>2. ASSUME NEW mode \in {"oneShot", "isolated"}, FinalizeDispose(mode) PROVE Sole' /\ InTurn'
    <3>1. rel' = rel
      BY <2>2 DEF FinalizeDispose
    <3> QED
      BY <2>2, <3>1, FinalizeDisposeAlone, StaysInTurn DEF RelMoves
  <2>3. ASSUME NEW l \in Releasers, NEW ending \in {"shutdown", "kill"}, FinalizeAborted(l, ending)
        PROVE  Sole' /\ InTurn'
    BY <2>3, FinalizeAbortedAlone, StaysInTurn
  <2> QED
    BY <1>1, <2>1, <2>2, <2>3 DEF Running
<1>2. CASE Parking
  <2>1. rel' = rel
    BY <1>2 DEF Parking, TimerFires, ParkCommit, ParkFinish, actorVars
  <2> QED
    BY <1>0, <1>2, <2>1, TimerFiresAlone, ParkCommitAlone, ParkFinishAlone, StaysInTurn
    DEF Parking, RelMoves
<1>3. ASSUME NEW c \in Callers, Waking(c) PROVE Sole' /\ InTurn'
  <2>1. rel' = rel
    BY <1>3 DEF Waking, EnsureLive, Use, KeepSession, AfterPark
  <2> QED
    BY <1>0, <1>3, <2>1, WakingAlone, StaysInTurn DEF RelMoves
<1>4. ASSUME NEW r \in Refs, Reviving(r) PROVE Sole' /\ InTurn'
  <2>1. rel' = rel
    BY <1>4 DEF Reviving, FactoryAnswers, ReviverClaims, ReviverAttaches, ReviverFails,
       ReviveSettles, ReviveFailed
  <2> QED
    BY <1>0, <1>4, <2>1, RevivingAlone, ReviverAttachesAlone, StaysInTurn DEF RelMoves
<1>5. ASSUME NEW l \in Releasers, Releasing(l) PROVE Sole' /\ InTurn'
  BY <1>5, ReleasingAlone, ReleasingMoves, StaysInTurn
<1>6. ASSUME NEW s \in Sessions, Living(s) PROVE Sole' /\ InTurn'
  <2>1. rel' = rel \/ TurnOver(s)
    BY <1>6 DEF Living, AgentStart, AgentEnd, SessionDisposed
  <2>2. RelMoves
    BY <1>t, <2>1, TurnsOver DEF RelMoves
  <2> QED
    BY <1>0, <1>6, <2>2, LivingAlone, StaysInTurn
<1>7. ASSUME NEW x \in Scanners, Scanning(x) PROVE Sole' /\ InTurn'
  <2>1. rel' = rel
    BY <1>7 DEF Scanning, ScanCheck, ScanRegister
  <2> QED
    BY <1>0, <1>7, <2>1, ScanningAlone, StaysInTurn DEF RelMoves
<1>8. CASE UNCHANGED vars
  <2>1. Gentle /\ rel' = rel
    BY <1>8 DEF vars, Gentle, Undisturbed, Sole, ScanAlone, registryVars, sessionVars, actorVars
  <2> QED
    BY <1>0, <2>1, StaysInTurn DEF RelMoves
<1> QED
  BY <1>1, <1>2, <1>3, <1>4, <1>5, <1>6, <1>7, <1>8 DEF Next

\* As long as a release begins only when no other is under way, and no scan reads while
\* another does, at most one session of the agent is open and a live one is attached: for
\* every number of callers, releases, scans, refs and sessions.
THEOREM OneSessionAtATime == Spec /\ [][Turnwise]_vars /\ []ScansInTurn => []OneSession
<1>1. Init => IInv /\ Sole /\ InTurn
  BY Initially, SoleAtFirst DEF Init, InTurn, Busy, Resting
<1>2. [Turnwise]_vars /\ [Next]_vars => Turnwise
  BY DEF vars, actorVars, Turnwise
<1>3. IInv /\ Sole /\ InTurn /\ [Turnwise]_vars /\ ScansInTurn /\ [Next]_vars
         => (IInv /\ Sole /\ InTurn)'
  BY <1>2, StepAlone, NextStep
<1>4. IInv /\ Sole => OneSession
  BY OneSessionHere
<1> QED
  BY <1>1, <1>3, <1>4, PTL DEF Spec

\* With one release and one scan, as in the run, nothing else has to be assumed.
THEOREM OneOfEach ==
    ASSUME \A l, m \in Releasers : l = m, \A x, y \in Scanners : x = y
    PROVE  Spec => []OneSession
<1>1. Turnwise /\ ScansInTurn
  BY DEF Turnwise, ScansInTurn
<1>2. Init => IInv /\ Sole /\ InTurn
  BY Initially, SoleAtFirst DEF Init, InTurn, Busy, Resting
<1>3. IInv /\ Sole /\ InTurn /\ [Next]_vars => (IInv /\ Sole /\ InTurn)'
  BY <1>1, StepAlone, NextStep
<1>4. IInv /\ Sole => OneSession
  BY OneSessionHere
<1> QED
  BY <1>2, <1>3, <1>4, PTL DEF Spec
=============================================================================

---------------------------- MODULE SessionTurns ----------------------------
(***************************************************************************)
(* Who may start a turn of a session, and when the session has settled:    *)
(* prompts, the resumes that drain the queue of the agent, the wakes that  *)
(* peer messages cause, and aborts, all over one agent.                    *)
(*   packages/coding-agent/src/session/agent-session.ts                    *)
(*   packages/agent/src/agent.ts                                           *)
(* A step is the code between two awaits.  What a run does with its        *)
(* messages is AgentRun's subject, what peers send PeerMessages'.          *)
(***************************************************************************)
EXTENDS Naturals, FiniteSets, SequencesExt, Queues

CONSTANTS Prompts,     \* bound: calls of prompt
          Resumes,     \* bound: resumes under way at once
          Wakes,       \* bound: wakes under way at once
          Aborts,      \* bound: calls of abort
          MaxMsgs,     \* bound: messages for the steering and follow-up queues
          FromParent,  \* bound: messages a parent agent may be the one to send
          MaxRecords,  \* bound: peer messages
          Preflight,   \* whether retry.usageAwareFallback is on
          None

Turns == Prompts \cup Resumes \cup Wakes
Msgs == 1 .. MaxMsgs
Records == 1 .. MaxRecords

ASSUME TurnsAssumption ==
    /\ None \notin Turns
    /\ Prompts \cap Resumes = {} /\ Prompts \cap Wakes = {} /\ Resumes \cap Wakes = {}
ASSUME BoundsAssumption ==
    /\ MaxMsgs \in Nat /\ MaxRecords \in Nat /\ Preflight \in BOOLEAN
    /\ FromParent \subseteq Msgs

VARIABLES
    turn,      \* the procedures that hold the session in flight
    session,   \* promptInFlightCount, promptGeneration and the flags
    agent,     \* the agent: its run, its queues, the end of its transcript
    msg,       \* messages for the queues; tried is history: whether a resume
               \* has failed with it, or a wake has put an older block over it
    record,    \* peer messages; "passed" is pending, left to a blocked queue
    abort      \* calls of abort

vars == <<turn, session, agent, msg, record, abort>>

(* The state as a value: one stretch of code may run several operators.    *)
Now == [turn |-> turn, session |-> session, agent |-> agent, msg |-> msg,
        record |-> record, abort |-> abort]
Becomes(x) ==
    /\ turn' = x.turn /\ session' = x.session /\ agent' = x.agent
    /\ msg' = x.msg /\ record' = x.record /\ abort' = x.abort

Off == [st |-> "off", cut |-> FALSE, parked |-> <<>>, block |-> FALSE]

Init ==
    /\ turn = [t \in Turns |-> Off]
    /\ session = [count |-> 0, blocked |-> FALSE, suppressed |-> FALSE,
                  aborting |-> FALSE, observers |-> FALSE, settling |-> 0]
    /\ agent = [by |-> None, st |-> "idle", cut |-> FALSE, tail |-> "assistant",
                steering |-> <<>>, followUps |-> <<>>]
    /\ msg = [m \in Msgs |-> [st |-> "new", from |-> "user", tried |-> "no"]]
    /\ record = [i \in Records |-> "new"]
    /\ abort = [k \in Aborts |-> [st |-> "new", tasks |-> {}, waits |-> FALSE]]

-----------------------------------------------------------------------------
(* What the session reads before it starts something.                      *)

HasQueued(x) == x.agent.steering # <<>> \/ x.agent.followUps # <<>>
Queued(x) == ToSet(x.agent.steering) \cup ToSet(x.agent.followUps)
Streaming(x) == x.agent.by # None \/ x.session.count > 0
CanAutoContinue(x) ==
    /\ ~Streaming(x)
    /\ \/ x.agent.steering # <<>>
       \/ ~x.session.suppressed /\ x.agent.tail \in {"assistant", "toolResult"}
Pending(x) == {i \in Records : x.record[i] \in {"pending", "passed"}}
Active(x, S) == {t \in S : x.turn[t].st \notin {"off", "done"}}
FreeOf(x, S) == CHOOSE t \in S : x.turn[t].st = "off"

(* A resume could not deliver: what is queued waits for an explicit call.  *)
Mark(x, as) ==
    [x EXCEPT !.msg = [m \in Msgs |->
        IF m \in Queued(x) /\ @[m].tried # "tried" THEN [@[m] EXCEPT !.tried = as]
        ELSE @[m]]]
Block(x) == [Mark(x, "tried") EXCEPT !.session.blocked = HasQueued(x)]

See(x, is) == [x EXCEPT !.record = [i \in Records |-> IF i \in is THEN "seen" ELSE @[i]]]

-----------------------------------------------------------------------------
(* Starting a turn from inside the session.                                *)

BeginInFlight(x, t, r) == [x EXCEPT !.session.count = @ + 1, !.turn[t] = r]

StartResume(x) ==
    BeginInFlight(x, FreeOf(x, Resumes), [Off EXCEPT !.st = "preflight"])

ScheduleDrain(x) ==
    IF x.session.blocked \/ ~CanAutoContinue(x) \/ ~HasQueued(x) THEN x
    ELSE StartResume(x)

(* A wake takes the peer messages to a run of their own.  Follow-ups that  *)
(* may not ride it are set aside until it is over.                         *)
WakeFor(x, is) ==
    LET w == FreeOf(x, Wakes)
        parked == IF x.agent.steering = <<>> /\ ~CanAutoContinue(x)
                  THEN x.agent.followUps ELSE <<>>
        block == parked # <<>> /\ x.session.blocked
        y == BeginInFlight(x, w, [Off EXCEPT !.st = "running",
                                             !.parked = parked, !.block = block])
    IN  [See(y, is) EXCEPT
            !.session.blocked = @ /\ ~block,
            !.agent = [x.agent EXCEPT !.by = w, !.st = "working", !.cut = FALSE,
                                      !.followUps = IF parked # <<>> THEN <<>> ELSE @]]

ResumeStrandedIrcAsides(x) ==
    IF Streaming(x) \/ Pending(x) = {} THEN x
    ELSE IF CanAutoContinue(x) /\ HasQueued(x)
         THEN [x EXCEPT !.record =
                 [i \in Records |-> IF i \in Pending(x) THEN "passed" ELSE @[i]]]
         ELSE WakeFor(x, Pending(x))

DrainStranded(x) ==
    IF x.session.aborting THEN x ELSE ResumeStrandedIrcAsides(ScheduleDrain(x))

(* The session has settled.  Observers of a wake hear first; the queue is  *)
(* looked at when they are through.                                        *)
Settle(x) ==
    IF x.session.observers
    THEN [x EXCEPT !.session.observers = FALSE, !.session.settling = @ + 1]
    ELSE DrainStranded(x)

EndInFlight(x) ==
    LET n == IF x.session.count = 0 THEN 0 ELSE x.session.count - 1
        y == [x EXCEPT !.session.count = n]
    IN  IF n = 0 THEN Settle(y) ELSE y

ResetInFlight(x) == Settle([x EXCEPT !.session.count = 0])

-----------------------------------------------------------------------------
(* How turns end.                                                          *)

EndPrompt(x, p) == EndInFlight([x EXCEPT !.turn[p] = [Off EXCEPT !.st = "done"]])

EndResume(x, r) ==
    EndInFlight([x EXCEPT !.turn[r] = Off,
                          !.abort = [k \in Aborts |-> [x.abort[k] EXCEPT !.tasks = @ \ {r}]]])

(* Mutant: what was set aside replaces what came meanwhile.                *)
EndWake_Overwrites(x, w) ==
    LET back == x.turn[w].parked
        y == [x EXCEPT !.turn[w] = Off,
                       !.session.observers = TRUE,
                       !.session.blocked = @ \/ x.turn[w].block,
                       !.agent.followUps = IF back = <<>> THEN @ ELSE back]
    IN  EndInFlight(y)

EndWake(x, w) ==
    LET back == x.turn[w].parked
        y == IF x.turn[w].block /\ ~x.session.blocked THEN Mark(x, "overruled") ELSE x
    IN  EndInFlight([y EXCEPT !.turn[w] = Off,
                              !.session.observers = TRUE,
                              !.session.blocked = @ \/ x.turn[w].block,
                              !.agent.followUps = back \o @])

(* agent.prompt and agent.continue: the run is over, its caller goes on.   *)
RunOver(x, tail) ==
    [x EXCEPT !.turn[x.agent.by].st = IF x.agent.by \in Resumes THEN "ending"
                                      ELSE "recovery",
              !.agent = [@ EXCEPT !.by = None, !.st = "idle", !.cut = FALSE,
                                  !.tail = tail],
              !.abort = [k \in Aborts |-> [@[k] EXCEPT !.waits = FALSE]]]

StartRun(x, t, st) ==
    [x EXCEPT !.agent = [@ EXCEPT !.by = t, !.st = st, !.cut = FALSE],
              !.turn[t].st = "running"]

-----------------------------------------------------------------------------
(* Prompts.                                                                *)

\* prompt() finds the session idle; images are awaited before it begins.
PromptAsked(p) ==
    /\ turn[p].st = "off" /\ ~Streaming(Now)
    /\ turn' = [turn EXCEPT ![p].st = "asked"]
    /\ session' = [session EXCEPT !.suppressed = FALSE]
    /\ UNCHANGED <<agent, msg, record, abort>>

PromptBegins(p) ==
    /\ turn[p].st = "asked"
    /\ Becomes(BeginInFlight(Now, p, [Off EXCEPT !.st = "setup"]))

\* The preflight refuses, there is no key, or a hook throws.
PromptFails(p) ==
    /\ turn[p].st \in {"setup", "built"}
    /\ Becomes(EndPrompt(Now, p))

\* Peer messages that missed their boundary go into the transcript.
PromptFlushes(p) ==
    /\ turn[p].st = "setup"
    /\ LET is == Pending(Now)
       IN  Becomes([See(Now, is) EXCEPT
              !.turn[p].st = "built",
              !.agent.tail = IF is # {} /\ agent.by = None THEN "other" ELSE @])

\* An abort since the beginning: nothing is sent.  A busy agent is waited for.
PromptSends(p) ==
    /\ turn[p].st = "built"
    /\ Becomes(IF turn[p].cut THEN EndPrompt(Now, p)
               ELSE IF agent.by # None THEN [Now EXCEPT !.turn[p].st = "waiting"]
               ELSE StartRun(Now, p, "working"))

PromptRetries(p) ==
    /\ turn[p].st = "waiting" /\ agent.by = None
    /\ Becomes(StartRun(Now, p, "working"))

PromptGivesUp(p) ==
    /\ turn[p].st = "waiting"
    /\ Becomes(EndPrompt(Now, p))

\* Mutant: the wait looks at what the session has in flight.
Recovered_WholeSession(t) ==
    turn[t].cut \/ (Active(Now, Resumes) = {} /\ ~Streaming(Now))

\* waitForPostPromptRecovery: resumes and runs of others are waited for,
\* until an abort makes this turn an old one.
Recovered(t) ==
    turn[t].cut \/ (Active(Now, Resumes) = {} /\ agent.by = None)

PromptEnds(p) ==
    /\ turn[p].st = "recovery" /\ Recovered(p)
    /\ Becomes(EndPrompt(Now, p))

WakeEnds(w) ==
    /\ turn[w].st = "recovery" /\ Recovered(w)
    /\ Becomes(EndWake(Now, w))

-----------------------------------------------------------------------------
(* Resumes: scheduleAgentContinue for what is queued.                      *)

\* Aborted while it got ready; an abort inside the preflight is a refusal.
ResumeSkipped(r) ==
    /\ turn[r].st = "preflight" /\ turn[r].cut
    /\ \/ Becomes(EndResume(Now, r))
       \/ Preflight /\ Becomes(EndResume(Block(Now), r))

ResumeRefused(r) ==
    /\ turn[r].st = "preflight" /\ Preflight
    /\ Becomes(EndResume(Block(Now), r))

\* agent.continue: a busy agent throws.
ResumeContinues(r) ==
    /\ turn[r].st = "preflight" /\ ~turn[r].cut
    /\ LET x == [Now EXCEPT !.session.blocked = @ /\ ~Preflight]
       IN  Becomes(IF agent.by # None THEN [Block(x) EXCEPT !.turn[r].st = "ending"]
                   ELSE StartRun(x, r, "claimed"))

ResumeEnds(r) ==
    /\ turn[r].st = "ending"
    /\ Becomes(EndResume(Now, r))

-----------------------------------------------------------------------------
(* The run of the agent.                                                   *)

Heads(q) == IF q = <<>> THEN <<>> ELSE <<Head(q)>>
Rest(q) == IF q = <<>> THEN <<>> ELSE Tail(q)

(* A poll takes the oldest steering message, and whatever else is polled.  *)
(* The preflight that lets it take from a queue lifts the block, unless    *)
(* the one before the request still counts.                                *)
Polls(x, withFollowUp, withRecords) ==
    LET ms == ToSet(Heads(x.agent.steering))
              \cup (IF withFollowUp THEN ToSet(Heads(x.agent.followUps)) ELSE {})
        y == [x EXCEPT
                !.agent = [x.agent EXCEPT !.steering = Rest(@),
                              !.followUps = IF withFollowUp THEN Rest(@) ELSE @],
                !.msg = [m \in Msgs |-> IF m \in ms THEN [@[m] EXCEPT !.st = "seen"]
                                        ELSE @[m]]]
        z == IF withRecords THEN See(y, Pending(x)) ELSE y
    IN  IF Preflight /\ ms # {} THEN {z, [z EXCEPT !.session.blocked = FALSE]} ELSE {z}

\* The opening of a continuation.  From an answer it needs a queued message.
RunClaims ==
    /\ agent.st = "claimed"
    /\ LET opens == [Now EXCEPT !.agent.st = "working"]
           answered == agent.tail = "assistant"
       IN  \/ /\ answered /\ ~agent.cut /\ HasQueued(Now)
              /\ \E x \in Polls(opens, agent.steering = <<>>, FALSE) : Becomes(x)
           \/ /\ answered /\ (agent.cut \/ ~HasQueued(Now))
              /\ Becomes(RunOver(Block(Now), "assistant"))
           \/ /\ ~answered /\ agent.cut
              /\ Becomes(opens)
           \/ /\ ~answered /\ ~agent.cut
              /\ \E x \in Polls(opens, FALSE, FALSE) : Becomes(x)
           \/ /\ Preflight /\ (agent.steering # <<>> \/ (answered /\ HasQueued(Now)))
              /\ Becomes(RunOver(Block(Now), "assistant"))

\* Between two requests of a run.
RunPolls ==
    /\ agent.st = "working" /\ ~agent.cut
    /\ agent.steering # <<>> \/ Pending(Now) # {}
    /\ \E x \in Polls(Now, FALSE, TRUE) : Becomes(x)

\* Before it ends: the last poll finds something, or the run closes.
RunStops ==
    /\ agent.st = "working" /\ ~agent.cut
    /\ IF HasQueued(Now) \/ Pending(Now) # {}
       THEN \E x \in Polls(Now, TRUE, TRUE) : Becomes(x)
       ELSE Becomes([Now EXCEPT !.agent.st = "closing"])

\* The preflight before a queued message is taken refuses.
RunRefused ==
    /\ agent.st = "working" /\ ~agent.cut /\ Preflight /\ HasQueued(Now)
    /\ Becomes(RunOver(Block(Now), "assistant"))

\* The run ends: by itself, cut by an abort, or with an error.
RunEnds ==
    \/ /\ agent.st \in {"working", "closing"}
       /\ Becomes(RunOver(Now, "assistant"))
    \/ /\ agent.st = "working" /\ agent.cut
       /\ Becomes(RunOver(Now, "toolResult"))

-----------------------------------------------------------------------------
(* Messages for the queues, and peer messages.                             *)

Enqueue(x, m, mode, from) ==
    [x EXCEPT !.msg[m] = [st |-> "queued", from |-> from, tried |-> "no"],
              !.agent = IF mode = "steer" THEN [x.agent EXCEPT !.steering = Append(@, m)]
                        ELSE [x.agent EXCEPT !.followUps = Append(@, m)]]
NextMsg(m) == msg[m].st = "new" /\ \A n \in 1 .. m - 1 : msg[n].st # "new"

\* steer, followUp and prompt to a busy session: an explicit message lifts
\* the block, and is resumed at once if the session is idle.
UserQueues(m, mode) ==
    /\ NextMsg(m)
    /\ Becomes(ScheduleDrain(Enqueue(
          [Now EXCEPT !.session.blocked = FALSE, !.session.suppressed = FALSE],
          m, mode, "user")))

\* A parent's message steers the turn it finds; it lifts nothing.
ParentSteers(m) ==
    /\ Streaming(Now) /\ NextMsg(m)
    /\ Becomes(Enqueue(Now, m, "steer", "parent"))

\* clearQueue: all of it for an interrupt, else what users have written.
Clears(all) ==
    /\ HasQueued(Now)
    /\ LET out == {m \in Queued(Now) : all \/ msg[m].from = "user"}
           keep(q) == Only(q, {i \in DOMAIN q : q[i] \notin out})
           x == [Now EXCEPT
                   !.agent = [agent EXCEPT !.steering = keep(@), !.followUps = keep(@)],
                   !.msg = [m \in Msgs |-> IF m \in out THEN [@[m] EXCEPT !.st = "withdrawn"]
                                           ELSE @[m]]]
       IN  Becomes([x EXCEPT !.session.blocked = @ /\ HasQueued(x)])

PeerWrites(i) ==
    /\ record[i] = "new" /\ \A j \in 1 .. i - 1 : record[j] # "new"
    /\ Becomes(IF Streaming(Now) THEN [Now EXCEPT !.record[i] = "pending"]
               ELSE WakeFor(Now, {i}))

\* A command's output, an advisor's card: no turn can continue from it.
TailSpoils ==
    /\ ~Streaming(Now) /\ agent.tail # "other"
    /\ agent' = [agent EXCEPT !.tail = "other"]
    /\ UNCHANGED <<turn, session, msg, record, abort>>

-----------------------------------------------------------------------------
(* Aborts.                                                                 *)

\* An abort makes a turn an old one, and aborts the signal of a resume.
Begun(t) == turn[t].st \notin {"off", "done", "asked"}
AbortStarts(k, user) ==
    /\ abort[k].st = "new"
    /\ abort' = [abort EXCEPT ![k].st = "tasks", ![k].tasks = Active(Now, Resumes)]
    /\ turn' = [t \in Turns |-> [turn[t] EXCEPT !.cut = @ \/ Begun(t)]]
    /\ session' = [session EXCEPT !.aborting = TRUE, !.suppressed = @ \/ user]
    /\ agent' = [agent EXCEPT !.cut = agent.by # None]
    /\ UNCHANGED <<msg, record>>

AbortDrained(k) ==
    /\ abort[k].st = "tasks" /\ abort[k].tasks = {}
    /\ abort' = [abort EXCEPT ![k].st = "idle", ![k].waits = agent.by # None]
    /\ UNCHANGED <<turn, session, agent, msg, record>>

\* Mutant: the queue is looked at only while the abort is still under way.
AbortEnds_NoDrain(k) ==
    /\ abort[k].st = "idle" /\ ~abort[k].waits
    /\ LET x == ResetInFlight([Now EXCEPT !.abort[k].st = "done"])
       IN  Becomes([x EXCEPT !.session.aborting = FALSE])

\* The agent is idle: nothing is in flight any more, and the queue has its turn.
AbortEnds(k) ==
    /\ abort[k].st = "idle" /\ ~abort[k].waits
    /\ LET x == ResetInFlight([Now EXCEPT !.abort[k].st = "done"])
       IN  Becomes(DrainStranded([x EXCEPT !.session.aborting = FALSE]))

\* The observers of a wake have heard.
ObserversHeard ==
    /\ session.settling > 0
    /\ Becomes(DrainStranded([Now EXCEPT !.session.settling = @ - 1]))

-----------------------------------------------------------------------------

Proceeds ==
    \/ \E p \in Prompts : PromptBegins(p) \/ PromptFlushes(p) \/ PromptSends(p)
                          \/ PromptRetries(p) \/ PromptEnds(p)
    \/ \E w \in Wakes : WakeEnds(w)
    \/ \E r \in Resumes : ResumeSkipped(r) \/ ResumeContinues(r) \/ ResumeEnds(r)
    \/ RunClaims \/ RunStops \/ RunEnds
    \/ \E k \in Aborts : AbortDrained(k) \/ AbortEnds(k)
    \/ ObserversHeard

Next == \/ Proceeds
        \/ \E p \in Prompts : PromptAsked(p) \/ PromptFails(p) \/ PromptGivesUp(p)
        \/ \E r \in Resumes : ResumeRefused(r)
        \/ RunPolls \/ RunRefused
        \/ \E m \in Msgs : \/ \E mode \in {"steer", "followUp"} : UserQueues(m, mode)
        \/ \E m \in FromParent : ParentSteers(m)
        \/ \E all \in BOOLEAN : Clears(all)
        \/ \E i \in Records : PeerWrites(i)
        \/ TailSpoils
        \/ \E k \in Aborts, user \in BOOLEAN : AbortStarts(k, user)

Spec == Init /\ [][Next]_vars

-----------------------------------------------------------------------------
(* Types; a bound on turns never cuts one off; a queued message is in one  *)
(* place: a queue, or set aside by one wake (agent-session.ts, 778-836).   *)
Places(m) == {q \in {"steering", "followUps"} : m \in ToSet(agent[q])}
             \cup {w \in Wakes : m \in ToSet(turn[w].parked)}
Roomy == \A S \in {Resumes, Wakes} : \E t \in S : turn[t].st = "off"
TypeOK ==
    /\ turn \in [Turns -> [st : {"off", "asked", "setup", "built", "waiting", "running",
                                 "recovery", "preflight", "ending", "done"},
                  cut : BOOLEAN, parked : Seq(Msgs), block : BOOLEAN]]
    /\ session \in [count : Nat, blocked : BOOLEAN, suppressed : BOOLEAN,
                    aborting : BOOLEAN, observers : BOOLEAN, settling : Nat]
    /\ Roomy
    /\ IsInjective(agent.steering) /\ IsInjective(agent.followUps)
    /\ \A m \in Msgs : Cardinality(Places(m)) = IF msg[m].st = "queued" THEN 1 ELSE 0

(* Nothing is under way: no turn, no abort, no observer to be heard.       *)
AtRest ==
    /\ Active(Now, Turns) = {}
    /\ \A k \in Aborts : abort[k].st \in {"new", "done"}
    /\ session.settling = 0

(* Prompts, wakes and aborts that wait for the runs and resumes of others  *)
(* never wait in a circle, nor for a run that is not there: as long as the *)
(* session is not at rest, something under way can go on by itself         *)
(* (agent-session.ts, 3173-3225, 6457-6460; turn-recovery.ts, 2135-2151).  *)
GoesOn(t) ==
    CASE turn[t].st = "running" -> agent.by = t
      [] turn[t].st = "waiting" -> agent.by = None
      [] turn[t].st = "recovery" -> Recovered(t)
      [] OTHER -> turn[t].st \notin {"off", "done"}
AbortGoesOn(k) == \/ abort[k].st = "tasks" /\ abort[k].tasks = {}
                  \/ abort[k].st = "idle" /\ ~abort[k].waits
NeverStuck ==
    AtRest \/ session.settling > 0 \/ (\E t \in Turns : GoesOn(t))
           \/ (\E k \in Aborts : AbortGoesOn(k))

(* At rest the session is settled (agent-session.ts, 677-769, 5829-5879).  *)
(* Nothing is counted in flight.  Peer messages are left only to a blocked *)
(* queue, a user's steering only where a resume has failed with it or a    *)
(* wake has put an older block over it, and follow-ups only behind a       *)
(* block, an interrupt or an end no turn can continue from.                *)
RestIsSettled ==
    AtRest =>
    /\ session.count = 0 /\ ~session.aborting /\ agent.by = None
    /\ \A i \in Pending(Now) : record[i] = "passed"
    /\ \A m \in ToSet(agent.steering) : msg[m].from = "user" => msg[m].tried # "no"
    /\ HasQueued(Now) => \/ session.blocked
                         \/ /\ agent.steering = <<>>
                            /\ session.suppressed \/ agent.tail = "other"

(* Steering that lands while a prompt unwinds is drained when the session  *)
(* settles (agent-session-queued-steer-delivery.test.ts, 2-11): at rest a  *)
(* resume has been tried for every steering message a user has written.    *)
SteersAreTried ==
    AtRest => \A m \in ToSet(agent.steering) :
                 msg[m].from = "user" => msg[m].tried = "tried"
==============================================================================

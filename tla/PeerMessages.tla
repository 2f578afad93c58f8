---------------------------- MODULE PeerMessages ----------------------------
(***************************************************************************)
(* Messages between agents: the process-wide IrcBus with its mailboxes and *)
(* waiters, the incoming queue of each session, and the calls of the hub   *)
(* tool that send, wait and read.                                          *)
(*   packages/coding-agent/src/irc/bus.ts                                  *)
(*   packages/coding-agent/src/session/irc-bridge.ts                       *)
(*   packages/coding-agent/src/tools/hub/messaging.ts, index.ts            *)
(* A step is the code between two awaits.  Agents end turns, are parked    *)
(* and are disposed as AgentLifecycle says in detail.                      *)
(***************************************************************************)
EXTENDS Naturals, FiniteSets, SequencesExt, Queues

CONSTANTS Agents, Root, None,
          MaxMsgs,      \* bound: messages written
          MaxCalls,     \* bound: hub calls that suspend
          Synchronous,  \* agents without async execution
          Planning,     \* agents in plan mode
          Steady,       \* bound: agents that stay in one turn, and wait for nothing
          MailboxCap    \* MAILBOX_CAP

ASSUME BoundsAssumption == {MaxMsgs, MaxCalls, MailboxCap} \subseteq Nat \ {0}

Msgs == 1 .. MaxMsgs
Calls == 1 .. MaxCalls

ASSUME NamesAssumption == Root \in Agents /\ None \notin Agents \cup Msgs \cup Calls

VARIABLES
    peer,      \* each agent's registry row and session
    msg,       \* the messages, with the state of their send
    mailbox,   \* IrcBus.#mailboxes
    waiters,   \* IrcBus.#waiters: the calls parked in wait, oldest first
    records,   \* IrcBridge.#interrupts of each session
    steers,    \* peer messages in the steering queue of each agent
    call,      \* hub calls
    drafts,    \* messages whose recipient is writing a side-channel answer
    shown      \* history: how often each message was put before its recipient

vars == <<peer, msg, mailbox, waiters, records, steers, call, drafts, shown>>

(* The state as a value: one stretch of code may run several operators.    *)
(* (x is bound to a value in Becomes, which TLC then computes once.)       *)
Now == [peer |-> peer, msg |-> msg, mailbox |-> mailbox, waiters |-> waiters,
        records |-> records, steers |-> steers, call |-> call,
        drafts |-> drafts, shown |-> shown]
Becomes(x) ==
    \E y \in {x} :
        /\ peer' = y.peer /\ msg' = y.msg /\ mailbox' = y.mailbox
        /\ waiters' = y.waiters /\ records' = y.records /\ steers' = y.steers
        /\ call' = y.call /\ drafts' = y.drafts /\ shown' = y.shown

Unwritten == [st |-> "unsent", from |-> None, to |-> None, call |-> None,
              expects |-> FALSE, receipt |-> "none"]
NoCall == [op |-> "none", by |-> None, from |-> None, wait |-> "no", got |-> None]

Init ==
    /\ peer = [a \in Agents |-> [status |-> "running", session |-> "live",
                 turn |-> TRUE, settling |-> "no", adopted |-> FALSE]]
    /\ msg = [m \in Msgs |-> Unwritten]
    /\ mailbox = [a \in Agents |-> <<>>]
    /\ waiters = [a \in Agents |-> <<>>]
    /\ records = [a \in Agents |-> <<>>]
    /\ steers = [a \in Agents |-> {}]
    /\ call = [c \in Calls |-> NoCall]
    /\ drafts = {}
    /\ shown = [m \in Msgs |-> 0]

(* Names of messages and calls are used up in order.                       *)
Unsent == {m \in Msgs : msg[m].st = "unsent"}
Writes(ms) == ms \subseteq Unsent /\ \A m \in Unsent \ ms : \A n \in ms : n < m
Opens(c) == call[c].op = "none" /\ \A d \in 1 .. c - 1 : call[d].op # "none"

OpenCalls(a) == {c \in Calls : call[c].by = a}
Parked(x, c) == x.call[c].wait \in {"parked", "raced"}
Show(x, ms) == [x EXCEPT !.shown = [m \in Msgs |-> @[m] + (IF m \in ms THEN 1 ELSE 0)]]
Accepts(from, m, x) == from \in {None, x.msg[m].from}
Without(q, S) == Only(q, {k \in DOMAIN q : q[k] \notin S})

-----------------------------------------------------------------------------
(* Waiters.                                                                *)

RunningPeers(x, a) == {b \in Agents \ {a} : x.peer[b].status = "running"}
Hope(x, a, from) == \E b \in RunningPeers(x, a) : from \in {None, b}

(* settle without a message: the waiter leaves the list.                   *)
GiveUp(x, cs) ==
    [x EXCEPT !.call = [c \in Calls |-> IF c \in cs THEN [@[c] EXCEPT !.wait = "over"]
                                                    ELSE @[c]],
              !.waiters = [a \in Agents |-> Without(@[a], cs)]]

(* Mutant: wait tests its senders only when it parks.                      *)
Notice_Never(x) == x

(* registry.onChange: a plain wait ends when none it may hear from runs.   *)
Notice(x) == GiveUp(x, {c \in Calls : /\ x.call[c].op = "wait" /\ Parked(x, c)
                                      /\ ~Hope(x, x.call[c].by, x.call[c].from)})

(* The oldest waiter whose filter accepts m takes it.                      *)
Takers(x, m) == {k \in DOMAIN x.waiters[x.msg[m].to] :
                    Accepts(x.call[x.waiters[x.msg[m].to][k]].from, m, x)}
Consume(x, m) ==
    LET c == x.waiters[x.msg[m].to][Min(Takers(x, m))] IN
    [x EXCEPT !.msg[m] = [@ EXCEPT !.st = "sent", !.receipt = "ok"],
              !.waiters[x.msg[m].to] = Without(@, {c}),
              !.call[c] = [@ EXCEPT !.wait = "message", !.got = m]]

-----------------------------------------------------------------------------
(* IrcBus.send.                                                            *)

Fail(x, m) == [x EXCEPT !.msg[m].st = "sent", !.msg[m].receipt = "failed"]

Streaming(x, a) == x.peer[a].session = "live" /\ x.peer[a].turn

(* A recipient that cannot run a real turn in time answers on the side.    *)
AutoReplies(x, m) ==
    LET b == x.msg[m].to IN
    x.msg[m].expects /\ IF Streaming(x, b) THEN b \in Synchronous ELSE b \in Planning

(* IrcBridge.deliver: queued for the running turn (a parent's message as   *)
(* steering), appended in plan mode, or the prompt of a turn of its own.   *)
Deliver(x, m) ==
    LET b == x.msg[m].to
        y == [x EXCEPT !.msg[m].st = "sent", !.msg[m].receipt = "ok",
                       !.drafts = @ \cup (IF AutoReplies(x, m) THEN {m} ELSE {})]
    IN IF Streaming(x, b)
       THEN IF x.msg[m].from = Root THEN [y EXCEPT !.steers[b] = @ \cup {m}]
            ELSE [y EXCEPT !.records[b] = Append(@, m)]
       ELSE IF b \in Planning THEN Show(y, {m})
       ELSE Show([y EXCEPT !.peer[b] = [@ EXCEPT !.turn = TRUE, !.settling = "no",
                                                 !.status = "running"]], {m})

(* A pending wait wins over the session.                                   *)
HandOver(x, m) ==
    LET b == x.msg[m].to IN
    IF Takers(x, m) # {} THEN Consume(x, m)
    ELSE IF x.peer[b].session = "none" THEN Fail(x, m)
    ELSE IF x.peer[b].session = "disposed" THEN [x EXCEPT !.msg[m].st = "failing"]
    ELSE Deliver(x, m)

Gated(p) == p.status = "parked" \/ p.adopted

(* send up to its first await.                                             *)
Post(x, m, from, to, c, expects) ==
    LET y == [x EXCEPT !.msg[m] = [st |-> "gate", from |-> from, to |-> to, call |-> c,
                                   expects |-> expects, receipt |-> "none"]]
    IN IF x.peer[to].status = "gone" THEN Fail(y, m)
       ELSE IF Gated(x.peer[to]) THEN y
       ELSE HandOver(y, m)

(* ensureLive answered: the agent was live, or has been revived.           *)
GateOpens(m) ==
    LET b == msg[m].to IN
    /\ msg[m].st = "gate"
    /\ Becomes(IF peer[b].status = "gone" THEN Fail(Now, m)
               ELSE IF peer[b].session # "none" THEN HandOver(Now, m)
               ELSE HandOver([Now EXCEPT !.peer[b] = [@ EXCEPT !.session = "live",
                                  !.status = "idle", !.adopted = TRUE]], m))

ReviveFails(m) ==
    /\ msg[m].st = "gate"
    /\ peer[msg[m].to].session = "none"
    /\ Becomes(Fail(Now, m))

(* Mutant: one message too many is kept.                                   *)
Capped_OffByOne(q) == IF Len(q) > MailboxCap + 1 THEN SubSeq(q, 2, Len(q)) ELSE q

(* #enqueue: the oldest message makes room.                                *)
Capped(q) == IF Len(q) > MailboxCap THEN SubSeq(q, 2, Len(q)) ELSE q

(* deliver threw: the message is kept, and reported failed.                *)
HandOverFails(m) ==
    /\ msg[m].st = "failing"
    /\ Becomes([Fail(Now, m) EXCEPT !.mailbox[msg[m].to] = Capped(Append(@, m))])

(* #runAutoReply, after its ephemeral turn.                                *)
AutoReply(m, r) ==
    /\ m \in drafts /\ Writes({r})
    /\ peer[msg[m].to].session = "live"
    /\ Becomes(Post([Now EXCEPT !.drafts = @ \ {m}],
                    r, msg[m].to, msg[m].from, None, FALSE))

AutoReplyFails(m) ==
    m \in drafts /\ Becomes([Now EXCEPT !.drafts = @ \ {m}])

-----------------------------------------------------------------------------
(* The hub tool.  A call runs inside a turn of its agent.                  *)

InTurn(a) == Streaming(Now, a)

(* wait parks a waiter, after testing its senders.                         *)
Park(x, c, op, a, from) ==
    Notice([x EXCEPT !.call[c] = [op |-> op, by |-> a, from |-> from,
                                  wait |-> "parked", got |-> None],
                     !.waiters[a] = Append(@, c)])

(* executeSend up to its await; the wait for a reply does not drain.       *)
Send(c, a, b, await, m) ==
    /\ InTurn(a) /\ a # b /\ Opens(c) /\ Writes({m})
    /\ Becomes(Post(IF await THEN Park(Now, c, "send", a, b)
                    ELSE [Now EXCEPT !.call[c] = [NoCall EXCEPT !.op = "send", !.by = a]],
                    m, a, b, c, await))

(* The sends of a broadcast go to different agents: each writes its own    *)
(* message, and the row, the waiters and the queues of its own recipient.  *)
PostAll(x, letter, a, c) ==
    LET leg(b) == IF b \in DOMAIN letter THEN Post(x, letter[b], a, b, c, FALSE) ELSE x
        to(m) == IF m \in Range(letter) THEN CHOOSE b \in DOMAIN letter : letter[b] = m
                 ELSE None
    IN  [x EXCEPT !.peer = [b \in Agents |-> leg(b).peer[b]],
                  !.waiters = [b \in Agents |-> leg(b).waiters[b]],
                  !.records = [b \in Agents |-> leg(b).records[b]],
                  !.steers = [b \in Agents |-> leg(b).steers[b]],
                  !.msg = [m \in Msgs |-> leg(to(m)).msg[m]],
                  !.shown = [m \in Msgs |-> leg(to(m)).shown[m]],
                  !.call = [d \in Calls |-> leg(x.call[d].by).call[d]]]

(* A broadcast goes to running and idle peers; nobody is revived for it.   *)
Audience(a) == {b \in Agents \ {a} : peer[b].status \in {"running", "idle"}}
Broadcast(c, a, letter) ==
    /\ InTurn(a) /\ Opens(c) /\ Cardinality(Audience(a)) > 1
    /\ Writes({letter[b] : b \in Audience(a)})
    /\ Becomes(PostAll([Now EXCEPT !.call[c] = [NoCall EXCEPT !.op = "send", !.by = a]],
                       letter, a, c))

\* What a queue has from the sender one waits for, and the oldest of it.
Matching(q, from) == {k \in DOMAIN q : Accepts(from, q[k], Now)}
Oldest(q, from) == q[Min(Matching(q, from))]

(* A wait is answered by a queued record first (drainPendingInbox).        *)
WaitTakesRecord(a, from) ==
    /\ InTurn(a) /\ a \notin Steady /\ Matching(records[a], from) # {}
    /\ LET m == Oldest(records[a], from)
       IN Becomes(Show([Now EXCEPT !.records[a] = Without(@, {m})], {m}))

(* Then by mail, which the wait of the bus looks at before it parks.  A    *)
(* bare wait with no running peer answers at once.                         *)
Waits(a, from) == /\ InTurn(a) /\ a \notin Steady /\ Matching(records[a], from) = {}
                  /\ from = None => RunningPeers(Now, a) # {}

WaitTakesMail(a, from) ==
    /\ Waits(a, from) /\ Matching(mailbox[a], from) # {}
    /\ LET m == Oldest(mailbox[a], from)
       IN Becomes(Show([Now EXCEPT !.mailbox[a] = Without(@, {m})], {m}))

Wait(c, a, from) ==
    /\ Waits(a, from) /\ Matching(mailbox[a], from) = {}
    /\ Opens(c) /\ from # a
    /\ Becomes(Park(Now, c, "wait", a, from))

(* With jobs to watch, the wait of the bus is one leg of a race.           *)
JobWait(c, a, from) ==
    /\ InTurn(a) /\ a \notin Steady /\ Matching(records[a], from) = {}
    /\ Opens(c) /\ from # a
    /\ IF Matching(mailbox[a], from) = {}
       THEN Becomes(Park(Now, c, "jobs", a, from))
       ELSE LET m == Oldest(mailbox[a], from)
            IN Becomes([Now EXCEPT
                   !.mailbox[a] = Without(@, {m}),
                   !.call[c] = [op |-> "jobs", by |-> a, from |-> from,
                                wait |-> "message", got |-> m]])

(* A job settled or the window closed; the waiter stays until the code     *)
(* after the race runs.                                                    *)
RaceEnds(c) ==
    /\ call[c].op = "jobs" /\ call[c].wait = "parked"
    /\ Becomes([Now EXCEPT !.call[c].wait = "raced"])

(* Mutant: the timer resolves the wait and leaves its waiter behind.       *)
Timeout_Stays(c) ==
    /\ call[c].op \in {"wait", "send"} /\ call[c].wait = "parked"
    /\ Becomes([Now EXCEPT !.call[c].wait = "over"])

Timeout(c) ==
    /\ call[c].op \in {"wait", "send"} /\ call[c].wait = "parked"
    /\ Becomes(GiveUp(Now, {c}))

(* The batch interrupts waits, not sends, for a queued message.            *)
Urgent(c) ==
    LET a == call[c].by IN
    \/ call[c].op \in {"wait", "jobs"} /\ (records[a] # <<>> \/ steers[a] # {})
    \/ peer[a].session = "disposed"

Interrupt(c) ==
    Parked(Now, c) /\ Urgent(c) /\ Becomes(GiveUp(Now, {c}))

UserAborts(c) == Parked(Now, c) /\ Becomes(GiveUp(Now, {c}))

Legs(c) == {m \in Msgs : msg[m].call = c}
Delivered(c) == \E m \in Legs(c) : msg[m].receipt = "ok"

Close(x, c) == [GiveUp(x, {c}) EXCEPT !.call[c] = [NoCall EXCEPT !.op = "done"]]
Got(c) == {call[c].got} \ {None}

WaitReturns(c) ==
    /\ call[c].op = "wait" /\ call[c].wait \in {"message", "over"}
    /\ Becomes(Close(Show(Now, Got(c)), c))

(* Mutant: the job leg won, so the snapshot is returned.                   *)
JobWaitReturns_Snapshot(c) ==
    /\ call[c].op = "jobs" /\ call[c].wait # "parked"
    /\ Becomes(Close(Now, c))

(* After the race the message leg wins, however late it was.               *)
JobWaitReturns(c) ==
    /\ call[c].op = "jobs" /\ call[c].wait # "parked"
    /\ Becomes(Close(Show(Now, Got(c)), c))

(* Every leg has its receipt.  A send that reached somebody waits for its  *)
(* reply; one that failed cancels the wait and forgets what it took.       *)
SendReturns(c) ==
    /\ call[c].op = "send" /\ \A m \in Legs(c) : msg[m].receipt # "none"
    /\ Delivered(c) => call[c].wait # "parked"
    /\ Becomes(Close(
           IF Delivered(c) THEN Show(Now, Got(c))
           ELSE [Now EXCEPT !.msg = [m \in Msgs |->
                    IF m \in Got(c) THEN [@[m] EXCEPT !.st = "discarded"] ELSE @[m]]],
           c))

(* executeInbox: the session's records are consumed even by a peek.        *)
Inbox(a, peek) ==
    /\ InTurn(a) /\ records[a] \o mailbox[a] # <<>>
    /\ Becomes(Show([Now EXCEPT !.records[a] = <<>>,
                                !.mailbox[a] = IF peek THEN @ ELSE <<>>],
                    ToSet(records[a]) \cup (IF peek THEN {} ELSE ToSet(mailbox[a]))))

-----------------------------------------------------------------------------
(* Turns, parks and disposal of the agents.                                *)

Pending(a) == ToSet(records[a]) \cup steers[a]
Absorb(x, a) == Show([x EXCEPT !.records[a] = <<>>, !.steers[a] = {}], Pending(a))

(* A step boundary injects what is queued.                                 *)
Boundary(a) ==
    /\ InTurn(a) /\ OpenCalls(a) = {} /\ Pending(a) # {}
    /\ Becomes(Absorb(Now, a))

(* The registry hears of the end of a subagent's turn (the main agent is   *)
(* always listed as running); an agent is adopted after its first run.     *)
(* What missed the last boundary is left to the drain.                     *)
Left(a) == IF Pending(a) = {} THEN "no" ELSE "due"
Ended(x, a) ==
    IF a = Root THEN [x EXCEPT !.peer[a] = [@ EXCEPT !.turn = FALSE, !.settling = Left(a)]]
    ELSE Notice([x EXCEPT !.peer[a] = [@ EXCEPT !.turn = FALSE, !.settling = Left(a),
                                                !.status = "idle", !.adopted = TRUE]])
Wake(x, a) == [x EXCEPT !.peer[a] = [@ EXCEPT !.turn = TRUE, !.settling = "no",
                                              !.status = "running"]]
Settled(x, a, how) == [x EXCEPT !.peer[a] = [@ EXCEPT !.settling = how]]

TurnEnds(a) ==
    /\ InTurn(a) /\ a \notin Steady /\ OpenCalls(a) = {}
    /\ Becomes(Ended(Now, a))

Drainable(a) == peer[a].session = "live" /\ ~peer[a].turn /\ peer[a].settling = "due"

(* Mutant: records are left to whatever else is queued.                    *)
Drains_Strands(a) ==
    /\ Drainable(a)
    /\ Becomes(IF steers[a] # {} THEN Wake(Absorb(Now, a), a) ELSE Settled(Now, a, "no"))

(* drainStrandedQueuedMessages, once the turn has settled: after its count *)
(* in flight and the callbacks, after an abort in its finally (716, 6483). *)
(* What is left wakes the agent again, or in plan mode is appended.        *)
Drains(a) ==
    /\ Drainable(a)
    /\ Becomes(IF steers[a] = {} /\ a \in Planning
               THEN Settled(Absorb(Now, a), a, "no") ELSE Wake(Absorb(Now, a), a))

(* Or the resume of what is queued is refused or fails, now or in an       *)
(* earlier turn (4147, 5849): the queue is blocked (5832), and the records *)
(* are left to it all the same (751).                                      *)
DrainStandsDown(a) ==
    /\ Drainable(a)
    /\ Becomes(Settled(Now, a, "blocked"))

(* A prompt, or a resume of what is queued.                                *)
TurnStarts(a) ==
    /\ peer[a].session = "live" /\ ~peer[a].turn
    /\ Becomes(Wake(Now, a))

(* beginDispose writes the queued records to the transcript; steering goes *)
(* with the session's agent.                                               *)
Flushed(x, a) == Show([x EXCEPT !.records[a] = <<>>, !.steers[a] = {}], ToSet(x.records[a]))

(* park, which ensureLive waits out: one step here.  It looks at no queue. *)
Parks(a) ==
    /\ peer[a].adopted /\ peer[a].session = "live" /\ ~peer[a].turn
    /\ Becomes(Notice(Flushed([Now EXCEPT !.peer[a] = [@ EXCEPT !.status = "parked",
                                  !.session = "none", !.settling = "no"]], a)))

Disposes(a) ==
    /\ a \notin Steady \cup {Root} /\ peer[a].session = "live"
    /\ Becomes(Flushed([Now EXCEPT !.peer[a] = [@ EXCEPT !.session = "disposed",
                                                         !.settling = "no"]], a))

(* The agent is released or killed, or (an isolated one) left on file as   *)
(* parked.                                                                 *)
Leaves(a, status) ==
    /\ peer[a].session = "disposed" /\ OpenCalls(a) = {}
    /\ Becomes(Notice([Now EXCEPT !.peer[a] =
           [status |-> status, session |-> "none", turn |-> FALSE,
            settling |-> "no", adopted |-> FALSE]]))

-----------------------------------------------------------------------------
Next ==
    \/ \E m \in Msgs : \/ GateOpens(m) \/ ReviveFails(m) \/ HandOverFails(m)
                       \/ AutoReplyFails(m) \/ \E r \in Msgs : AutoReply(m, r)
    \/ \E c \in Calls, a \in Agents :
          \/ \E b \in Agents, m \in Msgs, await \in BOOLEAN : Send(c, a, b, await, m)
          \/ \E letter \in Injection(Audience(a), Msgs) : Broadcast(c, a, letter)
          \/ \E from \in Agents \cup {None} : Wait(c, a, from) \/ JobWait(c, a, from)
    \/ \E c \in Calls :
          \/ RaceEnds(c) \/ Timeout(c) \/ Interrupt(c) \/ UserAborts(c)
          \/ WaitReturns(c) \/ JobWaitReturns(c) \/ SendReturns(c)
    \/ \E a \in Agents :
          \/ \E from \in Agents \cup {None} :
                WaitTakesRecord(a, from) \/ WaitTakesMail(a, from)
          \/ \E peek \in BOOLEAN : Inbox(a, peek)
          \/ Boundary(a) \/ TurnEnds(a) \/ Drains(a) \/ DrainStandsDown(a) \/ TurnStarts(a)
          \/ Parks(a) \/ Disposes(a) \/ \E status \in {"parked", "gone"} : Leaves(a, status)

Spec == Init /\ [][Next]_vars

(* Continuations run, ensureLive settles, an interrupt reaches a wait that *)
(* is told to give way, a send that awaits a reply has a timeout           *)
(* (irc.timeoutMs; 0 switches it off).  Each uses up a message or a call,  *)
(* so that one condition over all of them leaves none waiting for ever.    *)
(* Each agent's turn, once its calls have returned, reaches its next       *)
(* boundary, or ends and settles.                                          *)
Continues ==
    \/ \E m \in Msgs : GateOpens(m) \/ ReviveFails(m) \/ HandOverFails(m)
    \/ \E c \in Calls : \/ Interrupt(c) \/ WaitReturns(c) \/ JobWaitReturns(c)
                        \/ SendReturns(c) \/ (call[c].op = "send" /\ Timeout(c))
Polls(a) == Boundary(a) \/ Drains(a) \/ DrainStandsDown(a)
Fairness == WF_vars(Continues) /\ \A a \in Agents : WF_vars(Polls(a))

FairSpec == Spec /\ Fairness

-----------------------------------------------------------------------------
(* Types; a message is in one place, or in none.                           *)
Places(m) == {<<"mailbox", a>> : a \in {a \in Agents : m \in ToSet(mailbox[a])}}
        \cup {<<"records", a>> : a \in {a \in Agents : m \in ToSet(records[a])}}
        \cup {<<"steers", a>> : a \in {a \in Agents : m \in steers[a]}}
        \cup {<<"call", c>> : c \in {c \in Calls : call[c].got = m}}
TypeOK ==
    /\ peer \in [Agents -> [status : {"running", "idle", "parked", "gone"},
                   session : {"live", "disposed", "none"}, turn : BOOLEAN,
                   settling : {"no", "due", "blocked"}, adopted : BOOLEAN]]
    /\ \A m \in Msgs :
          /\ msg[m].st \in {"unsent", "gate", "failing", "sent", "discarded"}
          /\ msg[m].receipt \in {"none", "ok", "failed"}
          /\ Cardinality(Places(m)) <= 1
          /\ \A pl \in Places(m) : msg[m].st = "sent"
    /\ \A a \in Agents : Len(mailbox[a]) <= MailboxCap
    /\ drafts \subseteq Msgs /\ shown \in [Msgs -> Nat]

(* A waiter in the list stands for a call that still waits, and every call *)
(* that waits is in the list once: whoever lost the race for a wait takes  *)
(* no message with it (bus.ts, 210-292).                                   *)
WaitersWait ==
    /\ \A a \in Agents : /\ IsInjective(waiters[a])
                          /\ \A c \in ToSet(waiters[a]) :
                                Parked(Now, c) /\ call[c].by = a
    /\ \A c \in Calls : Parked(Now, c) => c \in ToSet(waiters[call[c].by])

(* Nobody sits in a plain wait for peers that have all stopped running     *)
(* (bus.ts, 272-285).                                                      *)
NoHopelessWait ==
    \A c \in Calls : call[c].op = "wait" /\ call[c].wait = "parked" =>
                      Hope(Now, call[c].by, call[c].from)

(* What the agents are promised: MailContract.                             *)
Over(a) == a \in Agents /\ peer[a].session # "live"
Kept(m) == \E a \in Agents : \/ m \in ToSet(mailbox[a])
                             \/ \E c \in OpenCalls(a) : call[c].got = m
Held(m) == \/ Pending(msg[m].to) \cap {m} # {}
           \/ \E c \in Calls : call[c].got = m
PhaseOf(m) ==
    IF msg[m].st = "unsent" THEN "unsent"
    ELSE IF msg[m].st \in {"gate", "failing"} THEN "posted"
    ELSE IF shown[m] > 0 THEN IF shown[m] = 1 THEN "seen" ELSE "repeated"
    ELSE IF msg[m].st = "discarded" THEN "discarded"
    ELSE IF msg[m].receipt = "ok" THEN IF Held(m) THEN "held" ELSE "lost"
    ELSE IF Kept(m) THEN "kept" ELSE "refused"

Contract == INSTANCE MailContract WITH
    phase <- [m \in Msgs |-> PhaseOf(m)],
    receipt <- [m \in Msgs |-> msg[m].receipt],
    route <- [m \in Msgs |-> IF msg[m].st = "unsent" THEN <<>>
                             ELSE <<msg[m].from, msg[m].to>>],
    over <- {a \in Agents : Over(a)}

(* Every step of the bus, the sessions and the hub calls is a step of the  *)
(* contract: one delivery per message, none after a failure unless it was  *)
(* kept, truthful receipts, nothing lost while its recipient lives.        *)
KeepsContract == Contract!Spec

(* The recipient rests behind a queue whose resume was refused or failed.  *)
Resting(a) == /\ a \in Agents /\ peer[a].session = "live"
              /\ ~peer[a].turn /\ peer[a].settling = "blocked"

(* What a send reports as delivered does not stay on its way: it reaches   *)
(* its recipient's context or goes with its recipient's session, unless    *)
(* the recipient rests behind a blocked queue, which only the next prompt  *)
(* or message ends (bus.ts, 94-102; agent-session.ts, 715-769).            *)
(* KeepsContract says where it can go.                                     *)
MessagesArrive ==
    \A m \in Msgs : PhaseOf(m) = "held" ~> PhaseOf(m) # "held" \/ Resting(msg[m].to)

(* A message a waiter has consumed is not dropped (tools/hub/index.ts, 471)*)
NeverDropsConsumed == \A m \in Msgs : msg[m].st # "discarded"
==============================================================================

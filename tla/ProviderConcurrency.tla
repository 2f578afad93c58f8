------------------------- MODULE ProviderConcurrency -------------------------
(***************************************************************************)
(* The per-provider cap on concurrent LLM requests: the wrapper that       *)
(* wrapStreamFnWithProviderConcurrency puts around a stream function, and  *)
(* the single shared Semaphore of the provider, resized in place when the  *)
(* configured limit changes                                                *)
(* (packages/coding-agent/src/task/provider-concurrency.ts).               *)
(*                                                                         *)
(* A client is one caller of the wrapped stream function (one agent turn). *)
(*   idle      no request                                                  *)
(*   waiting   suspended in semaphore.acquire                              *)
(*   granted   its acquire resolved; base() not yet answered               *)
(*   streaming base() returned a stream whose result() has not settled     *)
(***************************************************************************)
EXTENDS Semaphore, Integers, Sequences, FiniteSets

CONSTANTS Clients,  \* callers of the wrapped stream function
          Limits    \* values the maxConcurrency setting may take

ASSUME ClientsAssumption == IsFiniteSet(Clients)
ASSUME LimitsAssumption == Limits \subseteq Int /\ Limits # {}

VARIABLES setting,  \* the current settings value
          sem,      \* the provider's semaphore
          pc        \* pc[c]: where the call of client c stands

vars == <<setting, sem, pc>>

Holders == {c \in Clients : pc[c] \in {"granted", "streaming"}}
Waiting == {c \in Clients : pc[c] = "waiting"}

Init == /\ setting \in Limits
        /\ sem = New(setting)
        /\ pc = [c \in Clients |-> "idle"]

\* Every waiter a step took out of the queue and counted is granted its slot.
Wake(p, before, after) ==
    [c \in Clients |-> IF c \in Queued(before) \ Queued(after)
                       THEN "granted" ELSE p[c]]

\* getProviderSemaphore: resize only when the configured limit changed.
Shared == IF sem.max = NormalizeLimit(setting) THEN sem ELSE Resize(sem, setting)

ChangeSetting(n) == /\ n # setting
                    /\ setting' = n
                    /\ UNCHANGED <<sem, pc>>

\* The wrapper up to its first suspension, with a live signal.
Call(c) ==
    /\ pc[c] = "idle"
    /\ sem' = Acquire(Shared, c)
    /\ pc' = [Wake(pc, sem, Shared) EXCEPT
                ![c] = IF HasRoom(Shared) THEN "granted" ELSE "waiting"]
    /\ UNCHANGED setting

\* The wrapper called with an aborted signal: the limit is still applied,
\* then acquire() throws.
CallAborted(c) ==
    /\ pc[c] = "idle"
    /\ sem' = Shared
    /\ pc' = Wake(pc, sem, Shared)
    /\ UNCHANGED setting

\* The signal fires while the call waits: acquire() rejects.
AbortWaiting(c) ==
    /\ pc[c] = "waiting"
    /\ sem' = AbortWait(sem, c)
    /\ pc' = [pc EXCEPT ![c] = "idle"]
    /\ UNCHANGED setting

\* base() returned a stream; its result() is watched.
OpenStream(c) ==
    /\ pc[c] = "granted"
    /\ pc' = [pc EXCEPT ![c] = "streaming"]
    /\ UNCHANGED <<setting, sem>>

GiveBack(c) ==
    /\ sem' = Release(sem)
    /\ pc' = [Wake(pc, sem, Release(sem)) EXCEPT ![c] = "idle"]
    /\ UNCHANGED setting

\* Mutant: the failure path forgets to release.
BaseFails_Leaks(c) ==
    pc[c] = "granted" /\ pc' = [pc EXCEPT ![c] = "idle"] /\ UNCHANGED <<setting, sem>>

\* base() rejected: the catch branch releases.
BaseFails(c) == pc[c] = "granted" /\ GiveBack(c)

\* result() resolved or rejected (done, error or abort): release runs once.
StreamSettles(c) == pc[c] = "streaming" /\ GiveBack(c)

Next == \/ \E n \in Limits : ChangeSetting(n)
        \/ \E c \in Clients : \/ Call(c)
                              \/ CallAborted(c)
                              \/ AbortWaiting(c)
                              \/ OpenStream(c)
                              \/ BaseFails(c)
                              \/ StreamSettles(c)

\* A started request is driven on by the event loop and by the provider's
\* transport (which ends in done, error or abort); starting a request, firing a
\* signal and changing a setting are never forced.
Fairness == \A c \in Clients : /\ WF_vars(OpenStream(c) \/ BaseFails(c))
                               /\ WF_vars(StreamSettles(c))

Spec == Init /\ [][Next]_vars
FairSpec == Spec /\ Fairness

------------------------------------------------------------------------------
TypeOK == /\ setting \in Limits
          /\ sem \in [max : Nat, current : Nat, queue : Seq(Clients)]
          /\ pc \in [Clients -> {"idle", "waiting", "granted", "streaming"}]

\* The queue holds each suspended caller once and nobody else, so an admission
\* never wakes an abandoned waiter.
QueueIsWaiting ==
    /\ Queued(sem) = Waiting
    /\ \A i, j \in 1 .. Len(sem.queue) : sem.queue[i] = sem.queue[j] => i = j

\* The counter is exactly the number of callers that own a slot, and the queue
\* exactly those that wait for one: no abort, failure, resize or admission leaks
\* a slot, hands one out twice or forgets a caller.
SlotAccounting ==
    /\ sem.current = Cardinality(Holders)
    /\ QueueIsWaiting

\* Nobody waits while a slot is free under the ceiling in force.
WorkConserving == sem.queue # << >> => ~HasRoom(sem)

\* However the ceiling moves, a step that grants a slot ends at or below the
\* ceiling in force after it.
GrantsWithinLimit ==
    [][Holders' \subseteq Holders \/ sem'.max = 0
       \/ Cardinality(Holders') <= sem'.max]_vars

\* Slots are granted first come, first served: as long as a caller waits, nobody
\* who was behind it, or had not called yet, is granted a slot or gets ahead of it,
\* whoever aborts and however the ceiling moves.
Ahead(q, a, b) == \E i, j \in 1 .. Len(q) : i < j /\ q[i] = a /\ q[j] = b
FirstComeFirstServed ==
    [][\A a \in Waiting \cap Waiting' : \A b \in Clients \ (Holders \cup {a}) :
          (b \in Waiting => Ahead(sem.queue, a, b)) =>
            b \notin Holders' /\ (b \in Waiting' => Ahead(sem'.queue, a, b))]_vars

\* A caller never waits for ever: cancelled waiters and lowered ceilings do
\* not shrink the pool.
WaitersProceed == \A c \in Clients : pc[c] = "waiting" ~> pc[c] # "waiting"
==============================================================================

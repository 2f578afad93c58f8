------------------------------ MODULE Semaphore ------------------------------
(***************************************************************************)
(* The counting semaphore of packages/coding-agent/src/task/parallel.ts as *)
(* operators on its state, a record [max, current, queue].  JavaScript     *)
(* runs each method to completion, so one operator is one atomic step.     *)
(* max = 0 stands for POSITIVE_INFINITY.                                   *)
(***************************************************************************)
LOCAL INSTANCE Integers
LOCAL INSTANCE Sequences

\* A non-positive (or non-finite) setting means "unbounded".
NormalizeLimit(n) == IF n > 0 THEN n ELSE 0

New(n) == [max |-> NormalizeLimit(n), current |-> 0, queue |-> << >>]

\* #current < #max; its mutant admits one too many.
HasRoom_OffByOne(s) == s.max = 0 \/ s.current <= s.max
HasRoom(s) == s.max = 0 \/ s.current < s.max

\* The waiters queued in s.
Queued(s) == {s.queue[i] : i \in 1 .. Len(s.queue)}

\* Shift the first n waiters and count them as holders.
Admit(s, n) == [max |-> s.max,
                current |-> s.current + n,
                queue |-> SubSeq(s.queue, n + 1, Len(s.queue))]

Counting(s, k) == [max |-> s.max, current |-> k, queue |-> s.queue]
Queueing(s, q) == [max |-> s.max, current |-> s.current, queue |-> q]

\* Mutant: the newest caller goes to the head of the queue.
Acquire_AtHead(s, c) == IF HasRoom(s) THEN Counting(s, s.current + 1)
                                      ELSE Queueing(s, <<c>> \o s.queue)

\* acquire() with a signal that has not fired: take a slot or queue.
Acquire(s, c) == IF HasRoom(s) THEN Counting(s, s.current + 1)
                               ELSE Queueing(s, Append(s.queue, c))

\* Mutant: an aborted caller stays in the queue.
AbortWait_Abandoned(s, c) == s

\* onAbort: indexOf, then splice(index, 1), wherever the waiter stands.
AbortWait(s, c) ==
    LET q == s.queue
        i == CHOOSE j \in 1 .. Len(q) : q[j] = c
    IN  IF c \in Queued(s)
        THEN Queueing(s, SubSeq(q, 1, i - 1) \o SubSeq(q, i + 1, Len(q)))
        ELSE s

\* Mutant: the slot is given back twice.
Release_Twice(s) == Counting(s, s.current - 2)

\* release(): at most one waiter is admitted, and only under the ceiling.
Release(s) ==
    LET t == Counting(s, IF s.current > 0 THEN s.current - 1 ELSE 0)
    IN  IF HasRoom(t) /\ t.queue # << >> THEN Admit(t, 1) ELSE t

\* resize(): the waiters that fit under the ceiling are all admitted.
Fits(s) == IF s.max = 0 \/ s.max - s.current > Len(s.queue)
           THEN Len(s.queue)
           ELSE IF s.max > s.current THEN s.max - s.current ELSE 0

\* Mutant: a raised ceiling admits nobody.
Resize_NoAdmission(s, n) ==
    [max |-> NormalizeLimit(n), current |-> s.current, queue |-> s.queue]

Resize(s, n) ==
    LET t == [max |-> NormalizeLimit(n), current |-> s.current, queue |-> s.queue]
    IN  Admit(t, Fits(t))
==============================================================================

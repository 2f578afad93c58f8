-------------------------------- MODULE Queues --------------------------------
(***************************************************************************)
(* Array.prototype.filter on a queue, by the positions it keeps.  It is    *)
(* SelectSeq without the recursion, so that what it returns can be proved  *)
(* (module Queues_proofs).                                                 *)
(***************************************************************************)
EXTENDS Naturals, FiniteSets

\* The place that position k of keep has in the result.
Place(keep, k) == Cardinality({m \in keep : m <= k})

\* The n-th of the positions in keep.
Nth(keep, n) == CHOOSE k \in keep : Place(keep, k) = n

\* The entries of q at the positions in keep, in their order.
Only(q, keep) == [n \in 1 .. Cardinality(keep) |-> q[Nth(keep, n)]]
==============================================================================

---------------------------- MODULE MCToolBatch ----------------------------
(* Batches for TLC: pairs that cover five kinds of call.                     *)
EXTENDS ToolBatch

Foreground == [mode |-> "shared", interruptible |-> FALSE, prepared |-> "ok"]
Wait == [mode |-> "shared", interruptible |-> TRUE, prepared |-> "ok"]
Exclusive == [mode |-> "exclusive", interruptible |-> FALSE, prepared |-> "ok"]

Refused == [Wait EXCEPT !.prepared = "blocked"]
Invalid == [Exclusive EXCEPT !.prepared = "invalid"]

Pairs == {<<Foreground, Wait>>, <<Wait, Exclusive>>, <<Exclusive, Refused>>,
          <<Invalid, Wait>>}
=============================================================================

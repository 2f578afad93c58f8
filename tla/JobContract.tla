----------------------------- MODULE JobContract -----------------------------
(***************************************************************************)
(* What the AsyncJobManager promises the agents that start background work *)
(* (packages/coding-agent/src/prompts/tools/task.md, hub.md and the doc    *)
(* comments of async/job-manager.ts): a job that finishes is answered once,*)
(* to the session that started it; its result may be discarded only when   *)
(* that session is over; a cancelled job has no result.  Several jobs may  *)
(* move in one step, as when a session ends.                               *)
(***************************************************************************)
CONSTANT Jobs
VARIABLES phase, over

Init == phase = [j \in Jobs |-> "new"] /\ over = {}

Moves(p, isOver) ==
    {p} \cup
    CASE p = "new"     -> {"running"}
      [] p = "running" -> {"done", "cancelled"}
      [] p = "done"    -> {"told"} \cup (IF isOver THEN {"dropped"} ELSE {})
      [] OTHER         -> {}

Next ==
    /\ phase' \in [Jobs -> {"new", "running", "done", "told", "dropped", "cancelled"}]
    /\ over' \in SUBSET Jobs
    /\ over \subseteq over'
    /\ \A j \in Jobs : phase'[j] \in Moves(phase[j], j \in over')
    /\ \A j \in over' \ over : phase'[j] \notin {"new", "running"}

Spec == Init /\ [][Next]_<<phase, over>>
==============================================================================

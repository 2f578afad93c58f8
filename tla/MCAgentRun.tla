----------------------------- MODULE MCAgentRun -----------------------------
(* Runs of an agent for TLC; the configurations give the bounds.             *)
EXTENDS AgentRun
=============================================================================

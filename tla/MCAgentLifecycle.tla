-------------------------- MODULE MCAgentLifecycle --------------------------
(* Small sets of callers, releases and scans for one agent id.             *)
EXTENDS AgentLifecycle

CONSTANTS c1, c2, l1, x1, x2

OneCaller == {c1}
TwoCallers == {c1, c2}
OneRelease == {l1}
OneScan == {x1}
TwoScans == {x1, x2}
AllEndings == {"keepAlive", "oneShot", "isolated", "shutdown", "kill"}
KeptAlive == {"keepAlive"}
==============================================================================

------------------------ MODULE MCProviderConcurrency ------------------------
(* Four callers contend for a cap that moves between 1, 2 and unlimited.    *)
EXTENDS ProviderConcurrency, TLC

CONSTANTS c1, c2, c3, c4

MCClients == {c1, c2, c3, c4}
MCLimits == {-1, 1, 2}
==============================================================================

--------------------------- MODULE MCPeerMessages ---------------------------
EXTENDS PeerMessages
CONSTANTS main, s1, s2
MCAgents == {main, s1, s2}
MCSynchronous == {s1}
MCSteady == {s2}
MCPlanning == {main}
==============================================================================

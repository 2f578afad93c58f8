--------------------------- MODULE MCSessionTurns ---------------------------
EXTENDS SessionTurns
CONSTANTS p1, r1, r2, r3, r4, r5, w1, w2, k1
MCFromParent == {2}
MCPrompts == {p1}
MCResumes == {r1, r2, r3, r4, r5}
MCWakes == {w1, w2}
MCAborts == {k1}
==============================================================================

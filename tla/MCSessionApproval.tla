--------------------------- MODULE MCSessionApproval -------------------------
\* Three calls of one session's callback, the third from its own turn.
EXTENDS SessionApproval

CONSTANTS c1, c2, c3

MCCall == {c1, c2, c3}
MCInTurn == {c3}
==============================================================================

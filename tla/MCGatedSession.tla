---------------------------- MODULE MCGatedSession ---------------------------
\* Two calls: one from outside the session's turn, one from within it; a
\* green command, a yellow one and a red one.  What a command writes is left to
\* MCRiskEngine: here none writes.
EXTENDS GatedSession, TLC

CONSTANTS c1, c2, a, cat, sed, rm

MCCall == {c1, c2}
MCInTurn == {c2}
MCCommand == {cat, sed, rm}
MCPartsOf == cat :> <<{"green"}>> @@ sed :> <<{"yellow"}>> @@ rm :> <<{"red"}>>
MCNamesOf == cat :> <<a>> @@ sed :> <<a>> @@ rm :> <<a>>
MCWritesOf == [command \in MCCommand |-> {}]
MCBasenameOf == a :> "conf"
==============================================================================

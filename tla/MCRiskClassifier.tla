--------------------------- MODULE MCRiskClassifier --------------------------
\* Every command of up to three parts, each part any of the eight sets of
\* matching tables.
EXTENDS RiskClassifier, SequencesExt

MCCommands == BoundedSeq(Part, 3) \ {<< >>}
==============================================================================

------------------------------ MODULE MCDNAStore ------------------------------
\* One key in each table but services, which have two.
EXTENDS DNAStore, TLC

CONSTANTS s1, s2
MCServiceKey == {s1, s2}
MCSymmetry == Permutations(MCServiceKey) \cup Permutations(Value)
==============================================================================

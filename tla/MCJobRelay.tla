----------------------------- MODULE MCJobRelay -----------------------------
EXTENDS JobRelay, TLC

Symmetry == Permutations(Algos)
=============================================================================

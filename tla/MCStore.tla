------------------------------- MODULE MCStore -------------------------------
EXTENDS Store, TLC
Symmetry == Permutations(Task)
=============================================================================

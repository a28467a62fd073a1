--------------------------- MODULE MCConfigEntry ---------------------------
EXTENDS ConfigEntry, TLC
Symmetry == Permutations(Task)
=============================================================================

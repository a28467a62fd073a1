------------------------- MODULE MCConfigEntryItems -------------------------
EXTENDS ConfigEntryItems, TLC
Symmetry == Permutations(Entry) \union Permutations(UniqueId) \union Permutations(Flow)
=============================================================================

---------------------------- MODULE MCScriptRuns ----------------------------
EXTENDS ScriptRuns, TLC
Symmetry == Permutations(Run) \union Permutations(Stopper)
=============================================================================

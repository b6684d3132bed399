----------------------------- MODULE MCRunStore -----------------------------
EXTENDS RunStore, TLC

Symmetry == Permutations(Procs) \cup Permutations(EngineIds)
ProcSymmetry == Permutations(Procs)
=============================================================================

------------------------------- MODULE MCChat -------------------------------
EXTENDS Chat

Symmetry == Permutations(Procs)
=============================================================================

---------------------------- MODULE MCRunStream ----------------------------
EXTENDS RunStream, TLC

Symmetry == Permutations(Updaters)
=============================================================================

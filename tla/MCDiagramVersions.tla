------------------------- MODULE MCDiagramVersions -------------------------
EXTENDS DiagramVersions, TLC

Symmetry == Permutations(Procs) \cup Permutations(Ids) \cup Permutations(Yamls)
=============================================================================

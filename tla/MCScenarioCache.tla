-------------------------- MODULE MCScenarioCache --------------------------
EXTENDS ScenarioCache, TLC

CONSTANTS d1, d2, x1, x2

\* A scenario written by hand, and the generated one put back as it was.
MCPutYamls == {x1, x2, <<d1, NoHost>>}

MCPutFew == {x1, <<d1, NoHost>>}

Symmetry == Permutations(Procs)
=============================================================================

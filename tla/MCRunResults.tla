---------------------------- MODULE MCRunResults ----------------------------
EXTENDS RunResults, TLC

CONSTANTS c1, c2

\* An ordinary run; an optimization with its best candidate among the top ones;
\* one whose best candidate is known only by its id; one without a best.
MCBatches == {[best |-> NoCand, top |-> {}],
              [best |-> c1, top |-> {c1, c2}],
              [best |-> c1, top |-> {}],
              [best |-> NoCand, top |-> {c2}]}

Symmetry == Permutations(Procs)
=============================================================================

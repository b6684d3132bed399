----------------------------- MODULE MCPriceJobs -----------------------------
EXTENDS PriceJobs

CONSTANTS j1, j2, w1, w2

\* Two records of Azure with one key, in one batch; two of AWS, which the workers put into
\* one batch or into two.
MCKey(p, n) == IF p = "azure" /\ n = 2 THEN 1 ELSE IF p = "aws" /\ n = 3 THEN 2 ELSE n

Symmetry == Permutations({j1, j2}) \cup Permutations({w1, w2})
=============================================================================

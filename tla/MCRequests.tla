------------------------------ MODULE MCRequests ------------------------------
EXTENDS Requests

\* Like rules.json: the required rule names a field the engine does not know.
MCRules == {[field |-> "latency_ms", required |-> TRUE, compare |-> FALSE],
            [field |-> "vcpu", required |-> FALSE, compare |-> TRUE]}

Row(p, t, region, spec, price, option) ==
    [provider |-> p, type |-> t, region |-> region, spec |-> spec, price |-> price,
     option |-> option, lease |-> ""]

\* Price tables with two types in a region and one type in two; with a spec that is too
\* small, and a reservation of Azure with the price of the whole lease.
MCCatalogs ==
    {{Row("aws", "m", "r1", <<3, 8>>, 3, "ondemand"), Row("aws", "m", "r1", <<3, 8>>, 2, "reserved"),
      Row("aws", "t", "r1", <<3, 8>>, 1, "ondemand"), Row("aws", "m", "r2", <<3, 8>>, 2, "reserved")},
     {Row("aws", "s", "r1", <<2, 8>>, 1, "ondemand"), Row("aws", "m", "r1", <<4, 8>>, 2, "ondemand"),
      Row("azure", "d", "r1", <<4, 8>>, 3, "ondemand"), Row("azure", "d", "r1", <<4, 8>>, 17520, "reserved"),
      Row("gcp", "n", "r1", <<4, 8>>, 1, "ondemand")}}

\* As in migrations/0007: of Azure the cheapest tier costs nothing; of GCP none is known.
MCControlPlane ==
    [p \in {"aws", "azure", "gcp"} |-> CASE p = "aws" -> {1, 6} [] p = "azure" -> {0, 1} [] p = "gcp" -> {}]

\* A budget that not every cluster, and of some tables none, keeps within.
MCDesigns == {[spec |-> <<3, 8>>, users |-> 2, budget |-> 3000]}

Cand(v, users) == [spec |-> <<v, 8>>, users |-> users, cpu |-> 5, mem |-> 5]

\* A small candidate that misses the target beside a larger one that meets it; none of the
\* other run.
MCSimulated == [r \in {"q", "r"} |-> {IF r = "r" THEN <<Cand(2, 1), Cand(3, 3)>> ELSE <<>>}]

MCQuestions == {[end |-> "provider", provider |-> "aws", region |-> "r1"]}
MCBothCosts == MCQuestions \cup {[end |-> "cost", provider |-> "aws", region |-> "r1"]}
MCAllCosts == {[end |-> "cost", provider |-> "", region |-> ""]}

\* Suggesters are alike.
Symmetry == Permutations(Suggesters)
=============================================================================

-------------------------------- MODULE Costs --------------------------------
(***************************************************************************)
(* What a cluster costs: the matching of a candidate's size with the price *)
(* tables, the purchase options of the instance chosen, the plans made of  *)
(* them, and the plan recommended among those of all regions.              *)
(*                                                                         *)
(* A price row has a provider, region, instance type, spec, price (0: NULL;*)
(* the importer leaves out zero), purchase option and lease.  A spec is a  *)
(* pair of vCPUs and memory, in halves of a gigabyte.  Where the code      *)
(* depends on the order of a map or of rows of one price, an operator      *)
(* returns the set of all outcomes.  The matching of the nearest spec is   *)
(* never called, and is left out.                                          *)
(***************************************************************************)
EXTENDS Integers, SequencesExt, FiniteSetsExt

CONSTANTS
    Providers,     \* names; those of "azure" are treated differently
    Dollar,        \* units of price in a dollar
    ControlPlane   \* of each provider, the prices of its tiers of control planes

PriceRow == [provider : Providers, region : STRING, type : STRING, spec : Nat \X Nat,
             price : Nat, option : STRING, lease : STRING]

ASSUME CostAssumption ==
    /\ Dollar \in Nat \ {0}
    /\ ControlPlane \in [Providers -> SUBSET Nat]

HoursPerMonth == 730

\* The quotient of a by b, rounded.
Rounded(a, b) == (2 * a + b) \div (2 * b)

-----------------------------------------------------------------------------
(***************************************************************************)
(* Specs to try, and the rows that match.                                  *)
(***************************************************************************)

MemoryTiers == {1, 2, 4, 8, 16, 32, 64, 128, 256, 512, 1024}
VCPUTiers == {1, 2, 4, 8, 16, 32, 48, 64, 96, 128, 192}

NextMemoryTier(mem) ==
    LET above == {t \in MemoryTiers : t > mem} IN IF above = {} THEN 2 * mem ELSE Min(above)

\* Mutant of NextVCPUTier: the tier below.
VCPUTierBelow(vcpu) == Max({t \in VCPUTiers : t <= vcpu} \cup {0})

NextVCPUTier(vcpu) ==
    LET above == {t \in VCPUTiers : t >= vcpu} IN IF above = {} THEN vcpu ELSE Min(above)

\* candidateSpecCombinations.
SpecCombinations(spec) ==
    LET nv == NextVCPUTier(spec[1])
        nm == NextMemoryTier(spec[2])
    IN <<spec, <<spec[1], nm>>>> \o (IF nv = spec[1] THEN <<>> ELSE <<<<nv, spec[2]>>, <<nv, nm>>>>)

\* The queries leave out rows without a price, and of AWS and GCP dear ones.
Priced(r) == r.price > 0 /\ (r.provider = "azure" \/ r.price <= 10 * Dollar)

\* Mutant of Matches: the region is forgotten.
MatchesAnywhere(catalog, p, spec, regions) ==
    {r \in catalog : r.provider = p /\ r.spec = spec /\ Priced(r)}

\* findExactMatches and findExactMatchesInRegion.
Matches(catalog, p, spec, regions) ==
    {r \in catalog : r.provider = p /\ r.spec = spec /\ r.region \in regions /\ Priced(r)}

OnDemand(r) == r.option \in {"", "ondemand"}
Reserved(r) == r.option \in {"reserved", "reserved 3y"}

\* Of Azure what is reserved is taken at any price: it is that of the whole lease.
Affordable(rows) ==
    {r \in rows : (r.provider = "azure" /\ Reserved(r)) \/ r.price <= 10 * Dollar}

-----------------------------------------------------------------------------
(***************************************************************************)
(* Purchase options (groupPurchaseOptions).                                *)
(***************************************************************************)

Lease(r) == IF ~Reserved(r) THEN ""
            ELSE IF r.lease # "" THEN r.lease
            ELSE IF r.option = "reserved 3y" THEN "3yr" ELSE "1yr"

Option(r) == <<IF OnDemand(r) THEN "OnDemand" ELSE IF Reserved(r) THEN "Reserved" ELSE "Other", Lease(r)>>

\* A high price of a reservation of Azure is that of the lease.
Hourly(r) ==
    IF r.provider = "azure" /\ Reserved(r) /\ r.price > 100 * Dollar
    THEN Rounded(r.price, (IF Lease(r) = "3yr" THEN 36 ELSE 12) * HoursPerMonth)
    ELSE r.price

\* Of each option the lowest price; of Azure on demand the highest.
OptionPrice(rows, o) ==
    LET prices == {Hourly(r) : r \in {q \in rows : Option(q) = o}}
    IN IF o[1] = "OnDemand" /\ \E r \in rows : r.provider = "azure" THEN Max(prices) ELSE Min(prices)

\* The savings it computes go nowhere.
PurchaseOptions(rows) == [o \in {Option(r) : r \in rows} |-> OptionPrice(rows, o)]

-----------------------------------------------------------------------------
(***************************************************************************)
(* The match chosen, and its plans.                                        *)
(***************************************************************************)

NoMatch == [found |-> FALSE]

\* processExactMatches: the instance type with the most rows, with the region of its
\* cheapest row.
Chosen(rows) ==
    LET affordable == Affordable(rows)
        of(t) == {r \in affordable : r.type = t}
        types == {r.type : r \in affordable}
        best == {t \in types : \A u \in types : Cardinality(of(t)) >= Cardinality(of(u))}
    IN IF affordable = {} THEN {NoMatch}
       ELSE UNION {{[found |-> TRUE, type |-> t, spec |-> first.spec, region |-> first.region,
                     options |-> PurchaseOptions(of(t))]
                       : first \in {r \in of(t) : \A q \in of(t) : r.price <= q.price}} : t \in best}

\* calcForProvider, calcForProviderInRegion: of the first spec with a row.
MatchFor(catalog, p, spec, regions) ==
    LET tries == SpecCombinations(spec)
        hits == {i \in DOMAIN tries : Matches(catalog, p, tries[i], regions) # {}}
    IN IF hits = {} THEN {NoMatch} ELSE Chosen(Matches(catalog, p, tries[Min(hits)], regions))

\* GetControlPlanePrice: of the cheapest tier, which may cost nothing; 0 if there is no row.
ControlPlanePrice(p) == IF ControlPlane[p] = {} THEN 0 ELSE Min(ControlPlane[p])

MonthlyTotal(p, nodes, price) == (nodes * price + ControlPlanePrice(p)) * HoursPerMonth

\* Plans on demand and with a lease of one or three years.
PlansOf(match, p, nodes, budget) ==
    IF ~match.found THEN {}
    ELSE {[provider |-> p, region |-> match.region, type |-> match.type, spec |-> match.spec,
           option |-> o, price |-> match.options[o],
           month |-> MonthlyTotal(p, nodes, match.options[o]),
           within |-> budget > 0 /\ MonthlyTotal(p, nodes, match.options[o]) <= budget]
             : o \in DOMAIN match.options
                     \cap {<<"OnDemand", "">>, <<"Reserved", "1yr">>, <<"Reserved", "3yr">>}}

\* CalculateClusterCostsForProvider.  There is no outcome but an error if there is a match
\* and no row for the control plane.
ProviderPlans(catalog, p, spec, nodes, region, budget) ==
    {PlansOf(m, p, nodes, budget) :
       m \in {x \in MatchFor(catalog, p, spec, {region}) : x.found => ControlPlane[p] # {}}}

\* CalculateClusterCosts for one provider: in the region asked for if it has a match there,
\* else in all; that there is no row for the control plane is ignored.
ClusterPlans(catalog, p, spec, nodes, asked, budget) ==
    LET everywhere == {r.region : r \in catalog}
        there == IF asked = {} THEN {NoMatch} ELSE MatchFor(catalog, p, spec, asked)
        m0 == IF there = {NoMatch} THEN MatchFor(catalog, p, spec, everywhere) ELSE there
    IN {PlansOf(m, p, nodes, budget) : m \in m0}

-----------------------------------------------------------------------------
(***************************************************************************)
(* The recommendation.                                                     *)
(***************************************************************************)

\* GetRegionsForCandidateSpec: those of the first spec with a row, priced or not.
RegionsFor(catalog, p, spec) ==
    LET tries == SpecCombinations(spec)
        rows(i) == {r \in catalog : r.provider = p /\ r.spec = tries[i]}
        hits == {i \in DOMAIN tries : rows(i) # {}}
    IN IF hits = {} THEN {} ELSE {r.region : r \in rows(Min(hits))}

RegionJobs(catalog, spec) ==
    UNION {{<<p, region>> : region \in RegionsFor(catalog, p, spec)} : p \in Providers}

\* The plans of some jobs, those that met no error.
JobPlans(catalog, jobs, spec, nodes, budget) ==
    LET of(j) == ProviderPlans(catalog, j[1], spec, nodes, j[2], budget)
        answered == {j \in jobs : of(j) # {}}
    IN {UNION Range(f) : f \in {g \in [answered -> UNION {of(j) : j \in jobs}] :
                                   \A j \in answered : g[j] \in of(j)}}

\* Mutant of Cheapest: without the control plane.
CheapestNodes(plans) == {a \in plans : \A b \in plans : a.price <= b.price}

Cheapest(plans) == {a \in plans : \A b \in plans : a.month <= b.month}

\* The cheapest within the budget, else the cheapest; plans of one price are ordered by
\* their names.
Recommendations(plans, budget) ==
    LET within == {a \in plans : a.within}
        pool == IF within # {} THEN within ELSE plans
    IN IF plans = {} THEN {[fits |-> FALSE, plan |-> {}]}
       ELSE {[fits |-> budget = 0 \/ within # {}, plan |-> {a}] : a \in Cheapest(pool)}

\* normalizeBestCandidatePerNode: a spec that looks like the total of the cluster is divided
\* by its nodes.
PerNode(spec, nodes, design) ==
    LET total(i) == spec[i] > 0 /\ design[i] > 0 /\ spec[i] = design[i] * nodes
    IN IF nodes <= 1 \/ ~(total(1) \/ (total(2) /\ design[2] % 2 = 0)) THEN spec
       ELSE <<IF spec[1] % nodes = 0 THEN spec[1] \div nodes ELSE spec[1], Rounded(spec[2], nodes)>>
=============================================================================

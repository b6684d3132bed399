--------------------------- MODULE RequestsProofs ---------------------------
(***************************************************************************)
(* Proofs about Requests, for any requests at a time, rows, designs,       *)
(* candidates, rules and price tables; and, first, about what Costs        *)
(* computes: a plan is made of price rows that match, none of which is     *)
(* smaller than the spec asked for.                                        *)
(***************************************************************************)
EXTENDS Requests, FiniteSetTheorems, WellFoundedInduction, SequenceTheorems, TLAPS

(***************************************************************************)
(* Numbers.                                                                *)
(***************************************************************************)

LEMMA LeastOK ==
    ASSUME NEW S \in SUBSET Nat, S # {}
    PROVE  Min(S) \in S /\ \A y \in S : Min(S) <= y
<1>1. PICK x \in S : \A y \in S : ~(<<y, x>> \in OpToRel(<, Nat))
  BY NatLessThanWellFounded, WFMin
<1>2. \A y \in S : ~(y < x)
  BY <1>1 DEF OpToRel
<1>3. \A y \in S : x <= y
  BY <1>2
<1> QED BY <1>3 DEF Min

\* Numbers that are numbered are bounded: look at the least length for which some are not.
LEMMA BoundedOK ==
    ASSUME NEW n \in Nat, NEW f \in [1 .. n -> Nat]
    PROVE  \E b \in Nat : \A k \in 1 .. n : f[k] <= b
<1> DEFINE Bounded(g, m) == \E b \in Nat : \A k \in 1 .. m : g[k] <= b
           bad == {m \in Nat : \E g \in [1 .. m -> Nat] : ~Bounded(g, m)}
<1>1. SUFFICES ASSUME bad # {} PROVE FALSE
  <2>1. n \in bad \/ Bounded(f, n)
    OBVIOUS
  <2> QED BY <2>1
<1>2. PICK m \in bad : \A y \in bad : m <= y
  BY <1>1, LeastOK
<1>3. m \in Nat
  OBVIOUS
<1>4. PICK g \in [1 .. m -> Nat] : ~Bounded(g, m)
  OBVIOUS
<1> HIDE DEF bad
<1>5. m # 0
  <2> SUFFICES ASSUME m = 0 PROVE FALSE
    OBVIOUS
  <2>1. \A k \in 1 .. m : g[k] <= 0
    OBVIOUS
  <2> QED BY <2>1, <1>4
<1>6. m - 1 \in Nat /\ m - 1 \notin bad
  <2>1. m - 1 \in Nat /\ ~(m <= m - 1)
    BY <1>3, <1>5
  <2> QED BY <2>1, <1>2
<1> DEFINE h == [k \in 1 .. m - 1 |-> g[k]]
<1>7. h \in [1 .. m - 1 -> Nat]
  <2>1. \A k \in 1 .. m - 1 : k \in 1 .. m
    BY <1>3, <1>6
  <2> QED BY <2>1
<1>8. Bounded(h, m - 1)
  <2> HIDE DEF h, Bounded
  <2> QED BY <1>6, <1>7 DEF bad
<1>9. PICK b \in Nat : \A k \in 1 .. m - 1 : h[k] <= b
  BY <1>8
<1>10. g[m] \in Nat
  <2>1. m \in 1 .. m
    BY <1>5, <1>3
  <2> QED BY <2>1
<1>11. \A k \in 1 .. m : g[k] <= b + g[m]
  <2> TAKE k \in 1 .. m
  <2>1. CASE k = m
    BY <2>1, <1>10
  <2>2. CASE k # m
    <3>1. k \in 1 .. m - 1
      BY <2>2, <1>3
    <3>2. g[k] \in Nat
      BY <1>3
    <3>3. h[k] = g[k] /\ h[k] <= b
      BY <3>1, <1>9
    <3> QED BY <3>2, <3>3, <1>10
  <2> QED BY <2>1, <2>2
<1>12. b + g[m] \in Nat
  BY <1>10
<1> HIDE DEF h
<1> QED BY <1>4, <1>11, <1>12

LEMMA GreatestOK ==
    ASSUME NEW S \in SUBSET Nat, S # {}, IsFiniteSet(S)
    PROVE  Max(S) \in S /\ \A y \in S : y <= Max(S)
<1>1. PICK seq \in Seq(S) : \A s \in S : \E n \in 1 .. Len(seq) : seq[n] = s
  BY DEF IsFiniteSet
<1>2. Len(seq) \in Nat /\ seq \in [1 .. Len(seq) -> Nat]
  <2>1. Len(seq) \in Nat /\ seq \in [1 .. Len(seq) -> S]
    OBVIOUS
  <2> QED BY <2>1
<1>3. PICK b \in Nat : \A k \in 1 .. Len(seq) : seq[k] <= b
  BY <1>2, BoundedOK
<1>4. \A s \in S : s \in Nat /\ s <= b
  BY <1>1, <1>3
<1> DEFINE below == {b - s : s \in S}
<1>5. below \subseteq Nat /\ below # {}
  BY <1>4
<1>6. PICK s \in S : \A y \in below : b - s <= y
  <2>1. Min(below) \in below /\ \A y \in below : Min(below) <= y
    BY <1>5, LeastOK
  <2> QED BY <2>1
<1>7. \A y \in S : y <= s
  <2> TAKE y \in S
  <2>1. b - s <= b - y
    BY <1>6
  <2> QED BY <2>1
<1>8. \E x \in S : \A y \in S : x >= y
  BY <1>7
<1> QED BY <1>8 DEF Max

(***************************************************************************)
(* Specs and prices.                                                       *)
(***************************************************************************)

LEMMA TiersOK ==
    ASSUME NEW n \in Nat
    PROVE  /\ NextMemoryTier(n) \in Nat /\ NextMemoryTier(n) >= n
           /\ NextVCPUTier(n) \in Nat /\ NextVCPUTier(n) >= n
<1>1. ASSUME {t \in MemoryTiers : t > n} # {}
      PROVE  NextMemoryTier(n) \in Nat /\ NextMemoryTier(n) >= n
  <2>1. {t \in MemoryTiers : t > n} \in SUBSET Nat
    BY DEF MemoryTiers
  <2>2. Min({t \in MemoryTiers : t > n}) \in {t \in MemoryTiers : t > n}
    BY <1>1, <2>1, LeastOK
  <2> QED BY <1>1, <2>1, <2>2 DEF NextMemoryTier
<1>2. ASSUME {t \in VCPUTiers : t >= n} # {}
      PROVE  NextVCPUTier(n) \in Nat /\ NextVCPUTier(n) >= n
  <2>1. {t \in VCPUTiers : t >= n} \in SUBSET Nat
    BY DEF VCPUTiers
  <2>2. Min({t \in VCPUTiers : t >= n}) \in {t \in VCPUTiers : t >= n}
    BY <1>2, <2>1, LeastOK
  <2> QED BY <1>2, <2>1, <2>2 DEF NextVCPUTier
<1> QED BY <1>1, <1>2 DEF NextMemoryTier, NextVCPUTier

\* candidateSpecCombinations only ever rounds up.
LEMMA CombinationsOK ==
    ASSUME NEW spec \in Nat \X Nat
    PROVE  SpecCombinations(spec) \in Seq({s \in Nat \X Nat : s[1] >= spec[1] /\ s[2] >= spec[2]})
<1> DEFINE nv == NextVCPUTier(spec[1])
           nm == NextMemoryTier(spec[2])
           tail == IF nv = spec[1] THEN <<>> ELSE <<<<nv, spec[2]>>, <<nv, nm>>>>
           Fine(s) == s \in Nat \X Nat /\ s[1] >= spec[1] /\ s[2] >= spec[2]
<1>1. spec[1] \in Nat /\ spec[2] \in Nat /\ spec = <<spec[1], spec[2]>>
  OBVIOUS
<1>2. nv \in Nat /\ nv >= spec[1] /\ nm \in Nat /\ nm >= spec[2]
  BY <1>1, TiersOK
<1>3. Fine(spec) /\ Fine(<<spec[1], nm>>) /\ Fine(<<nv, spec[2]>>) /\ Fine(<<nv, nm>>)
  BY <1>1, <1>2
<1>4. SpecCombinations(spec) = <<spec, <<spec[1], nm>>>> \o tail
  BY DEF SpecCombinations
<1> HIDE DEF nv, nm, Fine
<1> DEFINE Fines == {s \in Nat \X Nat : Fine(s)}
<1>5. <<spec, <<spec[1], nm>>>> \in Seq(Fines)
  <2>1. spec \in Fines /\ <<spec[1], nm>> \in Fines
    BY <1>1, <1>2, <1>3
  <2> HIDE DEF Fines
  <2> QED BY <2>1
<1>6. tail \in Seq(Fines)
  <2>1. <<nv, spec[2]>> \in Fines /\ <<nv, nm>> \in Fines
    BY <1>1, <1>2, <1>3
  <2> HIDE DEF Fines
  <2> QED BY <2>1
<1>7. SpecCombinations(spec) \in Seq(Fines)
  <2> HIDE DEF Fines, tail
  <2> QED BY <1>4, <1>5, <1>6
<1> QED BY <1>7 DEF Fine

LEMMA HourlyOK ==
    ASSUME NEW r \in PriceRow
    PROVE  Hourly(r) \in Nat
<1>1. r.price \in Nat
  BY DEF PriceRow
<1>2. Rounded(r.price, 36 * HoursPerMonth) \in Nat /\ Rounded(r.price, 12 * HoursPerMonth) \in Nat
  BY <1>1 DEF Rounded, HoursPerMonth
<1> QED BY <1>1, <1>2 DEF Hourly

\* groupPurchaseOptions: the price of an option is that of a row.
LEMMA OptionPriceOK ==
    ASSUME NEW offers \in SUBSET PriceRow, IsFiniteSet(offers), NEW o \in {Option(r) : r \in offers}
    PROVE  \E r \in offers : Option(r) = o /\ Hourly(r) = OptionPrice(offers, o)
<1> DEFINE of == {q \in offers : Option(q) = o}
           prices == {Hourly(r) : r \in of}
<1>1. of # {} /\ prices # {} /\ prices \in SUBSET Nat
  BY HourlyOK
<1>2. IsFiniteSet(prices)
  <2>1. IsFiniteSet(of)
    BY FS_Subset
  <2>2. PICK seq \in Seq(of) : \A r \in of : \E n \in 1 .. Len(seq) : seq[n] = r
    BY <2>1 DEF IsFiniteSet
  <2> DEFINE images == [n \in 1 .. Len(seq) |-> Hourly(seq[n])]
  <2>3. images \in Seq(prices) /\ Len(images) = Len(seq)
    BY <2>2
  <2>4. \A x \in prices : \E n \in 1 .. Len(images) : images[n] = x
    BY <2>2, <2>3
  <2> HIDE DEF images, prices
  <2> QED BY <2>3, <2>4 DEF IsFiniteSet
<1>3. Min(prices) \in prices /\ Max(prices) \in prices
  BY <1>1, <1>2, LeastOK, GreatestOK
<1>4. OptionPrice(offers, o) \in prices
  BY <1>3 DEF OptionPrice
<1> QED BY <1>4

(***************************************************************************)
(* Matches and plans.                                                      *)
(***************************************************************************)

\* Rows that p sells of a type.
OfType(offers, p, type, spec) ==
    {r \in offers : r.provider = p /\ r.type = type /\ r.spec = spec}

\* processExactMatches, of rows of one provider and spec: what is chosen is sold, each
\* option at its price, and in the region named if there is only one.
LEMMA ChosenOK ==
    ASSUME NEW offers \in SUBSET PriceRow, IsFiniteSet(offers), NEW p, NEW spec,
           \A r \in offers : r.provider = p /\ r.spec = spec,
           NEW m \in Chosen(offers), m.found
    PROVE  /\ m.spec = spec
           /\ \E r \in offers : r.region = m.region
           /\ \A o \in DOMAIN m.options :
                \E r \in OfType(offers, p, m.type, spec) : Option(r) = o /\ Hourly(r) = m.options[o]
<1> DEFINE affordable == Affordable(offers)
           of(t) == {r \in affordable : r.type = t}
           types == {r.type : r \in affordable}
           best == {t \in types : \A u \in types : Cardinality(of(t)) >= Cardinality(of(u))}
           cheap(t) == {r \in of(t) : \A q \in of(t) : r.price <= q.price}
           match(t, first) == [found |-> TRUE, type |-> t, spec |-> first.spec,
                               region |-> first.region, options |-> PurchaseOptions(of(t))]
<1>1. affordable \subseteq offers /\ affordable # {}
  <2>1. affordable = {} => m = NoMatch
    BY DEF Chosen
  <2> QED BY <2>1 DEF Affordable, NoMatch
<1>2. PICK t \in best : m \in {match(t, first) : first \in cheap(t)}
  BY <1>1 DEF Chosen
<1>3. PICK first \in cheap(t) : m = match(t, first)
  BY <1>2
<1>4. first \in offers /\ m.type = t /\ m.spec = spec /\ m.region = first.region
  BY <1>1, <1>3
<1>5. m.options = PurchaseOptions(of(t))
  BY <1>3
<1>6. of(t) \in SUBSET PriceRow /\ IsFiniteSet(of(t)) /\ of(t) \subseteq OfType(offers, p, t, spec)
  BY <1>1, FS_Subset DEF OfType
<1> HIDE DEF of
<1>7. ASSUME NEW o \in DOMAIN m.options
      PROVE  \E r \in OfType(offers, p, t, spec) : Option(r) = o /\ Hourly(r) = m.options[o]
  <2>1. o \in {Option(r) : r \in of(t)} /\ m.options[o] = OptionPrice(of(t), o)
    BY <1>5 DEF PurchaseOptions
  <2> QED BY <2>1, <1>6, OptionPriceOK
<1> QED BY <1>4, <1>7

\* What a match stands for: rows of the table that are large enough.
Backed(m, priceTable, p, spec, regions) ==
    /\ m.spec \in Nat \X Nat /\ m.spec[1] >= spec[1] /\ m.spec[2] >= spec[2]
    /\ m.region \in regions
    /\ \A o \in DOMAIN m.options :
         \E r \in priceTable :
           /\ r.provider = p /\ r.type = m.type /\ r.spec = m.spec /\ r.region \in regions
           /\ Option(r) = o /\ Hourly(r) = m.options[o]

LEMMA MatchForOK ==
    ASSUME NEW priceTable \in SUBSET PriceRow, IsFiniteSet(priceTable), NEW p,
           NEW spec \in Nat \X Nat, NEW regions,
           NEW m \in MatchFor(priceTable, p, spec, regions), m.found
    PROVE  Backed(m, priceTable, p, spec, regions)
<1> DEFINE tries == SpecCombinations(spec)
           hits == {i \in DOMAIN tries : Matches(priceTable, p, tries[i], regions) # {}}
           i == Min(hits)
           offers == Matches(priceTable, p, tries[i], regions)
<1>1. hits # {} /\ m \in Chosen(offers)
  <2>1. hits = {} => m = NoMatch
    BY DEF MatchFor
  <2> QED BY <2>1 DEF MatchFor, NoMatch
<1> DEFINE large == {s \in Nat \X Nat : s[1] >= spec[1] /\ s[2] >= spec[2]}
<1>2. tries \in Seq(large) /\ i \in DOMAIN tries
  <2>1. tries \in Seq(large)
    BY CombinationsOK
  <2>2. hits \in SUBSET Nat
    BY <2>1
  <2>3. i \in hits
    BY <1>1, <2>2, LeastOK
  <2> QED BY <2>1, <2>3
<1>3. tries[i] \in Nat \X Nat /\ tries[i][1] >= spec[1] /\ tries[i][2] >= spec[2]
  <2>1. tries[i] \in large
    <3> HIDE DEF tries, i, large
    <3> QED BY <1>2
  <2> QED BY <2>1
<1>4. offers \in SUBSET PriceRow /\ IsFiniteSet(offers) /\ offers \subseteq priceTable
  BY FS_Subset DEF Matches
<1>5. \A r \in offers : r.provider = p /\ r.spec = tries[i] /\ r.region \in regions
  BY DEF Matches
<1> HIDE DEF offers, i, tries, hits
<1>6. /\ m.spec = tries[i]
      /\ \E r \in offers : r.region = m.region
      /\ \A o \in DOMAIN m.options :
           \E r \in OfType(offers, p, m.type, tries[i]) : Option(r) = o /\ Hourly(r) = m.options[o]
  BY <1>1, <1>4, <1>5, ChosenOK
<1> QED BY <1>3, <1>4, <1>5, <1>6 DEF OfType, Backed

\* A plan that a row of the table backs, if it is to be had where the plan says.
Sound(plan, priceTable, spec, budget, here) ==
    /\ plan.spec \in Nat \X Nat /\ plan.spec[1] >= spec[1] /\ plan.spec[2] >= spec[2]
    /\ plan.month \in Int
    /\ plan.within <=> budget > 0 /\ plan.month <= budget
    /\ here => \E r \in priceTable :
                 /\ r.provider = plan.provider /\ r.region = plan.region
                 /\ r.type = plan.type /\ r.spec = plan.spec
                 /\ Option(r) = plan.option /\ Hourly(r) = plan.price

LEMMA ControlPlanePriceOK ==
    ASSUME NEW p \in Providers
    PROVE  ControlPlanePrice(p) \in Nat
<1>1. ControlPlane[p] \in SUBSET Nat
  BY CostAssumption
<1>2. ControlPlane[p] # {} => Min(ControlPlane[p]) \in Nat
  BY <1>1, LeastOK
<1> QED BY <1>2 DEF ControlPlanePrice

LEMMA PlansOfOK ==
    ASSUME NEW priceTable \in SUBSET PriceRow, NEW p \in Providers,
           NEW spec \in Nat \X Nat, NEW regions, NEW nodes \in Nat, NEW budget \in Nat,
           NEW m, m.found => Backed(m, priceTable, p, spec, regions),
           NEW plan \in PlansOf(m, p, nodes, budget)
    PROVE  Sound(plan, priceTable, spec, budget, \E region : regions = {region})
<1>1. m.found
  BY DEF PlansOf
<1>2. PICK o \in DOMAIN m.options :
        plan = [provider |-> p, region |-> m.region, type |-> m.type, spec |-> m.spec,
                option |-> o, price |-> m.options[o],
                month |-> MonthlyTotal(p, nodes, m.options[o]),
                within |-> budget > 0 /\ MonthlyTotal(p, nodes, m.options[o]) <= budget]
  BY <1>1 DEF PlansOf
<1>3. PICK r \in priceTable :
        /\ r.provider = p /\ r.type = m.type /\ r.spec = m.spec /\ r.region \in regions
        /\ Option(r) = o /\ Hourly(r) = m.options[o]
  BY <1>1 DEF Backed
<1>4. plan.month \in Int
  <2>1. m.options[o] \in Nat /\ ControlPlanePrice(p) \in Nat
    BY <1>3, HourlyOK, ControlPlanePriceOK
  <2>2. plan.month = (nodes * m.options[o] + ControlPlanePrice(p)) * 730
    BY <1>2 DEF MonthlyTotal, HoursPerMonth
  <2>3. nodes * m.options[o] \in Int
    BY <2>1
  <2> QED BY <2>1, <2>2, <2>3
<1>5. plan.spec = m.spec /\ m.spec \in Nat \X Nat /\ m.spec[1] >= spec[1] /\ m.spec[2] >= spec[2]
  BY <1>1, <1>2 DEF Backed
<1>6. plan.within <=> budget > 0 /\ plan.month <= budget
  BY <1>2
<1>7. ASSUME NEW region, regions = {region}
      PROVE  /\ r.provider = plan.provider /\ r.region = plan.region
             /\ r.type = plan.type /\ r.spec = plan.spec
             /\ Option(r) = plan.option /\ Hourly(r) = plan.price
  <2>1. m.region = region /\ r.region = region
    BY <1>1, <1>3, <1>7 DEF Backed
  <2> QED BY <1>2, <1>3, <2>1
<1> QED BY <1>4, <1>5, <1>6, <1>7 DEF Sound

(***************************************************************************)
(* The recommendation, and the spec of a node.                             *)
(***************************************************************************)

\* A recommendation among plans is the cheapest of those within the budget, or of all if
\* there are none; it says which.
LEMMA RecommendationsOK ==
    ASSUME NEW plans, NEW budget \in Nat,
           \A b \in plans : b.month \in Int /\ (b.within <=> budget > 0 /\ b.month <= budget),
           NEW rec \in Recommendations(plans, budget), NEW plan \in rec.plan
    PROVE  /\ rec.fits = (budget = 0 \/ \E b \in plans : b.month <= budget)
           /\ \A b \in plans : plan.month <= b.month
<1> DEFINE within == {a \in plans : a.within}
           pool == IF within # {} THEN within ELSE plans
<1>1. rec \in {[fits |-> budget = 0 \/ within # {}, plan |-> {a}] : a \in Cheapest(pool)}
  BY DEF Recommendations
<1>2. rec.fits = (budget = 0 \/ within # {}) /\ plan \in Cheapest(pool)
  <2> DEFINE fits == budget = 0 \/ within # {}
  <2>1. fits \in BOOLEAN
    OBVIOUS
  <2> HIDE DEF pool, fits
  <2>2. PICK a \in Cheapest(pool) : rec = [fits |-> fits, plan |-> {a}]
    BY <1>1 DEF fits
  <2>3. rec.fits = fits /\ plan = a
    BY <2>2
  <2> QED BY <2>3 DEF fits
<1>3. plan \in pool /\ \A b \in pool : plan.month <= b.month
  BY <1>2 DEF Cheapest
<1>4. budget # 0 => (within # {} <=> \E b \in plans : b.month <= budget)
  OBVIOUS
<1>5. \A b \in plans : plan.month <= b.month
  <2> TAKE b \in plans
  <2>1. CASE b \in pool
    BY <1>3, <2>1
  <2>2. CASE b \notin pool
    <3>1. plan.within /\ ~b.within
      BY <1>3, <2>2
    <3> QED BY <3>1, <1>3
  <2> QED BY <2>1, <2>2
<1> QED BY <1>2, <1>4, <1>5

LEMMA ProviderPlansOK ==
    ASSUME NEW priceTable \in SUBSET PriceRow, IsFiniteSet(priceTable), NEW p \in Providers,
           NEW spec \in Nat \X Nat, NEW nodes \in Nat, NEW region, NEW budget \in Nat,
           NEW plans \in ProviderPlans(priceTable, p, spec, nodes, region, budget), NEW plan \in plans
    PROVE  Sound(plan, priceTable, spec, budget, TRUE)
<1>1. PICK m \in MatchFor(priceTable, p, spec, {region}) : plan \in PlansOf(m, p, nodes, budget)
  BY DEF ProviderPlans
<1>2. m.found => Backed(m, priceTable, p, spec, {region})
  BY MatchForOK
<1>3. Sound(plan, priceTable, spec, budget, \E r : {region} = {r})
  BY <1>1, <1>2, PlansOfOK
<1> QED BY <1>3 DEF Sound

LEMMA ClusterPlansOK ==
    ASSUME NEW priceTable \in SUBSET PriceRow, IsFiniteSet(priceTable), NEW p \in Providers,
           NEW spec \in Nat \X Nat, NEW nodes \in Nat, NEW asked, NEW budget \in Nat,
           NEW plans \in ClusterPlans(priceTable, p, spec, nodes, asked, budget), NEW plan \in plans
    PROVE  Sound(plan, priceTable, spec, budget, FALSE)
<1> DEFINE everywhere == {r.region : r \in priceTable}
<1>1. PICK regions \in {asked, everywhere} :
        \E m \in MatchFor(priceTable, p, spec, regions) \cup {NoMatch} : plan \in PlansOf(m, p, nodes, budget)
  BY DEF ClusterPlans
<1>2. PICK m \in MatchFor(priceTable, p, spec, regions) \cup {NoMatch} : plan \in PlansOf(m, p, nodes, budget)
  BY <1>1
<1>3. m.found => Backed(m, priceTable, p, spec, regions)
  BY MatchForOK DEF NoMatch
<1>4. Sound(plan, priceTable, spec, budget, \E r : regions = {r})
  <2> HIDE DEF everywhere
  <2> QED BY <1>2, <1>3, PlansOfOK
<1> QED BY <1>4 DEF Sound

\* The plans of jobs are as sound as those of each job; a job is about one region.
LEMMA JobPlansOK ==
    ASSUME NEW priceTable \in SUBSET PriceRow, IsFiniteSet(priceTable),
           NEW spec \in Nat \X Nat, NEW nodes \in Nat, NEW budget \in Nat,
           NEW jobs, \A j \in jobs : j[1] \in Providers,
           NEW plans \in JobPlans(priceTable, jobs, spec, nodes, budget), NEW plan \in plans
    PROVE  Sound(plan, priceTable, spec, budget, TRUE)
<1> DEFINE of(j) == ProviderPlans(priceTable, j[1], spec, nodes, j[2], budget)
           answered == {j \in jobs : of(j) # {}}
<1>1. PICK j \in jobs : \E ps \in of(j) : plan \in ps
  <2>1. PICK f \in [answered -> UNION {of(j) : j \in jobs}] :
          plans = UNION Range(f) /\ \A j \in answered : f[j] \in of(j)
    BY DEF JobPlans
  <2>2. PICK j \in answered : plan \in f[j]
    BY <2>1 DEF Range
  <2> QED BY <2>1, <2>2
<1> QED BY <1>1, ProviderPlansOK

LEMMA PerNodeOK ==
    ASSUME NEW spec \in Nat \X Nat, NEW design \in Nat \X Nat, NEW nodes \in Nat
    PROVE  PerNode(spec, nodes, design) \in Nat \X Nat
<1>1. ASSUME NEW a \in Nat, NEW b \in Nat, b > 1
      PROVE  a \div b \in Nat /\ Rounded(a, b) \in Nat
  <2>1. a \div b \in Nat
    BY <1>1
  <2>2. 2 * a + b \in Nat /\ 2 * b \in Nat /\ 2 * b > 1
    BY <1>1
  <2>3. (2 * a + b) \div (2 * b) \in Nat
    BY <2>2
  <2> QED BY <2>1, <2>3 DEF Rounded
<1> QED BY <1>1 DEF PerNode

(***************************************************************************)
(* The order of candidates.                                                *)
(***************************************************************************)

LEMMA ArgMinOK ==
    ASSUME NEW n \in Nat, NEW f \in [1 .. n -> Int], NEW T \in SUBSET (1 .. n), T # {}
    PROVE  \E i \in T : \A j \in T : f[i] <= f[j]
<1> DEFINE Least(S) == \E i \in S : \A j \in S : f[i] <= f[j]
           bad == {m \in 0 .. n : \E S \in SUBSET (1 .. m) : S # {} /\ ~Least(S)}
<1>1. SUFFICES ASSUME bad # {} PROVE FALSE
  <2>1. n \in bad \/ Least(T)
    OBVIOUS
  <2> QED BY <2>1
<1>2. PICK m \in bad : \A y \in bad : m <= y
  <2>1. bad \in SUBSET Nat
    OBVIOUS
  <2> QED BY <1>1, <2>1, LeastOK
<1>3. PICK S \in SUBSET (1 .. m) : S # {} /\ ~Least(S)
  OBVIOUS
<1>4. m \in 0 .. n /\ m # 0
  <2>1. m \in 0 .. n
    OBVIOUS
  <2>2. m = 0 => S = {}
    OBVIOUS
  <2> HIDE DEF Least, bad
  <2> QED BY <2>1, <2>2, <1>3
<1>5. \A R \in SUBSET (1 .. m - 1) : R # {} => Least(R)
  <2>1. m - 1 \in 0 .. n /\ m - 1 \notin bad
    <3> HIDE DEF bad
    <3>1. m - 1 \in 0 .. n /\ ~(m <= m - 1)
      BY <1>4
    <3> QED BY <3>1, <1>2
  <2> HIDE DEF Least
  <2> QED BY <2>1
<1> HIDE DEF bad
<1> DEFINE R == S \ {m}
<1>6. R \in SUBSET (1 .. m - 1)
  BY <1>4
<1>7. m \in S
  <2>1. m \notin S => S \in SUBSET (1 .. m - 1)
    BY <1>4
  <2> HIDE DEF Least
  <2> QED BY <2>1, <1>3, <1>5
<1>8. \A k \in S : f[k] \in Int
  BY <1>4
<1>9. R # {}
  <2> SUFFICES ASSUME R = {} PROVE FALSE
    OBVIOUS
  <2>1. S = {m}
    BY <1>7
  <2>2. f[m] <= f[m]
    BY <1>7, <1>8
  <2> QED BY <1>3, <2>1, <2>2
<1>10. PICK i \in R : \A j \in R : f[i] <= f[j]
  <2>1. Least(R)
    <3> HIDE DEF Least, R
    <3> QED BY <1>5, <1>6, <1>9
  <2> QED BY <2>1
<1>11. CASE f[i] <= f[m]
  <2>1. \A j \in S : f[i] <= f[j]
    BY <1>10, <1>11
  <2> QED BY <2>1, <1>3
<1>12. CASE ~(f[i] <= f[m])
  <2>1. \A j \in S : f[m] <= f[j]
    <3> TAKE j \in S
    <3>1. f[i] \in Int /\ f[j] \in Int /\ f[m] \in Int
      BY <1>7, <1>8
    <3>2. j = m \/ f[i] <= f[j]
      BY <1>10
    <3> QED BY <3>1, <3>2, <1>12
  <2> QED BY <2>1, <1>3, <1>7
<1> QED BY <1>11, <1>12

\* Of tuples of one length one is not after any other.
LEMMA FirstOK ==
    ASSUME NEW n \in Nat \ {0}, NEW d \in Nat, NEW r \in [1 .. n -> [1 .. d -> Int]]
    PROVE  \E i \in 1 .. n : \A j \in 1 .. n : ~\E e \in 1 .. d :
             r[j][e] < r[i][e] /\ \A k \in 1 .. e - 1 : r[j][k] = r[i][k]
<1> DEFINE Less(j, i, e) == r[j][e] < r[i][e] /\ \A k \in 1 .. e - 1 : r[j][k] = r[i][k]
           Low(i, c) == \A j \in 1 .. n : \A e \in 1 .. c : ~Less(j, i, e)
           bad == {c \in 0 .. d : ~\E i \in 1 .. n : Low(i, c)}
<1>1. SUFFICES ASSUME bad # {} PROVE FALSE
  <2>1. bad = {} => \E i \in 1 .. n : Low(i, d)
    <3>1. d \in bad \/ \E i \in 1 .. n : Low(i, d)
      <4> HIDE DEF Low
      <4> QED OBVIOUS
    <3> HIDE DEF bad, Low
    <3> QED BY <3>1
  <2>2. PICK i \in 1 .. n : Low(i, d)
    <3> HIDE DEF bad, Low
    <3> QED BY <1>1, <2>1
  <2>3. \A j \in 1 .. n : \A e \in 1 .. d : ~Less(j, i, e)
    BY <2>2
  <2> HIDE DEF bad, Low
  <2> QED BY <2>3
<1>2. PICK c \in bad : \A y \in bad : c <= y
  <2>1. bad \in SUBSET Nat
    OBVIOUS
  <2> HIDE DEF bad
  <2> QED BY <1>1, <2>1, LeastOK
<1>3. c \in 0 .. d /\ ~\E i \in 1 .. n : Low(i, c)
  <2> HIDE DEF Low
  <2> QED OBVIOUS
<1>4. c # 0
  <2> SUFFICES ASSUME c = 0 PROVE FALSE
    OBVIOUS
  <2>1. Low(1, c)
    OBVIOUS
  <2>2. 1 \in 1 .. n
    OBVIOUS
  <2> QED BY <2>1, <2>2, <1>3
<1> DEFINE T == {i \in 1 .. n : Low(i, c - 1)}
<1>5. T # {}
  <2>1. c - 1 \in 0 .. d /\ c - 1 \notin bad
    <3> HIDE DEF bad, Low
    <3>1. c - 1 \in 0 .. d /\ ~(c <= c - 1)
      BY <1>3, <1>4
    <3> QED BY <3>1, <1>2
  <2> HIDE DEF Low
  <2> QED BY <2>1
<1> HIDE DEF bad
<1> DEFINE f == [i \in 1 .. n |-> r[i][c]]
<1>6. c \in 1 .. d /\ \A i \in 1 .. n : r[i][c] \in Int
  <2> HIDE DEF Low, T, f
  <2>1. c \in 1 .. d
    BY <1>3, <1>4
  <2> QED BY <2>1
<1>7. f \in [1 .. n -> Int]
  BY <1>6
<1>8. PICK i \in T : \A j \in T : f[i] <= f[j]
  <2> HIDE DEF T, f
  <2>1. T \in SUBSET (1 .. n)
    BY DEF T
  <2> QED BY <1>5, <1>7, <2>1, ArgMinOK
<1>9. i \in 1 .. n /\ Low(i, c - 1)
  BY <1>8
<1>10. ASSUME NEW j \in 1 .. n, NEW e \in 1 .. c, Less(j, i, e)
       PROVE  FALSE
  <2>1. e = c
    <3>1. e \in 1 .. c - 1 \/ e = c
      BY <1>6
    <3> QED BY <3>1, <1>9, <1>10
  <2>2. \A k \in 1 .. c - 1 : r[j][k] = r[i][k]
    BY <1>10, <2>1
  <2>3. ASSUME NEW h \in 1 .. n, NEW x \in 1 .. c - 1 PROVE ~Less(h, j, x)
    <3>1. x \in 1 .. c - 1 /\ \A k \in 1 .. x - 1 : k \in 1 .. c - 1
      BY <1>6
    <3>2. r[j][x] = r[i][x] /\ \A k \in 1 .. x - 1 : r[j][k] = r[i][k]
      BY <2>2, <3>1
    <3>3. Less(h, j, x) => Less(h, i, x)
      BY <3>2
    <3> QED BY <3>3, <1>9
  <2>4. j \in T
    BY <2>3
  <2>5. f[i] <= f[j] /\ f[i] = r[i][c] /\ f[j] = r[j][c]
    BY <1>8, <2>4, <1>9
  <2>6. r[i][c] \in Int /\ r[j][c] \in Int
    BY <1>6, <1>9
  <2> QED BY <1>10, <2>1, <2>5, <2>6
<1>11. Low(i, c)
  BY <1>10
<1> QED BY <1>3, <1>9, <1>11

\* EvaluateCandidates: the first is one of the candidates, and none is before it.
LEMMA BestOK ==
    ASSUME NEW design \in Design, NEW candidates \in Seq(Candidate), candidates # <<>>
    PROVE  /\ Best(design, candidates) \in Range(candidates)
           /\ Best(design, candidates) \in Candidate
           /\ \A c \in Range(candidates) : ~Before(Rank(design, c), Rank(design, Best(design, candidates)))
<1> DEFINE n == Len(candidates)
           r == [i \in 1 .. n |-> Rank(design, candidates[i])]
           first == {i \in DOMAIN candidates :
                       \A j \in DOMAIN candidates : ~Before(Rank(design, candidates[j]), Rank(design, candidates[i]))}
<1>1. n \in Nat \ {0} /\ DOMAIN candidates = 1 .. n /\ \A i \in 1 .. n : candidates[i] \in Candidate
  OBVIOUS
<1>2. ASSUME NEW c \in Candidate PROVE Rank(design, c) \in [1 .. 7 -> Int]
  <2>1. /\ c.spec[1] \in Nat /\ c.spec[2] \in Nat /\ c.users \in Nat /\ c.cpu \in Nat /\ c.mem \in Nat
        /\ design.users \in Nat
    BY DEF Candidate, Design
  <2> DEFINE size == IF design.users > 0 /\ ~Meets(design, c) THEN -1 ELSE 1
             gap == IF Meets(design, c) THEN c.users - design.users ELSE design.users - c.users
  <2>2. size \in {-1, 1} /\ gap \in Int
    BY <2>1
  <2> DEFINE passes == IF Passed(design, c) THEN 0 ELSE 1
             meets == IF Meets(design, c) THEN 0 ELSE 1
             distance == IF design.users > 0 THEN gap ELSE 0
             cpus == size * c.spec[1]
             mem == size * c.spec[2]
             use == c.cpu + c.mem
  <2>3. cpus \in Int /\ mem \in Int
    <3>1. c.spec[1] \in Int /\ c.spec[2] \in Int /\ -1 * c.spec[1] \in Int /\ -1 * c.spec[2] \in Int
      BY <2>1
    <3> HIDE DEF size
    <3> QED BY <2>2, <3>1
  <2>4. distance \in Int
    <3> HIDE DEF gap
    <3> QED BY <2>2
  <2>5. passes \in Int /\ meets \in Int /\ distance \in Int /\ cpus \in Int /\ mem \in Int /\ use \in Int
    <3>1. passes \in Int /\ meets \in Int
      OBVIOUS
    <3>2. use \in Int
      BY <2>1
    <3> HIDE DEF passes, meets, distance, cpus, mem, use
    <3> QED BY <2>3, <2>4, <3>1, <3>2
  <2>6. Rank(design, c) = <<passes, meets, distance, cpus, mem, use, gap>>
    BY DEF Rank
  <2> HIDE DEF gap, passes, meets, distance, cpus, mem, use
  <2> QED BY <2>2, <2>5, <2>6
<1>3. r \in [1 .. n -> [1 .. 7 -> Int]]
  BY <1>1, <1>2
<1>4. PICK i \in 1 .. n : \A j \in 1 .. n : ~\E e \in 1 .. 7 :
        r[j][e] < r[i][e] /\ \A k \in 1 .. e - 1 : r[j][k] = r[i][k]
  <2> HIDE DEF r, n
  <2> DEFINE d == 7
  <2>1. d \in Nat /\ r \in [1 .. n -> [1 .. d -> Int]]
    BY <1>3
  <2> HIDE DEF d
  <2>2. \E i \in 1 .. n : \A j \in 1 .. n : ~\E e \in 1 .. d :
           r[j][e] < r[i][e] /\ \A k \in 1 .. e - 1 : r[j][k] = r[i][k]
    BY <1>1, <2>1, FirstOK
  <2> QED BY <2>2 DEF d
<1>5. ASSUME NEW j \in 1 .. n PROVE ~Before(Rank(design, candidates[j]), Rank(design, candidates[i]))
  <2>1. r[j] = Rank(design, candidates[j]) /\ r[i] = Rank(design, candidates[i]) /\ DOMAIN r[j] = 1 .. 7
    BY <1>3
  <2>2. ~\E e \in 1 .. 7 : r[j][e] < r[i][e] /\ \A k \in 1 .. e - 1 : r[j][k] = r[i][k]
    BY <1>4
  <2> HIDE DEF r
  <2> QED BY <2>1, <2>2 DEF Before
<1>6. i \in first /\ first \in SUBSET Nat
  BY <1>1, <1>5
<1>7. Min(first) \in first
  <2> HIDE DEF first
  <2> QED BY <1>6, LeastOK
<1>8. Best(design, candidates) = candidates[Min(first)]
  BY DEF Best
<1> QED BY <1>1, <1>7, <1>8 DEF Range

(***************************************************************************)
(* The invariant.  Ids are only added, so what a request knows of a row is *)
(* that there is one of that id; what an answer is worth depends on prices *)
(* only, which stay.                                                       *)
(***************************************************************************)

Ids == {rows[i].id : i \in DOMAIN rows}

Based == [end : {"recommend", "cost", "provider"}, best : Candidate, nodes : Nat, budget : Nat]

Stored ==
    [id : 1 .. MaxRows, run : Runs \cup {NoRun}, design : Designs \cup {ZeroDesign},
     nodes : NodeCounts \cup {0}, evaluated : NodeCounts \cup {0}, best : Candidate, rec : SUBSET Based]

Rows ==
    /\ rows \in Seq(Stored)
    /\ Len(rows) <= MaxRows
    /\ \A i \in DOMAIN rows :
         /\ rows[i].id <= Len(rows)
         /\ \A x, y \in rows[i].rec : x = y
    /\ \A i, k \in DOMAIN rows : rows[i].id = rows[k].id => i = k

Suggestion ==
    [pc : {"idle", "ensure", "load", "find", "design", "any", "read", "write", "done"},
     run : Runs \cup {NoRun}, design : Designs \cup {ZeroDesign}, nodes : NodeCounts \cup {0},
     candidates : Seq(Candidate), id : 0 .. MaxRows, stored : SUBSET Stored]

\* A request has a row once it needs one, and candidates once they count; it knows what is
\* stored when it writes, and only then.
SoundSuggestion ==
    {u \in Suggestion :
        /\ u.pc \notin {"idle", "ensure", "done"} => rows # <<>>
        /\ u.pc # "write" => u.stored = {}
        /\ u.pc = "write" /\ u.id # 0 => u.stored # {}
        /\ u.pc \in {"design", "any", "read", "write"} => u.candidates # <<>>
        /\ u.pc = "read" => u.id # 0
        /\ u.pc \in {"ensure", "load", "find", "design", "any"} => u.id = 0
        /\ u.id # 0 => u.id \in Ids}

\* What the properties say of one answer.
Worth(a) ==
    /\ \A plan \in a.plans : plan.spec[1] >= a.spec[1] /\ plan.spec[2] >= a.spec[2]
    /\ a.end # "cost" => \A plan \in a.plans : Sold(plan)
    /\ \A plan \in a.rec.plan :
         /\ a.rec.fits = (a.budget = 0 \/ \E b \in a.plans : b.month <= a.budget)
         /\ \A b \in a.plans : plan.month <= b.month

Costing(k) ==
    /\ DOMAIN k = {"pc", "id", "ask", "answer"}
    /\ k.pc \in {"idle", "row", "persist", "keep", "done"}
    /\ k.ask \in Questions \cup {Recommend}
    /\ k.pc \notin {"idle", "done"} => k.id \in Ids
    /\ \A a, b \in k.answer : a = b
    /\ \A a \in k.answer : Basis(a) \in Based /\ Worth(a)

IInv ==
    /\ catalog \in Catalogs
    /\ Rows
    /\ suggester \in [Suggesters -> SoundSuggestion]
    /\ coster = [c \in Costers |-> coster[c]]
    /\ \A c \in Costers : Costing(coster[c])

LEMMA DesignsOK == Designs \cup {ZeroDesign} \subseteq Design /\ NoBest \in Candidate
BY RequestAssumption DEF Design, ZeroDesign, NoBest, Candidate

LEMMA RowsOK ==
    ASSUME Rows
    PROVE  /\ Len(rows) \in Nat /\ MaxRows \in Nat /\ DOMAIN rows = 1 .. Len(rows)
           /\ \A i \in 1 .. Len(rows) : rows[i] \in Stored /\ rows[i].id \in Nat /\ rows[i].id <= Len(rows)
<1>1. MaxRows \in Nat
  BY RequestAssumption
<1>2. Len(rows) \in Nat /\ DOMAIN rows = 1 .. Len(rows) /\ \A i \in 1 .. Len(rows) : rows[i] \in Stored
  BY DEF Rows
<1>3. \A r \in Stored : r.id \in 1 .. MaxRows
  BY DEF Stored
<1> QED BY <1>1, <1>2, <1>3 DEF Rows

LEMMA RowByIdOK ==
    ASSUME Rows, NEW id \in Ids
    PROVE  /\ RowById(id) \in Stored /\ RowById(id).id = id
           /\ \A i \in DOMAIN rows : rows[i].id = id => rows[i] = RowById(id)
<1>1. PICK i \in DOMAIN rows : rows[i].id = id
  BY DEF Ids
<1>2. \A r \in Range(rows) : r.id = id => r = rows[i]
  BY <1>1 DEF Rows, Range
<1>3. RowById(id) = rows[i]
  BY <1>1, <1>2 DEF RowById, Range
<1>4. rows[i] \in Stored
  BY DEF Rows
<1> QED BY <1>1, <1>3, <1>4 DEF Rows

LEMMA LatestOK ==
    ASSUME Rows, NEW places \in SUBSET DOMAIN rows
    PROVE  /\ Latest(places) \subseteq Range(rows) /\ Latest(places) \subseteq Stored
           /\ places # {} => \E r \in Range(rows) : Latest(places) = {r}
<1>1. CASE places = {}
  BY <1>1 DEF Latest
<1>2. CASE places # {}
  <2>1. places \in SUBSET Nat /\ IsFiniteSet(places)
    <3>1. DOMAIN rows = 1 .. Len(rows) /\ Len(rows) \in Nat
      BY DEF Rows
    <3>2. IsFiniteSet(1 .. Len(rows))
      BY <3>1, FS_Interval
    <3> QED BY <3>1, <3>2, FS_Subset
  <2>2. Max(places) \in places
    BY <1>2, <2>1, GreatestOK
  <2>3. Latest(places) = {rows[Max(places)]}
    BY <1>2 DEF Latest
  <2> QED BY <1>2, <2>2, <2>3 DEF Rows, Range
<1> QED BY <1>1, <1>2

(***************************************************************************)
(* Steps on rows.                                                          *)
(***************************************************************************)

\* A row is added, with an id of its own.
LEMMA InsertOK ==
    ASSUME Rows, NEW run \in Runs \cup {NoRun}, NEW design \in Designs \cup {ZeroDesign},
           NEW nodes \in NodeCounts \cup {0}, NEW evaluated \in NodeCounts \cup {0},
           NEW best \in Candidate, Insert(run, design, nodes, evaluated, best)
    PROVE  /\ Rows' /\ Ids \subseteq Ids' /\ rows' # <<>>
           /\ Len(rows) + 1 \notin Ids
           /\ DOMAIN rows' = 1 .. Len(rows) + 1 /\ rows'[Len(rows) + 1].id = Len(rows) + 1
           /\ \A i \in DOMAIN rows : i \in DOMAIN rows' /\ rows'[i] = rows[i]
<1> DEFINE n == Len(rows)
           new == [id |-> n + 1, run |-> run, design |-> design, nodes |-> nodes,
                   evaluated |-> evaluated, best |-> best, rec |-> {}]
<1>1. n \in Nat /\ n < MaxRows /\ MaxRows \in Nat /\ rows' = Append(rows, new)
  BY RequestAssumption DEF Insert, Rows
<1>2. new \in Stored /\ new.id = n + 1 /\ new.rec = {}
  BY <1>1 DEF Stored
<1> HIDE DEF new
<1>3. /\ rows' \in Seq(Stored) /\ Len(rows') = n + 1 /\ rows'[n + 1] = new
      /\ \A i \in 1 .. n : rows'[i] = rows[i]
  BY <1>1, <1>2 DEF Rows
<1>4. /\ DOMAIN rows = 1 .. n /\ DOMAIN rows' = 1 .. n + 1
      /\ \A i \in 1 .. n + 1 : i \in 1 .. n \/ i = n + 1
  BY <1>1, <1>3 DEF Rows
<1>5. \A i \in 1 .. n : rows[i].id \in Nat /\ rows[i].id <= n
  BY RowsOK
<1>6. \A i \in 1 .. n + 1 : rows'[i].id <= n + 1 /\ \A x, y \in rows'[i].rec : x = y
  BY <1>1, <1>2, <1>3, <1>4, <1>5 DEF Rows
<1>7. \A i, k \in 1 .. n + 1 : rows'[i].id = rows'[k].id => i = k
  <2> TAKE i, k \in 1 .. n + 1
  <2>1. \A j \in 1 .. n : rows'[j].id # n + 1
    BY <1>1, <1>3, <1>5
  <2> QED BY <2>1, <1>2, <1>3, <1>4 DEF Rows
<1>8. Rows'
  BY <1>1, <1>3, <1>4, <1>6, <1>7 DEF Rows
<1> QED BY <1>1, <1>2, <1>3, <1>4, <1>5, <1>8 DEF Ids

\* A row is rewritten and becomes the last one.
LEMMA ReplacedOK ==
    ASSUME Rows, NEW id \in Ids, NEW row \in Stored, row.id = id, row.rec = {},
           rows' = Replaced(id, row)
    PROVE  /\ Rows' /\ Ids' = Ids /\ rows' # <<>>
           /\ \A k \in DOMAIN rows' :
                rows'[k] = row \/ \E i \in DOMAIN rows : rows'[k] = rows[i] /\ rows[i].id # id
<1> DEFINE n == Len(rows)
           i == CHOOSE i \in DOMAIN rows : rows[i].id = id
           from(k) == IF k < i THEN k ELSE k + 1
<1>1. n \in Nat /\ DOMAIN rows = 1 .. n
  BY DEF Rows
<1>2. i \in 1 .. n /\ rows[i].id = id
  BY <1>1 DEF Ids
<1>3. rows' = Append(RemoveAt(rows, i), row)
  BY DEF Replaced
<1> HIDE DEF i
<1>4. /\ RemoveAt(rows, i) \in Seq(Stored) /\ Len(RemoveAt(rows, i)) = n - 1
      /\ \A k \in 1 .. n - 1 : RemoveAt(rows, i)[k] = rows[from(k)]
  <2> DEFINE before == SubSeq(rows, 1, i - 1)
             after == SubSeq(rows, i + 1, n)
  <2>1. i \in Int /\ \A k \in 1 .. n : rows[k] \in Stored
    BY <1>1, <1>2, RowsOK
  <2>2. /\ before \in Seq(Stored) /\ Len(before) = i - 1
        /\ \A k \in 1 .. i - 1 : before[k] = rows[k]
    <3>1. \A k \in 1 .. i - 1 : rows[k] \in Stored
      BY <1>2, <2>1
    <3> QED BY <1>2, <2>1, <3>1, SubSeqProperties
  <2>3. /\ after \in Seq(Stored) /\ Len(after) = n - i
        /\ \A k \in 1 .. n - i : after[k] = rows[i + k]
    <3>1. \A k \in i + 1 .. n : rows[k] \in Stored
      BY <1>2, <2>1
    <3>2. /\ after \in Seq(Stored) /\ Len(after) = IF i + 1 <= n THEN n - (i + 1) + 1 ELSE 0
          /\ \A k \in 1 .. n - (i + 1) + 1 : after[k] = rows[(i + 1) + k - 1]
      BY <1>1, <2>1, <3>1, SubSeqProperties
    <3>3. n - (i + 1) + 1 = n - i /\ \A k \in Nat : (i + 1) + k - 1 = i + k
      BY <1>1, <2>1
    <3>4. Len(after) = n - i
      <4>1. i \in Nat /\ i <= n /\ (~(i + 1 <= n) => n - i = 0)
        <5> HIDE DEF n, from, after, before
        <5> QED BY <1>1, <1>2
      <4> QED BY <3>2, <3>3, <4>1
    <3>5. \A k \in 1 .. n - i : k \in Nat /\ after[k] = rows[i + k]
      BY <1>1, <2>1, <3>2, <3>3
    <3> QED BY <3>2, <3>4, <3>5
  <2> HIDE DEF before, after
  <2>4. /\ before \o after \in Seq(Stored) /\ Len(before \o after) = Len(before) + Len(after)
        /\ \A k \in 1 .. Len(before) + Len(after) :
             (before \o after)[k] = IF k <= Len(before) THEN before[k] ELSE after[k - Len(before)]
    BY <2>2, <2>3, ConcatProperties
  <2>5. RemoveAt(rows, i) = before \o after
    BY DEF RemoveAt, before, after
  <2>6. Len(before) + Len(after) = n - 1
    BY <1>1, <1>2, <2>2, <2>3
  <2>7. ASSUME NEW k \in 1 .. n - 1 PROVE (before \o after)[k] = rows[from(k)]
    <3>1. CASE k < i
      <4>1. k \in 1 .. i - 1
        BY <1>2, <3>1
      <4> QED BY <1>1, <1>2, <2>2, <2>4, <2>6, <3>1, <4>1
    <3>2. CASE ~(k < i)
      <4>1. k - (i - 1) \in 1 .. n - i /\ i + (k - (i - 1)) = k + 1 /\ ~(k <= i - 1)
        BY <1>1, <1>2, <3>2
      <4>2. (before \o after)[k] = after[k - (i - 1)]
        BY <2>2, <2>4, <2>6, <4>1
      <4>3. after[k - (i - 1)] = rows[i + (k - (i - 1))]
        BY <2>3, <4>1
      <4> QED BY <3>2, <4>1, <4>2, <4>3
    <3> QED BY <3>1, <3>2
  <2> HIDE DEF from
  <2> QED BY <2>4, <2>5, <2>6, <2>7
<1>5. /\ rows' \in Seq(Stored) /\ Len(rows') = n /\ DOMAIN rows' = 1 .. n /\ rows'[n] = row
      /\ \A k \in 1 .. n - 1 : rows'[k] = rows[from(k)]
  <2> DEFINE rest == RemoveAt(rows, i)
  <2> HIDE DEF from, rest
  <2>1. rest \in Seq(Stored) /\ Len(rest) = n - 1 /\ rows' = Append(rest, row)
    BY <1>3, <1>4 DEF rest
  <2>2. /\ Append(rest, row) \in Seq(Stored) /\ Len(Append(rest, row)) = (n - 1) + 1
        /\ \A k \in 1 .. n - 1 : Append(rest, row)[k] = rest[k]
        /\ Append(rest, row)[(n - 1) + 1] = row
    BY <2>1, AppendProperties
  <2>3. (n - 1) + 1 = n
    BY <1>1
  <2>4. DOMAIN rows' = 1 .. Len(rows')
    BY <2>1, <2>2
  <2> QED BY <1>4, <2>1, <2>2, <2>3, <2>4 DEF rest
<1>6. /\ \A k \in 1 .. n - 1 : from(k) \in 1 .. n /\ from(k) # i
      /\ \A k, j \in 1 .. n - 1 : from(k) = from(j) => k = j
      /\ \A k \in 1 .. n : k = n \/ k \in 1 .. n - 1
      /\ \A j \in 1 .. n : j = i \/ \E k \in 1 .. n - 1 : j = from(k)
  <2>1. ASSUME NEW j \in 1 .. n, j # i PROVE \E k \in 1 .. n - 1 : j = from(k)
    <3>1. CASE j < i
      <4>1. j \in 1 .. n - 1 /\ from(j) = j
        BY <1>1, <1>2, <3>1
      <4> QED BY <4>1
    <3>2. CASE ~(j < i)
      <4>1. j - 1 \in 1 .. n - 1 /\ from(j - 1) = j
        BY <1>1, <1>2, <2>1, <3>2
      <4> QED BY <4>1
    <3> QED BY <3>1, <3>2
  <2>2. \A k \in 1 .. n - 1 : from(k) \in 1 .. n /\ from(k) # i
    BY <1>1, <1>2
  <2>3. \A k, j \in 1 .. n - 1 : from(k) = from(j) => k = j
    BY <1>1, <1>2
  <2>4. \A k \in 1 .. n : k = n \/ k \in 1 .. n - 1
    <3> HIDE DEF n, from
    <3> QED BY <1>1
  <2> HIDE DEF from
  <2> QED BY <2>1, <2>2, <2>3, <2>4
<1> HIDE DEF from
<1>7. \A k \in 1 .. n - 1 : rows[from(k)].id # id
  BY <1>1, <1>2, <1>6 DEF Rows
<1>8. ASSUME NEW k \in 1 .. n, NEW j \in 1 .. n, rows'[k].id = rows'[j].id PROVE k = j
  <2>1. CASE k = n \/ j = n
    <3>1. \A x \in 1 .. n - 1 : rows'[x].id # id
      BY <1>5, <1>7
    <3>2. rows'[n].id = id
      BY <1>5
    <3> HIDE DEF n
    <3> QED BY <1>6, <1>8, <2>1, <3>1, <3>2
  <2>2. CASE k # n /\ j # n
    <3>1. k \in 1 .. n - 1 /\ j \in 1 .. n - 1
      BY <1>6, <2>2
    <3>2. rows[from(k)].id = rows[from(j)].id /\ from(k) \in DOMAIN rows /\ from(j) \in DOMAIN rows
      BY <1>1, <1>5, <1>6, <1>8, <3>1
    <3>3. from(k) = from(j)
      BY <3>2 DEF Rows
    <3> QED BY <1>6, <3>1, <3>3
  <2> QED BY <2>1, <2>2
<1>9. ASSUME NEW k \in 1 .. n PROVE rows'[k].id <= n /\ \A x, y \in rows'[k].rec : x = y
  <2>1. CASE k = n
    BY <1>1, <1>2, <1>5, <2>1 DEF Rows
  <2>2. CASE k # n
    <3>1. rows'[k] = rows[from(k)] /\ from(k) \in DOMAIN rows
      BY <1>1, <1>5, <1>6, <2>2
    <3> QED BY <3>1 DEF Rows
  <2> QED BY <2>1, <2>2
<1>10. Rows'
  BY <1>5, <1>8, <1>9 DEF Rows
<1>11. Ids' = Ids
  <2>1. \A x \in Ids' : x \in Ids
    <3> TAKE x \in Ids'
    <3>1. PICK k \in 1 .. n : x = rows'[k].id
      BY <1>5 DEF Ids
    <3>2. CASE k = n
      BY <1>5, <3>1, <3>2
    <3>3. CASE k # n
      <4>1. rows'[k] = rows[from(k)] /\ from(k) \in DOMAIN rows
        BY <1>1, <1>5, <1>6, <3>3
      <4> QED BY <3>1, <4>1 DEF Ids
    <3> QED BY <3>2, <3>3
  <2>2. \A x \in Ids : x \in Ids'
    <3> TAKE x \in Ids
    <3>1. PICK j \in 1 .. n : x = rows[j].id
      BY <1>1 DEF Ids
    <3>2. CASE j = i
      BY <1>1, <1>2, <1>5, <3>1, <3>2 DEF Ids
    <3>3. CASE j # i
      <4>1. PICK k \in 1 .. n - 1 : j = from(k)
        BY <1>6, <3>3
      <4>2. rows'[k] = rows[j] /\ k \in DOMAIN rows'
        BY <1>1, <1>5, <4>1
      <4> QED BY <3>1, <4>2 DEF Ids
    <3> QED BY <3>2, <3>3
  <2> QED BY <2>1, <2>2
<1>12. \A k \in DOMAIN rows' :
         rows'[k] = row \/ \E x \in DOMAIN rows : rows'[k] = rows[x] /\ rows[x].id # id
  BY <1>1, <1>5, <1>6, <1>7
<1>13. rows' # <<>>
  BY <1>1, <1>2, <1>5
<1> QED BY <1>10, <1>11, <1>12, <1>13

\* Of one row the recommendation changes.
LEMMA PersistedOK ==
    ASSUME Rows, NEW id, NEW rec \in SUBSET Based, \A x, y \in rec : x = y,
           rows' = [i \in DOMAIN rows |-> IF rows[i].id = id THEN [rows[i] EXCEPT !.rec = rec] ELSE rows[i]]
    PROVE  /\ Rows' /\ Ids' = Ids /\ (rows # <<>> => rows' # <<>>)
           /\ DOMAIN rows' = DOMAIN rows
           /\ \A i \in DOMAIN rows : /\ rows'[i].id = rows[i].id /\ rows'[i].nodes = rows[i].nodes
                                     /\ rows'[i].design = rows[i].design
<1>1. Len(rows) \in Nat /\ DOMAIN rows = 1 .. Len(rows)
  BY DEF Rows
<1>2. \A i \in 1 .. Len(rows) :
        /\ rows'[i] \in Stored /\ rows'[i].id = rows[i].id /\ rows'[i].nodes = rows[i].nodes
        /\ rows'[i].design = rows[i].design /\ rows'[i].rec \in {rec, rows[i].rec}
  <2> TAKE i \in 1 .. Len(rows)
  <2>1. rows[i] \in Stored /\ rows'[i] = IF rows[i].id = id THEN [rows[i] EXCEPT !.rec = rec] ELSE rows[i]
    BY <1>1, RowsOK
  <2> QED BY <2>1 DEF Stored
<1>3. rows' \in Seq(Stored) /\ Len(rows') = Len(rows) /\ DOMAIN rows' = DOMAIN rows
  BY <1>1, <1>2
<1>4. Rows'
  BY <1>1, <1>2, <1>3 DEF Rows
<1>5. Ids' = Ids
  BY <1>1, <1>2, <1>3 DEF Ids
<1> QED BY <1>1, <1>2, <1>3, <1>4, <1>5

(***************************************************************************)
(* Steps of requests.                                                      *)
(***************************************************************************)

\* A request that is sound stays so while other requests add rows.
LEMMA OthersSuggestOK ==
    ASSUME IInv, Ids \subseteq Ids', rows # <<>> => rows' # <<>>
    PROVE  SoundSuggestion \subseteq SoundSuggestion'
BY DEF SoundSuggestion

LEMMA OthersCostOK ==
    ASSUME IInv, Ids \subseteq Ids', UNCHANGED catalog, NEW c \in Costers,
           coster'[c] = coster[c]
    PROVE  Costing(coster[c])'
<1>1. Costing(coster[c])
  BY DEF IInv
<1>2. \A a : Worth(a)' = Worth(a)
  BY DEF Worth, Sold
<1> QED BY <1>1, <1>2 DEF Costing

\* A step of POST /suggest, which leaves the costs alone.
LEMMA SuggestStep ==
    ASSUME IInv, Rows', Ids \subseteq Ids', rows # <<>> => rows' # <<>>,
           UNCHANGED <<catalog, coster>>,
           NEW s \in Suggesters, NEW u \in SoundSuggestion', suggester' = [suggester EXCEPT ![s] = u]
    PROVE  IInv'
<1>1. suggester' \in [Suggesters -> SoundSuggestion']
  BY OthersSuggestOK DEF IInv
<1>2. \A c \in Costers : Costing(coster[c])'
  BY OthersCostOK
<1> QED BY <1>1, <1>2 DEF IInv

\* A step of a request for costs.
LEMMA CostStep ==
    ASSUME IInv, Rows', Ids' = Ids, rows # <<>> => rows' # <<>>,
           UNCHANGED <<catalog, suggester>>,
           NEW c \in Costers, NEW k, Costing(k)', coster' = [coster EXCEPT ![c] = k]
    PROVE  IInv'
<1>1. suggester' \in [Suggesters -> SoundSuggestion']
  BY OthersSuggestOK DEF IInv
<1>2. coster' = [x \in Costers |-> IF x = c THEN k ELSE coster[x]]
  BY DEF IInv
<1>3. coster' = [x \in Costers |-> coster'[x]]
  BY <1>2
<1>4. ASSUME NEW x \in Costers PROVE Costing(coster[x])'
  <2>1. CASE x = c
    BY <1>2, <2>1
  <2>2. CASE x # c
    <3>1. coster'[x] = coster[x]
      BY <1>2, <2>2
    <3> QED BY <3>1, OthersCostOK
  <2> QED BY <2>1, <2>2
<1> QED BY <1>1, <1>3, <1>4 DEF IInv

LEMMA InitOK == Init => IInv
<1> SUFFICES ASSUME Init PROVE IInv
  OBVIOUS
<1>1. Rows
  <2>1. MaxRows \in Nat
    BY RequestAssumption
  <2> QED BY <2>1 DEF Init, Rows
<1>2. IdleSuggester \in SoundSuggestion
  <2>1. MaxRows \in Nat
    BY RequestAssumption
  <2> QED BY <2>1 DEF IdleSuggester, SoundSuggestion, Suggestion
<1>3. Costing(IdleCoster)
  BY DEF IdleCoster, Costing
<1>4. coster = [c \in Costers |-> IdleCoster]
  BY DEF Init
<1>5. coster = [c \in Costers |-> coster[c]] /\ \A c \in Costers : coster[c] = IdleCoster
  BY <1>4
<1> QED BY <1>1, <1>2, <1>3, <1>5 DEF Init, IInv

LEMMA DoneOK == DoneSuggester \in SoundSuggestion /\ DoneSuggester \in SoundSuggestion'
<1>1. MaxRows \in Nat
  BY RequestAssumption
<1>2. IdleSuggester \in Suggestion /\ IdleSuggester.id = 0 /\ IdleSuggester.stored = {}
  BY <1>1 DEF IdleSuggester, Suggestion
<1>3. /\ DoneSuggester \in Suggestion /\ DoneSuggester.pc = "done"
      /\ DoneSuggester.id = 0 /\ DoneSuggester.stored = {}
  BY <1>2 DEF DoneSuggester, Suggestion
<1> QED BY <1>3 DEF SoundSuggestion, Suggestion

LEMMA CreateDesignOK ==
    ASSUME IInv, NEW run \in Runs \cup {NoRun}, NEW design \in Designs, NEW nodes \in NodeCounts,
           CreateDesign(run, design, nodes)
    PROVE  IInv'
<1>1. Rows' /\ Ids \subseteq Ids' /\ rows' # <<>>
  BY InsertOK, DesignsOK DEF CreateDesign, IInv
<1>2. suggester' \in [Suggesters -> SoundSuggestion']
  BY <1>1, OthersSuggestOK DEF IInv, CreateDesign
<1>3. \A c \in Costers : Costing(coster[c])'
  BY <1>1, OthersCostOK DEF CreateDesign
<1> QED BY <1>1, <1>2, <1>3 DEF IInv, CreateDesign

LEMMA SuggestOK ==
    ASSUME IInv, NEW s \in Suggesters, NEW run \in Runs, NEW design \in Designs \cup {ZeroDesign},
           NEW nodes \in NodeCounts, NEW candidates \in Simulated[run],
           Suggest(s, run, design, nodes, candidates)
    PROVE  IInv'
<1> DEFINE u == [pc |-> IF rows = <<>> THEN "ensure" ELSE "load", run |-> run, design |-> design,
                 nodes |-> nodes, candidates |-> candidates, id |-> 0, stored |-> {}]
<1>1. MaxRows \in Nat /\ candidates \in Seq(Candidate)
  BY RequestAssumption
<1>2. u \in Suggestion
  BY <1>1 DEF Suggestion
<1>3. UNCHANGED <<catalog, rows, coster>> /\ suggester' = [suggester EXCEPT ![s] = u]
  BY DEF Suggest
<1>4. u \in SoundSuggestion'
  BY <1>2, <1>3 DEF SoundSuggestion
<1> HIDE DEF u
<1>5. Rows' /\ Ids' = Ids
  BY <1>3 DEF Rows, Ids, IInv
<1> QED BY <1>3, <1>4, <1>5, SuggestStep

\* A step that leaves the rows alone.
LEMMA MoveOK ==
    ASSUME IInv, UNCHANGED <<catalog, rows, coster>>, NEW s \in Suggesters,
           NEW u \in SoundSuggestion, suggester' = [suggester EXCEPT ![s] = u]
    PROVE  IInv'
<1>1. Rows' /\ Ids' = Ids /\ SoundSuggestion' = SoundSuggestion
  BY DEF Rows, Ids, IInv, SoundSuggestion
<1> QED BY <1>1, SuggestStep

LEMMA SuggesterOK ==
    ASSUME IInv, NEW s \in Suggesters
    PROVE  suggester[s] \in SoundSuggestion /\ suggester[s] \in Suggestion
BY DEF IInv, SoundSuggestion

LEMMA EnsureDesignOK ==
    ASSUME IInv, NEW s \in Suggesters, EnsureDesign(s)
    PROVE  IInv'
<1> DEFINE u == suggester[s]
<1>0. u \in SoundSuggestion /\ u \in Suggestion /\ u.pc = "ensure" /\ UNCHANGED <<catalog, coster>>
  BY SuggesterOK DEF EnsureDesign
<1>1. CASE Insert(NoRun, u.design, 0, 0, NoBest) /\ Goto(s, "load")
  <2>1. u.design \in Designs \cup {ZeroDesign}
    BY <1>0 DEF Suggestion
  <2>2. Rows' /\ Ids \subseteq Ids' /\ rows' # <<>>
    BY <1>1, <2>1, InsertOK, DesignsOK DEF IInv
  <2>3. [u EXCEPT !.pc = "load"] \in SoundSuggestion'
    BY <1>0, <2>2 DEF SoundSuggestion, Suggestion
  <2>4. suggester' = [suggester EXCEPT ![s] = [u EXCEPT !.pc = "load"]]
    BY <1>1 DEF Goto
  <2> HIDE DEF u
  <2> QED BY <1>0, <2>2, <2>3, <2>4, SuggestStep
<1>2. CASE Answered(s) /\ UNCHANGED rows
  BY <1>0, <1>2, DoneOK, MoveOK DEF Answered
<1> QED BY <1>1, <1>2 DEF EnsureDesign

LEMMA LoadDesignOK ==
    ASSUME IInv, NEW s \in Suggesters, LoadDesign(s)
    PROVE  IInv'
<1> DEFINE u == suggester[s]
<1>0. u \in SoundSuggestion /\ u \in Suggestion /\ u.pc = "load" /\ UNCHANGED <<catalog, rows, coster>>
  BY SuggesterOK DEF LoadDesign
<1>1. CASE suggester' = [suggester EXCEPT ![s].pc = "find",
                                          ![s].design = (CHOOSE r \in Latest(DOMAIN rows) : TRUE).design]
  <2> DEFINE r == CHOOSE r \in Latest(DOMAIN rows) : TRUE
             v == [u EXCEPT !.pc = "find", !.design = r.design]
  <2>1. rows # <<>> /\ Rows
    BY <1>0 DEF SoundSuggestion, IInv
  <2>2. DOMAIN rows # {}
    BY <2>1, RowsOK
  <2>3. r \in Stored
    BY <2>1, <2>2, LatestOK
  <2>4. r.design \in Designs \cup {ZeroDesign}
    BY <2>3 DEF Stored
  <2>5. suggester' = [suggester EXCEPT ![s].pc = "find", ![s].design = r.design]
    BY <1>1
  <2> HIDE DEF r
  <2>6. v \in SoundSuggestion
    BY <1>0, <2>4 DEF SoundSuggestion, Suggestion
  <2>7. suggester' = [suggester EXCEPT ![s] = v]
    BY <2>5
  <2> HIDE DEF v
  <2> QED BY <1>0, <2>6, <2>7, MoveOK
<1>2. CASE Goto(s, "find")
  <2>1. [u EXCEPT !.pc = "find"] \in SoundSuggestion
    BY <1>0 DEF SoundSuggestion, Suggestion
  <2>2. suggester' = [suggester EXCEPT ![s] = [u EXCEPT !.pc = "find"]]
    BY <1>2 DEF Goto
  <2> HIDE DEF u
  <2> QED BY <1>0, <2>1, <2>2, MoveOK
<1> QED BY <1>1, <1>2 DEF LoadDesign

LEMMA FindRowOK ==
    ASSUME IInv, NEW s \in Suggesters, FindRow(s)
    PROVE  IInv'
<1> DEFINE u == suggester[s]
           ofRun == Latest(OfRun(u.run))
<1>0. u \in SoundSuggestion /\ u \in Suggestion /\ u.pc = "find" /\ UNCHANGED <<catalog, rows, coster>>
  BY SuggesterOK DEF FindRow
<1>1. CASE /\ u.candidates # <<>> /\ ofRun # {}
           /\ suggester' = [suggester EXCEPT ![s].pc = "read", ![s].id = (CHOOSE r \in ofRun : TRUE).id]
  <2> DEFINE r == CHOOSE r \in ofRun : TRUE
             v == [u EXCEPT !.pc = "read", !.id = r.id]
  <2>1. Rows /\ OfRun(u.run) \in SUBSET DOMAIN rows
    BY DEF IInv, OfRun
  <2>2. r \in Range(rows) /\ r \in Stored
    BY <1>1, <2>1, LatestOK
  <2>3. r.id \in Ids /\ r.id \in 1 .. MaxRows
    BY <2>2 DEF Ids, Range, Stored
  <2>4. suggester' = [suggester EXCEPT ![s].pc = "read", ![s].id = r.id]
    BY <1>1
  <2> HIDE DEF r
  <2>5. r.id \in 0 .. MaxRows /\ r.id # 0
    BY <2>3, RequestAssumption
  <2>6. v \in SoundSuggestion
    BY <1>0, <1>1, <2>3, <2>5 DEF SoundSuggestion, Suggestion
  <2>7. suggester' = [suggester EXCEPT ![s] = v]
    BY <2>4
  <2> HIDE DEF v
  <2> QED BY <1>0, <2>6, <2>7, MoveOK
<1>2. CASE u.candidates # <<>> /\ Goto(s, "design")
  <2>1. [u EXCEPT !.pc = "design"] \in SoundSuggestion
    BY <1>0, <1>2 DEF SoundSuggestion, Suggestion
  <2>2. suggester' = [suggester EXCEPT ![s] = [u EXCEPT !.pc = "design"]]
    BY <1>2 DEF Goto
  <2> HIDE DEF u
  <2> QED BY <1>0, <2>1, <2>2, MoveOK
<1>3. CASE Answered(s)
  BY <1>0, <1>3, DoneOK, MoveOK DEF Answered
<1> QED BY <1>1, <1>2, <1>3 DEF FindRow, LookupFails

\* Some stored rows are taken for the write.
LEMMA TakeOK ==
    ASSUME IInv, NEW s \in Suggesters, suggester[s].pc \in {"design", "any", "read"},
           NEW stored \in SUBSET Stored, stored # {} \/ suggester[s].id = 0,
           Take(s, stored), UNCHANGED <<catalog, rows, coster>>
    PROVE  IInv'
<1> DEFINE u == suggester[s]
           v == [u EXCEPT !.pc = "write", !.stored = stored]
<1>1. u \in SoundSuggestion /\ u \in Suggestion
  BY SuggesterOK
<1>2. v \in SoundSuggestion
  BY <1>1 DEF SoundSuggestion, Suggestion
<1>3. suggester' = [suggester EXCEPT ![s] = v]
  BY DEF Take
<1> HIDE DEF v
<1> QED BY <1>2, <1>3, MoveOK

LEMMA FindDesignOK ==
    ASSUME IInv, NEW s \in Suggesters, FindDesign(s)
    PROVE  IInv'
<1>0. /\ suggester[s] \in SoundSuggestion /\ suggester[s] \in Suggestion /\ suggester[s].pc = "design"
      /\ UNCHANGED <<catalog, rows, coster>>
  BY SuggesterOK DEF FindDesign
<1>1. CASE Take(s, Latest(OfRun(NoRun)))
  <2>1. Rows /\ OfRun(NoRun) \in SUBSET DOMAIN rows
    BY DEF IInv, OfRun
  <2>2. Latest(OfRun(NoRun)) \in SUBSET Stored
    BY <2>1, LatestOK
  <2>3. suggester[s].id = 0
    BY <1>0 DEF SoundSuggestion
  <2> QED BY <1>0, <1>1, <2>2, <2>3, TakeOK
<1>2. CASE Goto(s, "any")
  <2>1. [suggester[s] EXCEPT !.pc = "any"] \in SoundSuggestion
    BY <1>0 DEF SoundSuggestion, Suggestion
  <2> QED BY <1>0, <1>2, <2>1, MoveOK DEF Goto
<1>3. CASE Answered(s)
  BY <1>0, <1>3, DoneOK, MoveOK DEF Answered
<1> QED BY <1>1, <1>2, <1>3 DEF FindDesign, LookupFails

LEMMA FindAnyOK ==
    ASSUME IInv, NEW s \in Suggesters, FindAny(s)
    PROVE  IInv'
<1>0. suggester[s].pc = "any" /\ UNCHANGED <<catalog, rows, coster>>
  BY DEF FindAny
<1>1. CASE Take(s, Latest(DOMAIN rows))
  <2>1. Latest(DOMAIN rows) \in SUBSET Stored
    BY LatestOK DEF IInv
  <2>2. suggester[s].id = 0
    BY <1>0, SuggesterOK DEF SoundSuggestion
  <2> QED BY <1>0, <1>1, <2>1, <2>2, TakeOK
<1>2. CASE Answered(s)
  BY <1>0, <1>2, DoneOK, MoveOK DEF Answered
<1> QED BY <1>1, <1>2 DEF FindAny, LookupFails

LEMMA ReadRowOK ==
    ASSUME IInv, NEW s \in Suggesters, ReadRow(s)
    PROVE  IInv'
<1>0. suggester[s].pc = "read" /\ UNCHANGED <<catalog, rows, coster>>
  BY DEF ReadRow
<1>1. CASE Take(s, {RowById(suggester[s].id)})
  <2>1. suggester[s].id \in Ids
    BY <1>0, SuggesterOK DEF SoundSuggestion
  <2>2. RowById(suggester[s].id) \in Stored
    BY <2>1, RowByIdOK DEF IInv
  <2> QED BY <1>0, <1>1, <2>2, TakeOK
<1>2. CASE Answered(s)
  BY <1>0, <1>2, DoneOK, MoveOK DEF Answered
<1> QED BY <1>1, <1>2 DEF ReadRow, LookupFails

\* What a write makes of a row.
Rewritten(s) ==
    LET u == suggester[s]
        merged == Merged(u.stored, u)
    IN [RowById(u.id) EXCEPT !.design = merged.design, !.nodes = merged.nodes,
                             !.evaluated = u.nodes, !.best = Best(u.design, u.candidates), !.rec = {}]

LEMMA MergedOK ==
    ASSUME NEW u \in Suggestion
    PROVE  /\ Merged(u.stored, u).design \in Designs \cup {ZeroDesign}
           /\ Merged(u.stored, u).nodes \in NodeCounts \cup {0}
<1> DEFINE sized == {r \in u.stored : r.nodes > 0}
<1>1. u.design \in Designs \cup {ZeroDesign} /\ u.nodes \in NodeCounts \cup {0} /\ u.stored \subseteq Stored
  BY DEF Suggestion
<1>2. CASE sized = {}
  BY <1>1, <1>2 DEF Merged
<1>3. CASE sized # {}
  <2> DEFINE r == CHOOSE r \in sized : TRUE
  <2>1. r \in Stored
    BY <1>1, <1>3
  <2>2. r.design \in Designs \cup {ZeroDesign} /\ r.nodes \in NodeCounts \cup {0}
    BY <2>1 DEF Stored
  <2>3. Merged(u.stored, u) = [design |-> r.design, nodes |-> r.nodes]
    BY <1>3 DEF Merged
  <2> HIDE DEF r
  <2> QED BY <2>2, <2>3
<1> QED BY <1>2, <1>3

LEMMA WriteRowOK ==
    ASSUME IInv, NEW s \in Suggesters, WriteRow(s)
    PROVE  IInv'
<1> DEFINE u == suggester[s]
           merged == Merged(u.stored, u)
           best == Best(u.design, u.candidates)
<1>1. /\ u \in SoundSuggestion /\ u \in Suggestion /\ u.pc = "write" /\ Rows
      /\ UNCHANGED <<catalog, coster>> /\ suggester' = [suggester EXCEPT ![s] = DoneSuggester]
  BY SuggesterOK DEF WriteRow, Answered, IInv
<1>2. best \in Candidate
  <2>1. u.candidates \in Seq(Candidate) /\ u.candidates # <<>> /\ u.design \in Design
    BY <1>1, DesignsOK DEF SoundSuggestion, Suggestion
  <2> QED BY <2>1, BestOK
<1>3. /\ merged.design \in Designs \cup {ZeroDesign} /\ merged.nodes \in NodeCounts \cup {0}
      /\ u.nodes \in NodeCounts \cup {0} /\ u.run \in Runs \cup {NoRun}
  BY <1>1, MergedOK DEF Suggestion
<1>4. CASE u.id # 0 /\ rows' = Replaced(u.id, Rewritten(s))
  <2>1. u.id \in Ids
    BY <1>1, <1>4 DEF SoundSuggestion
  <2>2. RowById(u.id) \in Stored /\ RowById(u.id).id = u.id
    BY <1>1, <2>1, RowByIdOK
  <2>3. Rewritten(s) \in Stored /\ Rewritten(s).id = u.id /\ Rewritten(s).rec = {}
    <3> HIDE DEF merged, best
    <3>1. Rewritten(s) = [RowById(u.id) EXCEPT !.design = merged.design, !.nodes = merged.nodes,
                                               !.evaluated = u.nodes, !.best = best, !.rec = {}]
      BY DEF Rewritten, merged, best
    <3> HIDE DEF u
    <3> QED BY <1>2, <1>3, <2>2, <3>1 DEF Stored
  <2>4. Rows' /\ Ids' = Ids /\ rows' # <<>>
    BY <1>1, <1>4, <2>1, <2>3, ReplacedOK
  <2> QED BY <1>1, <2>4, DoneOK, SuggestStep
<1>5. CASE Insert(u.run, merged.design, merged.nodes, u.nodes, best)
  <2>1. Rows' /\ Ids \subseteq Ids' /\ rows' # <<>>
    <3> HIDE DEF u, merged, best
    <3> QED BY <1>1, <1>2, <1>3, <1>5, InsertOK
  <2> QED BY <1>1, <2>1, DoneOK, SuggestStep
<1>6. CASE UNCHANGED rows
  BY <1>1, <1>6, DoneOK, MoveOK
<1> QED BY <1>4, <1>5, <1>6 DEF WriteRow, Rewritten

(***************************************************************************)
(* Steps of requests for costs.                                            *)
(***************************************************************************)

LEMMA CosterOK ==
    ASSUME IInv, NEW c \in Costers
    PROVE  Costing(coster[c])
BY DEF IInv

LEMMA AskCostsOK ==
    ASSUME IInv, NEW c \in Costers, NEW id, NEW ask \in Questions \cup {Recommend}, AskCosts(c, id, ask)
    PROVE  IInv'
<1> DEFINE k == [pc |-> "row", id |-> id, ask |-> ask, answer |-> {}]
<1>1. UNCHANGED <<catalog, rows, suggester>> /\ coster' = [coster EXCEPT ![c] = k]
  BY DEF AskCosts
<1>2. id \in Ids
  BY DEF AskCosts, Ids, Range
<1>3. Rows' /\ Ids' = Ids
  BY <1>1 DEF Rows, Ids, IInv
<1>4. Costing(k)'
  BY <1>1, <1>2, <1>3 DEF Costing
<1> HIDE DEF k
<1> QED BY <1>1, <1>3, <1>4, CostStep

\* A step that leaves rows and prices alone.
LEMMA TurnOK ==
    ASSUME IInv, UNCHANGED <<catalog, rows, suggester>>, NEW c \in Costers, NEW k, Costing(k),
           coster' = [coster EXCEPT ![c] = k]
    PROVE  IInv'
<1>1. Rows' /\ Ids' = Ids
  BY DEF Rows, Ids, IInv
<1>2. Costing(k)'
  BY <1>1 DEF Costing, Worth, Sold
<1> QED BY <1>1, <1>2, CostStep

LEMMA DoneCosterOK == Costing(DoneCoster)
BY DEF DoneCoster, IdleCoster, Costing

\* The plans of an answer and its recommendation, from what is known of plans.
LEMMA WorthOK ==
    ASSUME NEW ask, NEW r, NEW spec, NEW plans, NEW rec, r.design.budget \in Nat,
           \A plan \in plans : Sound(plan, catalog, spec, r.design.budget, ask.end # "cost"),
           rec = NoRecommendation \/ rec \in Recommendations(plans, r.design.budget)
    PROVE  Worth(Answer(ask, r, spec, plans, rec))
<1> DEFINE a == Answer(ask, r, spec, plans, rec)
<1>1. a.end = ask.end /\ a.budget = r.design.budget /\ a.spec = spec /\ a.plans = plans /\ a.rec = rec
  BY DEF Answer
<1>2. \A plan \in plans : /\ plan.spec[1] >= spec[1] /\ plan.spec[2] >= spec[2]
                          /\ plan.month \in Int
                          /\ (plan.within <=> r.design.budget > 0 /\ plan.month <= r.design.budget)
                          /\ (ask.end # "cost" => Sold(plan))
  BY DEF Sound, Sold
<1>3. ASSUME NEW plan \in rec.plan
      PROVE  /\ rec.fits = (r.design.budget = 0 \/ \E b \in plans : b.month <= r.design.budget)
             /\ \A b \in plans : plan.month <= b.month
  <2>1. rec # NoRecommendation
    BY <1>3 DEF NoRecommendation
  <2> QED BY <1>2, <1>3, <2>1, RecommendationsOK
<1> HIDE DEF a
<1> QED BY <1>1, <1>2, <1>3 DEF Worth, a

LEMMA ComputeCostsOK ==
    ASSUME IInv, NEW c \in Costers, ComputeCosts(c)
    PROVE  IInv'
<1> DEFINE k == coster[c]
           ask == k.ask
           r == RowById(k.id)
           spec == PerNode(r.best.spec, Nodes(r), r.design.spec)
<1>1. Costing(k) /\ k.pc = "row" /\ UNCHANGED <<catalog, rows, suggester>>
  BY CosterOK DEF ComputeCosts
<1>2. ask \in Questions \cup {Recommend} /\ k.id \in Ids /\ Rows
  BY <1>1 DEF Costing, IInv
<1>3. r \in Stored
  BY <1>2, RowByIdOK
<1>4. /\ ask.end \in {"recommend", "cost", "provider"}
      /\ ask.end = "provider" => ask.provider \in Providers
  <2>1. ASSUME ask \in Questions
        PROVE  ask \in Question /\ (ask.end = "provider" => ask.provider \in Providers)
    BY <2>1, RequestAssumption
  <2>2. Recommend.end = "recommend"
    BY DEF Recommend
  <2> HIDE DEF ask
  <2> QED BY <1>2, <2>1, <2>2 DEF Question
<1> HIDE DEF r
<1>5. /\ r.best \in Candidate /\ r.design \in Design /\ r.nodes \in Nat /\ r.evaluated \in Nat
  <2>1. /\ r.best \in Candidate /\ r.design \in Designs \cup {ZeroDesign}
        /\ r.nodes \in NodeCounts \cup {0} /\ r.evaluated \in NodeCounts \cup {0}
    BY <1>3 DEF Stored
  <2>2. \A n \in NodeCounts \cup {0} : n \in Nat
    BY RequestAssumption
  <2> HIDE DEF spec, ask, k
  <2> QED BY <2>1, <2>2, DesignsOK
<1>6. Nodes(r) \in Nat /\ r.design.budget \in Nat
  BY <1>5 DEF Nodes, Design
<1>7. spec \in Nat \X Nat
  <2>1. r.best.spec \in Nat \X Nat /\ r.design.spec \in Nat \X Nat
    BY <1>5 DEF Candidate, Design
  <2> QED BY <1>6, <2>1, PerNodeOK
<1>8. catalog \in SUBSET PriceRow /\ IsFiniteSet(catalog)
  BY RequestAssumption DEF IInv
<1> HIDE DEF spec, k, ask
<1>9. ASSUME NEW plans, NEW rec,
             \A plan \in plans : Sound(plan, catalog, spec, r.design.budget, ask.end # "cost"),
             rec = NoRecommendation \/ rec \in Recommendations(plans, r.design.budget),
             NEW pc \in {"persist", "keep"},
             coster' = [coster EXCEPT ![c] = [k EXCEPT !.pc = pc, !.answer = {Answer(ask, r, spec, plans, rec)}]]
      PROVE  IInv'
  <2> DEFINE a == Answer(ask, r, spec, plans, rec)
             v == [k EXCEPT !.pc = pc, !.answer = {a}]
  <2>1. Worth(a)
    BY <1>6, <1>9, WorthOK
  <2>2. Basis(a) \in Based
    BY <1>4, <1>5, <1>6 DEF Basis, Based, Answer
  <2>3. coster' = [coster EXCEPT ![c] = v]
    BY <1>9
  <2> HIDE DEF a
  <2>4. v.pc = pc /\ v.id = k.id /\ v.ask = k.ask /\ v.answer = {a} /\ DOMAIN v = DOMAIN k
    <3>1. DOMAIN k = {"pc", "id", "ask", "answer"}
      BY <1>1 DEF Costing
    <3> QED BY <3>1
  <2>5. Costing(v)
    <3> HIDE DEF v
    <3> QED BY <1>1, <1>2, <2>1, <2>2, <2>4 DEF Costing, ask
  <2> HIDE DEF v
  <2> QED BY <1>1, <2>3, <2>5, TurnOK
<1>10. CASE \E a \in RecommendAnswers(ask, r, spec), pc \in {"persist", "keep"} :
              ask.end = "recommend" /\ coster' = [coster EXCEPT ![c] = [k EXCEPT !.pc = pc, !.answer = {a}]]
  <2>1. PICK a \in RecommendAnswers(ask, r, spec), pc \in {"persist", "keep"} :
          ask.end = "recommend" /\ coster' = [coster EXCEPT ![c] = [k EXCEPT !.pc = pc, !.answer = {a}]]
    BY <1>10
  <2> DEFINE jobs == RegionJobs(catalog, spec)
  <2>2. PICK d \in SUBSET jobs :
          \E plans \in JobPlans(catalog, d, spec, Nodes(r), r.design.budget) :
            \E rec \in Recommendations(plans, r.design.budget) : a = Answer(ask, r, spec, plans, rec)
    BY DEF RecommendAnswers
  <2>3. \A j \in d : j[1] \in Providers
    BY DEF RegionJobs
  <2>4. PICK plans \in JobPlans(catalog, d, spec, Nodes(r), r.design.budget) :
          \E rec \in Recommendations(plans, r.design.budget) : a = Answer(ask, r, spec, plans, rec)
    BY <2>2
  <2>5. PICK rec \in Recommendations(plans, r.design.budget) : a = Answer(ask, r, spec, plans, rec)
    BY <2>4
  <2>6. \A plan \in plans : Sound(plan, catalog, spec, r.design.budget, TRUE)
    BY <1>6, <1>7, <1>8, <2>3, <2>4, JobPlansOK
  <2>7. \A plan \in plans : Sound(plan, catalog, spec, r.design.budget, ask.end # "cost")
    BY <2>6 DEF Sound
  <2> QED BY <1>9, <2>1, <2>5, <2>7
<1>11. CASE \E a \in ProviderAnswers(ask, r, spec), pc \in {"persist", "keep"} :
              ask.end = "provider" /\ coster' = [coster EXCEPT ![c] = [k EXCEPT !.pc = pc, !.answer = {a}]]
  <2>1. PICK a \in ProviderAnswers(ask, r, spec), pc \in {"persist", "keep"} :
          ask.end = "provider" /\ coster' = [coster EXCEPT ![c] = [k EXCEPT !.pc = pc, !.answer = {a}]]
    BY <1>11
  <2>2. PICK plans \in ProviderPlans(catalog, ask.provider, spec, Nodes(r), ask.region, r.design.budget) :
          a = Answer(ask, r, spec, plans, NoRecommendation)
    BY DEF ProviderAnswers
  <2>3. \A plan \in plans : Sound(plan, catalog, spec, r.design.budget, TRUE)
    BY <1>4, <1>6, <1>7, <1>8, <2>1, ProviderPlansOK
  <2>4. \A plan \in plans : Sound(plan, catalog, spec, r.design.budget, ask.end # "cost")
    BY <2>3 DEF Sound
  <2> QED BY <1>9, <2>1, <2>2, <2>4
<1>12. CASE \E a \in CostAnswers(ask, r, spec), pc \in {"persist", "keep"} :
              ask.end = "cost" /\ coster' = [coster EXCEPT ![c] = [k EXCEPT !.pc = pc, !.answer = {a}]]
  <2>1. PICK a \in CostAnswers(ask, r, spec), pc \in {"persist", "keep"} :
          ask.end = "cost" /\ coster' = [coster EXCEPT ![c] = [k EXCEPT !.pc = pc, !.answer = {a}]]
    BY <1>12
  <2> DEFINE asked(p) == IF p = ask.provider THEN {ask.region} \ {""} ELSE {}
             of(p) == ClusterPlans(catalog, p, spec, Nodes(r), asked(p), r.design.budget)
  <2>2. PICK f \in {g \in [Providers -> UNION {of(p) : p \in Providers}] : \A p \in Providers : g[p] \in of(p)} :
          a = Answer(ask, r, spec, UNION Range(f), NoRecommendation)
    BY DEF CostAnswers
  <2> HIDE DEF asked
  <2>3. ASSUME NEW plan \in UNION Range(f) PROVE Sound(plan, catalog, spec, r.design.budget, FALSE)
    <3>1. PICK p \in Providers : plan \in f[p] /\ f[p] \in of(p)
      BY <2>2 DEF Range
    <3> QED BY <1>6, <1>7, <1>8, <3>1, ClusterPlansOK
  <2>4. \A plan \in UNION Range(f) : Sound(plan, catalog, spec, r.design.budget, ask.end # "cost")
    BY <2>1, <2>3
  <2> QED BY <1>9, <2>1, <2>2, <2>4
<1>13. CASE coster' = [coster EXCEPT ![c] = DoneCoster]
  BY <1>1, <1>13, DoneCosterOK, TurnOK
<1>14. \/ \E a \in CASE ask.end = "recommend" -> RecommendAnswers(ask, r, spec)
                     [] ask.end = "provider" -> ProviderAnswers(ask, r, spec)
                     [] ask.end = "cost" -> CostAnswers(ask, r, spec) :
            coster' = [coster EXCEPT ![c].pc = IF ask = Recommend THEN "persist" ELSE "keep",
                                     ![c].answer = {a}]
       \/ coster' = [coster EXCEPT ![c] = DoneCoster]
  BY DEF ComputeCosts, k, ask, r, spec
<1>15. ASSUME NEW a, coster' = [coster EXCEPT ![c].pc = IF ask = Recommend THEN "persist" ELSE "keep",
                                             ![c].answer = {a}]
       PROVE  \E pc \in {"persist", "keep"} : coster' = [coster EXCEPT ![c] = [k EXCEPT !.pc = pc, !.answer = {a}]]
  BY <1>15 DEF k
<1> QED BY <1>4, <1>10, <1>11, <1>12, <1>13, <1>14, <1>15

LEMMA PersistOK ==
    ASSUME IInv, NEW c \in Costers, Persist(c)
    PROVE  IInv'
<1> DEFINE k == coster[c]
           rec == {Basis(a) : a \in k.answer}
           v == [k EXCEPT !.pc = "keep"]
<1>1. Costing(k) /\ k.pc = "persist" /\ UNCHANGED <<catalog, suggester>> /\ Rows
  BY CosterOK DEF Persist, IInv
<1>2. rec \in SUBSET Based /\ \A x, y \in rec : x = y
  BY <1>1 DEF Costing
<1>3. \/ rows' = [i \in DOMAIN rows |-> IF rows[i].id = k.id THEN [rows[i] EXCEPT !.rec = rec] ELSE rows[i]]
      \/ UNCHANGED rows
  BY DEF Persist
<1>4. coster' = [coster EXCEPT ![c] = v]
  BY DEF Persist
<1> HIDE DEF rec
<1>5. Rows' /\ Ids' = Ids /\ (rows # <<>> => rows' # <<>>)
  <2>1. CASE UNCHANGED rows
    BY <1>1, <2>1 DEF Rows, Ids
  <2>2. CASE ~UNCHANGED rows
    BY <1>1, <1>2, <1>3, <2>2, PersistedOK
  <2> QED BY <2>1, <2>2
<1>6. Costing(v)
  <2>1. DOMAIN k = {"pc", "id", "ask", "answer"}
    BY <1>1 DEF Costing
  <2> HIDE DEF k
  <2>2. v.pc = "keep" /\ v.id = k.id /\ v.ask = k.ask /\ v.answer = k.answer /\ DOMAIN v = DOMAIN k
    BY <2>1
  <2> HIDE DEF v
  <2> QED BY <1>1, <2>2 DEF Costing
<1> HIDE DEF v, k
<1>7. PICK w : w = v
  OBVIOUS
<1>8. Costing(w)'
  <2>1. \A a : Worth(a)' = Worth(a)
    BY <1>1 DEF Worth, Sold
  <2>2. Costing(w)
    BY <1>6, <1>7
  <2> QED BY <1>5, <2>1, <2>2 DEF Costing
<1> QED BY <1>1, <1>4, <1>5, <1>7, <1>8, CostStep

LEMMA NextOK == IInv /\ [Next]_vars => IInv'
<1> SUFFICES ASSUME IInv, [Next]_vars PROVE IInv'
  OBVIOUS
<1>1. ASSUME NEW run \in Runs \cup {NoRun}, NEW design \in Designs, NEW nodes \in NodeCounts,
             CreateDesign(run, design, nodes)
      PROVE  IInv'
  BY <1>1, CreateDesignOK
<1>2. ASSUME NEW s \in Suggesters, NEW run \in Runs, NEW design \in Designs \cup {ZeroDesign},
             NEW nodes \in NodeCounts, NEW candidates \in Simulated[run],
             Suggest(s, run, design, nodes, candidates)
      PROVE  IInv'
  BY <1>2, SuggestOK
<1>3. ASSUME NEW s \in Suggesters,
             \/ EnsureDesign(s) \/ LoadDesign(s) \/ FindRow(s) \/ FindDesign(s) \/ FindAny(s)
             \/ ReadRow(s) \/ WriteRow(s)
      PROVE  IInv'
  BY <1>3, EnsureDesignOK, LoadDesignOK, FindRowOK, FindDesignOK, FindAnyOK, ReadRowOK, WriteRowOK
<1>4. ASSUME NEW c \in Costers, NEW id \in 1 .. MaxRows, NEW ask \in Questions \cup {Recommend},
             AskCosts(c, id, ask)
      PROVE  IInv'
  BY <1>4, AskCostsOK
<1>5. ASSUME NEW c \in Costers, ComputeCosts(c) PROVE IInv'
  BY <1>5, ComputeCostsOK
<1>6. ASSUME NEW c \in Costers, Persist(c) PROVE IInv'
  BY <1>6, PersistOK
<1>7. ASSUME NEW c \in Costers, Keep(c) PROVE IInv'
  BY <1>7, DoneCosterOK, TurnOK DEF Keep
<1>8. ASSUME UNCHANGED <<catalog, rows, suggester, coster>> PROVE IInv'
  <2>1. Rows' /\ Ids' = Ids /\ SoundSuggestion' = SoundSuggestion
    BY <1>8 DEF Rows, Ids, IInv, SoundSuggestion
  <2>2. \A c \in Costers : Costing(coster[c])'
    BY <1>8, <2>1, OthersCostOK
  <2> QED BY <1>8, <2>1, <2>2 DEF IInv
<1> QED BY <1>1, <1>2, <1>3, <1>4, <1>5, <1>6, <1>7, <1>8 DEF Next, vars, Expire

\* The invariant holds always.
THEOREM Invariant == Spec => []IInv
BY InitOK, NextOK, PTL DEF Spec

\* Request rows, requests and rows of designs have their types: an id is of one row, a row
\* has one recommendation at most.
THEOREM RequestsTypeCorrect == Spec => []TypeOK
<1>1. IInv => TypeOK
  <2> SUFFICES ASSUME IInv PROVE TypeOK
    OBVIOUS
  <2>1. Rows /\ catalog \in Catalogs
    BY DEF IInv
  <2>2. ASSUME NEW i \in DOMAIN rows PROVE Cardinality(rows[i].rec) <= 1
    <3>1. \A x, y \in rows[i].rec : x = y
      BY <2>1 DEF Rows
    <3>2. CASE rows[i].rec = {}
      BY <3>2, FS_EmptySet
    <3>3. CASE rows[i].rec # {}
      <4>1. PICK x : rows[i].rec = {x}
        BY <3>1, <3>3
      <4> QED BY <4>1, FS_Singleton
    <3> QED BY <3>2, <3>3
  <2>3. ASSUME NEW i \in DOMAIN rows
        PROVE  /\ rows[i].id \in 1 .. MaxRows /\ rows[i].run \in Runs \cup {NoRun}
               /\ rows[i].design \in Designs \cup {ZeroDesign}
               /\ rows[i].nodes \in NodeCounts \cup {0} /\ rows[i].evaluated \in NodeCounts \cup {0}
    <3>1. rows[i] \in Stored
      BY <2>1 DEF Rows
    <3> QED BY <3>1 DEF Stored
  <2>4. \A s \in Suggesters :
          suggester[s].pc \in {"idle", "ensure", "load", "find", "design", "any", "read", "write", "done"}
    BY SuggesterOK DEF Suggestion
  <2>5. \A c \in Costers : coster[c].pc \in {"idle", "row", "persist", "keep", "done"}
    BY DEF IInv, Costing
  <2> QED BY <2>1, <2>2, <2>3, <2>4, <2>5 DEF TypeOK, Rows
<1> QED BY <1>1, Invariant, PTL

(***************************************************************************)
(* What answers promise.                                                   *)
(***************************************************************************)

LEMMA AnswersOK == IInv => \A a \in Answers : Worth(a)
BY DEF IInv, Costing, Answers

\* Of every table of prices: no plan of an answer is smaller than the candidate.
THEOREM PlansLargeEnough == Spec => []PlansCoverSpec
<1>1. IInv => PlansCoverSpec
  BY AnswersOK DEF PlansCoverSpec, Worth
<1> QED BY <1>1, Invariant, PTL

\* A plan of a region is that of a price row there.
THEOREM PlansOnSale == Spec => []PlansAreSold
<1>1. IInv => PlansAreSold
  BY AnswersOK DEF PlansAreSold, Worth
<1> QED BY <1>1, Invariant, PTL

\* A recommendation is the cheapest plan, and says whether the budget holds.
THEOREM WithinBudget == Spec => []BudgetHonoured
<1>1. IInv => BudgetHonoured
  BY AnswersOK DEF BudgetHonoured, Worth
<1> QED BY <1>1, Invariant, PTL

Known == {"cpu_util_pct", "mem_util_pct", "vcpu", "memory_gb", "preferred_vcpu", "preferred_memory_gb"}

\* The required rules of rules.json name fields the engine does not know: they tell no two
\* candidates apart, and the best of them meets the target.
THEOREM BestMeets ==
    ASSUME \A r \in Rules : r.required => r.field \notin Known
    PROVE  Spec => []BestMeetsTarget
<1>1. ASSUME NEW design, NEW c, NEW e PROVE Passed(design, c) = Passed(design, e)
  <2>1. \A r \in Rules : r.required => Value(r, design, c) = 0 /\ Value(r, design, e) = 0
    BY DEF Value, Known
  <2> QED BY <2>1 DEF Passed
<1>2. ASSUME NEW design \in Design, NEW c \in Candidate, NEW e \in Candidate, Meets(design, c), ~Meets(design, e)
      PROVE  Before(Rank(design, c), Rank(design, e))
  <2> DEFINE s == Rank(design, c)
             t == Rank(design, e)
  <2>1. DOMAIN s = 1 .. 7 /\ s[1] = t[1] /\ s[2] = 0 /\ t[2] = 1
    BY <1>1, <1>2 DEF Rank
  <2> HIDE DEF s, t
  <2>2. 2 \in DOMAIN s /\ s[2] < t[2] /\ \A j \in 1 .. 2 - 1 : s[j] = t[j]
    BY <2>1
  <2> QED BY <2>2 DEF Before, s, t
<1>3. IInv => BestMeetsTarget
  <2> SUFFICES ASSUME IInv, NEW s \in Suggesters, suggester[s].pc = "write",
                      NEW c \in Range(suggester[s].candidates), Meets(suggester[s].design, c)
               PROVE  Meets(suggester[s].design, Best(suggester[s].design, suggester[s].candidates))
    BY DEF BestMeetsTarget
  <2> DEFINE u == suggester[s]
  <2>1. u.candidates \in Seq(Candidate) /\ u.candidates # <<>> /\ u.design \in Design
    BY SuggesterOK, DesignsOK DEF SoundSuggestion, Suggestion
  <2>2. c \in Candidate
    BY <2>1 DEF Range
  <2> QED BY <1>2, <2>1, <2>2, BestOK
<1> QED BY <1>3, Invariant, PTL

(***************************************************************************)
(* Suggestions beside each other keep the nodes and the design that none   *)
(* of them has read otherwise.                                             *)
(***************************************************************************)

SameSize(r, q) == q.nodes = r.nodes /\ q.design = r.design

\* What a request has read of a row is its size.
Agrees(u, r) == u.id = r.id => \A y \in u.stored : SameSize(r, y)

\* Rows that count in Settled.
SettledRow(r) == r.nodes > 0 /\ \A s \in Suggesters : Agrees(suggester[s], r)

SettledStays == Settled \subseteq Settled'

\* Settled sizes stay if their rows stay what they are, and so does what is read of them.
LEMMA StaysOK ==
    ASSUME \A i \in DOMAIN rows : SettledRow(rows[i]) =>
             \E k \in DOMAIN rows' : rows'[k].id = rows[i].id /\ SameSize(rows[i], rows'[k]),
           \A i \in DOMAIN rows : SettledRow(rows[i]) => \A s \in Suggesters : Agrees(suggester'[s], rows[i])
    PROVE  SettledStays
<1> SUFFICES ASSUME NEW z \in Settled PROVE z \in Settled'
  BY DEF SettledStays
<1>1. PICK x \in Range(rows) : SettledRow(x) /\ z = [id |-> x.id, nodes |-> x.nodes, design |-> x.design]
  BY DEF Settled, SettledRow, Agrees, SameSize
<1>2. PICK i \in DOMAIN rows : x = rows[i]
  BY DEF Range
<1>3. PICK k \in DOMAIN rows' : rows'[k].id = rows[i].id /\ SameSize(rows[i], rows'[k])
  BY <1>1, <1>2
<1>4. \A s \in Suggesters : Agrees(suggester'[s], rows[i])
  BY <1>1, <1>2
<1>5. PICK y : y = rows'[k]
  OBVIOUS
<1>6. y \in Range(rows')
  BY <1>5 DEF Range
<1>7. y.id = x.id /\ y.nodes = x.nodes /\ y.design = x.design /\ x.nodes > 0
  BY <1>1, <1>2, <1>3, <1>5 DEF SameSize, SettledRow
<1>8. \A s \in Suggesters : suggester'[s].id = y.id =>
        \A q \in suggester'[s].stored : q.nodes = y.nodes /\ q.design = y.design
  BY <1>2, <1>4, <1>7 DEF Agrees, SameSize
<1>9. z = [id |-> y.id, nodes |-> y.nodes, design |-> y.design] /\ y.nodes > 0
  BY <1>1, <1>7
<1> QED BY <1>6, <1>8, <1>9 DEF Settled

\* A row that was there has its size.
Sized == \A i \in DOMAIN rows, k \in DOMAIN rows' : rows[i].id = rows'[k].id => SameSize(rows[i], rows'[k])

LEMMA UnchangedSized ==
    ASSUME IInv, UNCHANGED rows
    PROVE  Sized /\ Ids \subseteq Ids'
BY DEF IInv, Rows, Sized, SameSize, Ids

LEMMA InsertSized ==
    ASSUME IInv, NEW run \in Runs \cup {NoRun}, NEW design \in Designs \cup {ZeroDesign},
           NEW nodes \in NodeCounts \cup {0}, NEW evaluated \in NodeCounts \cup {0},
           NEW best \in Candidate, Insert(run, design, nodes, evaluated, best)
    PROVE  Sized /\ Ids \subseteq Ids'
<1>1. /\ Rows' /\ Len(rows) + 1 \notin Ids /\ Ids \subseteq Ids'
      /\ DOMAIN rows' = 1 .. Len(rows) + 1 /\ rows'[Len(rows) + 1].id = Len(rows) + 1
      /\ \A i \in DOMAIN rows : i \in DOMAIN rows' /\ rows'[i] = rows[i]
  BY InsertOK DEF IInv
<1> SUFFICES ASSUME NEW i \in DOMAIN rows, NEW k \in DOMAIN rows', rows[i].id = rows'[k].id
             PROVE  SameSize(rows[i], rows'[k])
  BY <1>1 DEF Sized
<1>2. rows'[i].id = rows'[k].id /\ i \in DOMAIN rows'
  BY <1>1
<1>3. i = k
  BY <1>1, <1>2 DEF Rows
<1> QED BY <1>1, <1>3 DEF SameSize

\* What a request may have read: nothing, or its row as it is.
Fresh(u) == u.stored = {} \/ u.id = 0 \/ (u.id \in Ids /\ u.stored = {RowById(u.id)})

LEMMA FreshAgrees ==
    ASSUME IInv, NEW u, Fresh(u), NEW i \in DOMAIN rows
    PROVE  Agrees(u, rows[i])
<1>1. rows[i].id # 0
  <2>1. rows[i] \in Stored
    BY DEF IInv, Rows
  <2>2. \A r \in Stored : r.id # 0
    BY DEF Stored
  <2> QED BY <2>1, <2>2
<1>2. CASE u.id \in Ids /\ u.stored = {RowById(u.id)}
  <2>1. rows[i].id = u.id => rows[i] = RowById(u.id)
    BY <1>2, RowByIdOK DEF IInv
  <2> QED BY <1>2, <2>1 DEF Agrees, SameSize
<1> QED BY <1>1, <1>2 DEF Fresh, Agrees

\* Rows keep their sizes, and a request reads one at most.
LEMMA SizedStays ==
    ASSUME IInv, Sized, Ids \subseteq Ids',
           \A s \in Suggesters : suggester'[s] = suggester[s] \/ Fresh(suggester'[s])
    PROVE  SettledStays
<1>1. ASSUME NEW i \in DOMAIN rows
      PROVE  \E k \in DOMAIN rows' : rows'[k].id = rows[i].id /\ SameSize(rows[i], rows'[k])
  <2>1. rows[i].id \in Ids
    BY DEF Ids
  <2>2. PICK k \in DOMAIN rows' : rows'[k].id = rows[i].id
    BY <2>1 DEF Ids
  <2> QED BY <2>2 DEF Sized
<1>2. ASSUME NEW i \in DOMAIN rows, SettledRow(rows[i]), NEW s \in Suggesters
      PROVE  Agrees(suggester'[s], rows[i])
  <2>1. Agrees(suggester[s], rows[i])
    BY <1>2 DEF SettledRow
  <2>2. CASE suggester'[s] = suggester[s]
    BY <2>1, <2>2
  <2>3. CASE Fresh(suggester'[s])
    <3>1. PICK u : u = suggester'[s]
      OBVIOUS
    <3> QED BY <2>3, <3>1, FreshAgrees
  <2> QED BY <2>2, <2>3
<1> QED BY <1>1, <1>2, StaysOK

\* A step of one request that leaves the sizes alone.
LEMMA MoveStays ==
    ASSUME IInv, Sized, Ids \subseteq Ids', NEW s \in Suggesters, NEW u, Fresh(u),
           suggester' = [suggester EXCEPT ![s] = u]
    PROVE  SettledStays
<1>1. \A t \in Suggesters : suggester'[t] = suggester[t] \/ suggester'[t] = u
  BY DEF IInv
<1>2. \A t \in Suggesters : suggester'[t] = suggester[t] \/ Fresh(suggester'[t])
  BY <1>1
<1> QED BY <1>2, SizedStays

\* The same, of one that has read nothing.
LEMMA EmptyStays ==
    ASSUME IInv, Sized, Ids \subseteq Ids', NEW s \in Suggesters, NEW u, u.stored = {},
           suggester' = [suggester EXCEPT ![s] = u]
    PROVE  SettledStays
BY MoveStays DEF Fresh

LEMMA DoneIsEmpty == DoneSuggester.stored = {}
BY DEF DoneSuggester, IdleSuggester

LEMMA AnsweredStays ==
    ASSUME IInv, UNCHANGED rows, NEW s \in Suggesters, Answered(s)
    PROVE  SettledStays
BY UnchangedSized, DoneIsEmpty, EmptyStays DEF Answered

LEMMA GotoStays ==
    ASSUME IInv, Sized, Ids \subseteq Ids', NEW s \in Suggesters, suggester[s].pc # "write", NEW pc, Goto(s, pc)
    PROVE  SettledStays
<1> DEFINE u == [suggester[s] EXCEPT !.pc = pc]
<1>1. suggester[s] \in Suggestion /\ suggester[s].stored = {}
  BY SuggesterOK DEF SoundSuggestion
<1>2. u.stored = {}
  BY <1>1 DEF Suggestion
<1>3. suggester' = [suggester EXCEPT ![s] = u]
  BY DEF Goto
<1> HIDE DEF u
<1> QED BY <1>2, <1>3, EmptyStays

LEMMA TakeStays ==
    ASSUME IInv, UNCHANGED rows, NEW s \in Suggesters, NEW stored, Take(s, stored),
           \/ suggester[s].id = 0
           \/ suggester[s].id \in Ids /\ stored = {RowById(suggester[s].id)}
    PROVE  SettledStays
<1> DEFINE u == [suggester[s] EXCEPT !.pc = "write", !.stored = stored]
<1>1. suggester' = [suggester EXCEPT ![s] = u]
  BY DEF Take
<1>2. u.id = suggester[s].id /\ u.stored = stored
  BY SuggesterOK DEF Suggestion
<1> HIDE DEF u
<1>3. Fresh(u)
  BY <1>2 DEF Fresh
<1> QED BY <1>1, <1>3, UnchangedSized, MoveStays

\* The write of a row takes over the size that is settled.
LEMMA WriteStays ==
    ASSUME IInv, NEW s \in Suggesters, WriteRow(s)
    PROVE  SettledStays
<1> DEFINE u == suggester[s]
           merged == Merged(u.stored, u)
           best == Best(u.design, u.candidates)
<1>1. /\ u \in SoundSuggestion /\ u \in Suggestion /\ u.pc = "write" /\ Rows
      /\ suggester' = [suggester EXCEPT ![s] = DoneSuggester]
  BY SuggesterOK DEF WriteRow, Answered, IInv
<1>2. /\ merged.design \in Designs \cup {ZeroDesign} /\ merged.nodes \in NodeCounts \cup {0}
      /\ u.nodes \in NodeCounts \cup {0} /\ u.run \in Runs \cup {NoRun}
  BY <1>1, MergedOK DEF Suggestion
<1>3. best \in Candidate
  <2>1. u.candidates \in Seq(Candidate) /\ u.candidates # <<>> /\ u.design \in Design
    BY <1>1, DesignsOK DEF SoundSuggestion, Suggestion
  <2> QED BY <2>1, BestOK
<1>4. CASE u.id # 0 /\ rows' = Replaced(u.id, Rewritten(s))
  <2> DEFINE row == Rewritten(s)
  <2>1. u.id \in Ids /\ u.stored # {}
    BY <1>1, <1>4 DEF SoundSuggestion
  <2>2. RowById(u.id) \in Stored /\ RowById(u.id).id = u.id
    BY <1>1, <2>1, RowByIdOK
  <2>3. row \in Stored /\ row.id = u.id /\ row.rec = {} /\ row.nodes = merged.nodes /\ row.design = merged.design
    <3> HIDE DEF merged, best
    <3>1. row = [RowById(u.id) EXCEPT !.design = merged.design, !.nodes = merged.nodes,
                                      !.evaluated = u.nodes, !.best = best, !.rec = {}]
      BY DEF Rewritten, merged, best
    <3> HIDE DEF u, row
    <3> QED BY <1>2, <1>3, <2>2, <3>1 DEF Stored
  <2> HIDE DEF row
  <2>4. /\ Rows' /\ Ids' = Ids
        /\ \A k \in DOMAIN rows' : rows'[k] = row \/ \E i \in DOMAIN rows : rows'[k] = rows[i] /\ rows[i].id # u.id
    BY <1>1, <1>4, <2>1, <2>3, ReplacedOK DEF row
  <2>5. ASSUME NEW i \in DOMAIN rows, rows[i].id = u.id, SettledRow(rows[i])
        PROVE  merged.nodes = rows[i].nodes /\ merged.design = rows[i].design
    <3> DEFINE sized == {r \in u.stored : r.nodes > 0}
               q == CHOOSE r \in sized : TRUE
    <3>1. sized # {} /\ \A r \in sized : r.nodes = rows[i].nodes /\ r.design = rows[i].design
      BY <2>1, <2>5 DEF SettledRow, Agrees, SameSize
    <3>2. q \in sized
      BY <3>1
    <3>3. merged = [design |-> q.design, nodes |-> q.nodes]
      BY <3>1 DEF Merged
    <3> HIDE DEF q, merged
    <3> QED BY <3>1, <3>2, <3>3
  <2>6. ASSUME NEW i \in DOMAIN rows, SettledRow(rows[i])
        PROVE  \E k \in DOMAIN rows' : rows'[k].id = rows[i].id /\ SameSize(rows[i], rows'[k])
    <3>1. rows[i].id \in Ids
      BY DEF Ids
    <3>2. PICK k \in DOMAIN rows' : rows'[k].id = rows[i].id
      BY <2>4, <3>1 DEF Ids
    <3>3. CASE rows'[k] = row
      <4>1. rows[i].id = u.id
        BY <2>3, <3>2, <3>3
      <4>2. merged.nodes = rows[i].nodes /\ merged.design = rows[i].design
        BY <2>5, <2>6, <4>1
      <4> HIDE DEF u, merged
      <4> QED BY <2>3, <3>2, <3>3, <4>2 DEF SameSize
    <3>4. CASE rows'[k] # row
      <4>1. PICK j \in DOMAIN rows : rows'[k] = rows[j]
        BY <2>4, <3>4
      <4>2. i = j
        BY <1>1, <3>2, <4>1 DEF Rows
      <4> QED BY <3>2, <4>1, <4>2 DEF SameSize
    <3> QED BY <3>3, <3>4
  <2>7. ASSUME NEW i \in DOMAIN rows, SettledRow(rows[i]), NEW t \in Suggesters
        PROVE  Agrees(suggester'[t], rows[i])
    <3>1. suggester'[t] = suggester[t] \/ suggester'[t] = DoneSuggester
      BY <1>1 DEF IInv
    <3>2. Agrees(suggester[t], rows[i]) /\ Agrees(DoneSuggester, rows[i])
      BY <2>7, DoneIsEmpty DEF SettledRow, Agrees
    <3> QED BY <3>1, <3>2
  <2> QED BY <2>6, <2>7, StaysOK
<1>5. CASE Insert(u.run, merged.design, merged.nodes, u.nodes, best)
  <2>1. Sized /\ Ids \subseteq Ids'
    <3> HIDE DEF u, merged, best
    <3> QED BY <1>2, <1>3, <1>5, InsertSized
  <2> QED BY <1>1, <2>1, DoneIsEmpty, EmptyStays
<1>6. CASE UNCHANGED rows
  BY <1>1, <1>6, UnchangedSized, DoneIsEmpty, EmptyStays
<1> QED BY <1>4, <1>5, <1>6 DEF WriteRow, Rewritten

LEMMA NextStays ==
    ASSUME IInv, [Next]_vars
    PROVE  SettledStays
<1>1. ASSUME NEW run \in Runs \cup {NoRun}, NEW design \in Designs, NEW nodes \in NodeCounts,
             CreateDesign(run, design, nodes)
      PROVE  SettledStays
  <2>1. Insert(run, design, nodes, 0, NoBest) /\ UNCHANGED suggester
    BY <1>1 DEF CreateDesign
  <2>2. Sized /\ Ids \subseteq Ids'
    BY <2>1, InsertSized, DesignsOK
  <2> QED BY <2>1, <2>2, SizedStays
<1>2. ASSUME NEW s \in Suggesters, NEW run \in Runs, NEW design \in Designs \cup {ZeroDesign},
             NEW nodes \in NodeCounts, NEW candidates \in Simulated[run],
             Suggest(s, run, design, nodes, candidates)
      PROVE  SettledStays
  <2> DEFINE u == [pc |-> IF rows = <<>> THEN "ensure" ELSE "load", run |-> run, design |-> design,
                   nodes |-> nodes, candidates |-> candidates, id |-> 0, stored |-> {}]
  <2>1. UNCHANGED rows /\ suggester' = [suggester EXCEPT ![s] = u] /\ u.stored = {}
    BY <1>2 DEF Suggest
  <2> HIDE DEF u
  <2> QED BY <2>1, UnchangedSized, EmptyStays
<1>3. ASSUME NEW s \in Suggesters, EnsureDesign(s) PROVE SettledStays
  <2>1. CASE Insert(NoRun, suggester[s].design, 0, 0, NoBest) /\ Goto(s, "load")
    <3>1. suggester[s].design \in Designs \cup {ZeroDesign} /\ suggester[s].pc # "write"
      BY <1>3, SuggesterOK DEF Suggestion, EnsureDesign
    <3>2. Sized /\ Ids \subseteq Ids'
      BY <2>1, <3>1, InsertSized, DesignsOK
    <3> QED BY <2>1, <3>1, <3>2, GotoStays
  <2>2. CASE Answered(s) /\ UNCHANGED rows
    BY <2>2, AnsweredStays
  <2> QED BY <1>3, <2>1, <2>2 DEF EnsureDesign
<1>4. ASSUME NEW s \in Suggesters, LoadDesign(s) PROVE SettledStays
  <2>0. suggester[s] \in Suggestion /\ suggester[s].stored = {} /\ suggester[s].pc # "write" /\ UNCHANGED rows
    BY <1>4, SuggesterOK DEF LoadDesign, SoundSuggestion
  <2>1. ASSUME NEW d, suggester' = [suggester EXCEPT ![s].pc = "find", ![s].design = d] PROVE SettledStays
    <3> DEFINE u == [suggester[s] EXCEPT !.pc = "find", !.design = d]
    <3>1. suggester' = [suggester EXCEPT ![s] = u] /\ u.stored = {}
      BY <2>0, <2>1 DEF Suggestion
    <3> HIDE DEF u
    <3> QED BY <2>0, <3>1, UnchangedSized, EmptyStays
  <2>2. CASE Goto(s, "find")
    BY <2>0, <2>2, UnchangedSized, GotoStays
  <2> QED BY <1>4, <2>1, <2>2 DEF LoadDesign
<1>5. ASSUME NEW s \in Suggesters, FindRow(s) PROVE SettledStays
  <2>0. suggester[s] \in Suggestion /\ suggester[s].stored = {} /\ suggester[s].pc # "write" /\ UNCHANGED rows
    BY <1>5, SuggesterOK DEF FindRow, SoundSuggestion
  <2>1. ASSUME NEW id, suggester' = [suggester EXCEPT ![s].pc = "read", ![s].id = id] PROVE SettledStays
    <3> DEFINE u == [suggester[s] EXCEPT !.pc = "read", !.id = id]
    <3>1. suggester' = [suggester EXCEPT ![s] = u] /\ u.stored = {}
      BY <2>0, <2>1 DEF Suggestion
    <3> HIDE DEF u
    <3> QED BY <2>0, <3>1, UnchangedSized, EmptyStays
  <2>2. \/ \E id : suggester' = [suggester EXCEPT ![s].pc = "read", ![s].id = id]
        \/ Goto(s, "design") \/ Answered(s)
    BY <1>5 DEF FindRow, LookupFails
  <2> QED BY <2>0, <2>1, <2>2, UnchangedSized, GotoStays, AnsweredStays
<1>6. ASSUME NEW s \in Suggesters, FindDesign(s) \/ FindAny(s) PROVE SettledStays
  <2>1. suggester[s].id = 0 /\ suggester[s].pc # "write" /\ UNCHANGED rows
    BY <1>6, SuggesterOK DEF FindDesign, FindAny, SoundSuggestion
  <2>2. (\E stored : Take(s, stored)) \/ Goto(s, "any") \/ Answered(s)
    BY <1>6 DEF FindDesign, FindAny, LookupFails
  <2> QED BY <2>1, <2>2, TakeStays, UnchangedSized, GotoStays, AnsweredStays
<1>7. ASSUME NEW s \in Suggesters, ReadRow(s) PROVE SettledStays
  <2>1. suggester[s].id \in Ids
    BY <1>7, SuggesterOK DEF ReadRow, SoundSuggestion
  <2>2. UNCHANGED rows /\ (Take(s, {RowById(suggester[s].id)}) \/ Answered(s))
    BY <1>7 DEF ReadRow, LookupFails
  <2> QED BY <2>1, <2>2, TakeStays, AnsweredStays
<1>8. ASSUME NEW s \in Suggesters, WriteRow(s) PROVE SettledStays
  BY <1>8, WriteStays
<1>9. ASSUME NEW c \in Costers, Persist(c) PROVE SettledStays
  <2> DEFINE rec == {Basis(a) : a \in coster[c].answer}
  <2>1. Costing(coster[c]) /\ UNCHANGED suggester
    BY <1>9, CosterOK DEF Persist
  <2>2. rec \in SUBSET Based /\ \A x, y \in rec : x = y
    BY <2>1 DEF Costing
  <2>3. \/ rows' = [i \in DOMAIN rows |-> IF rows[i].id = coster[c].id THEN [rows[i] EXCEPT !.rec = rec] ELSE rows[i]]
        \/ UNCHANGED rows
    BY <1>9 DEF Persist
  <2> HIDE DEF rec
  <2>4. CASE UNCHANGED rows
    BY <2>1, <2>4, UnchangedSized, SizedStays
  <2>5. CASE ~UNCHANGED rows
    <3>1. rows' = [i \in DOMAIN rows |-> IF rows[i].id = coster[c].id THEN [rows[i] EXCEPT !.rec = rec] ELSE rows[i]]
      BY <2>3, <2>5
    <3>2. /\ Rows' /\ Ids' = Ids /\ DOMAIN rows' = DOMAIN rows
          /\ \A i \in DOMAIN rows : /\ rows'[i].id = rows[i].id /\ rows'[i].nodes = rows[i].nodes
                                    /\ rows'[i].design = rows[i].design
      <4>1. Rows
        BY DEF IInv
      <4> QED BY <2>2, <3>1, <4>1, PersistedOK
    <3>3. Sized
      BY <3>2 DEF Sized, SameSize, Rows
    <3> QED BY <2>1, <3>2, <3>3, SizedStays
  <2> QED BY <2>4, <2>5
<1>10. ASSUME UNCHANGED <<rows, suggester>> PROVE SettledStays
  BY <1>10, UnchangedSized, SizedStays
<1>11. ASSUME NEW c \in Costers,
              \/ \E id \in 1 .. MaxRows, ask \in Questions \cup {Recommend} : AskCosts(c, id, ask)
              \/ ComputeCosts(c) \/ Keep(c)
       PROVE  SettledStays
  BY <1>10, <1>11 DEF AskCosts, ComputeCosts, Keep
<1>12. ASSUME Expire \/ UNCHANGED vars PROVE SettledStays
  BY <1>10, <1>12 DEF Expire, vars
<1> QED BY <1>1, <1>2, <1>3, <1>4, <1>5, <1>6, <1>7, <1>8, <1>9, <1>11, <1>12 DEF Next

\* However many suggestions are made for a run beside and after one another, a size stored in
\* its row stays, with the design, unless one of them has read the row without it.
THEOREM NodesStay == Spec => NodesOnceStored
<1>1. IInv /\ [Next]_vars => SettledStays
  BY NextStays
<1>2. NodesOnceStored <=> [][SettledStays]_vars
  BY DEF NodesOnceStored, SettledStays
<1> QED BY <1>1, <1>2, Invariant, PTL DEF Spec
=============================================================================

------------------------------- MODULE Requests -------------------------------
(***************************************************************************)
(* The request log of analysis suggestions, of one user and project: a row *)
(* for a design posted, and one for each run whose candidates were judged. *)
(* POST /suggest goes through several queries; POST /cost/:id/recommend and *)
(* the two cost endpoints read a row, compute, and keep the answer in the  *)
(* row or in a cache for ten minutes.  They run beside each other.         *)
(*                                                                         *)
(* Rows are kept in the order of created_at.  Prices stay what they are.   *)
(***************************************************************************)
EXTENDS Costs, Rules

CONSTANTS
    Suggesters,   \* requests POST /suggest, each made once
    Costers,      \* requests for costs, each made once
    Runs,         \* simulation runs
    Designs,      \* designs posted or sent along; ZeroDesign is one left out
    NodeCounts,   \* node counts posted or sent along
    Simulated,    \* the candidates sent along: of each run, a set of sequences
    Catalogs,     \* the price tables there may be: sets of price rows
    Questions,    \* what costers ask: the end point, provider and region, or ""
    Faults,       \* whether queries fail
    MaxRows       \* bound: rows

NoRun == "none"

\* An end point; "" where it is not asked about one provider or region.
Question == [end : {"recommend", "cost", "provider"}, provider : Providers \cup {""}, region : STRING]

ASSUME RequestAssumption ==
    /\ Faults \in BOOLEAN /\ MaxRows \in Nat
    /\ NoRun \notin Runs
    /\ Designs \subseteq Design /\ NodeCounts \subseteq Nat
    /\ \A run \in Runs : Simulated[run] \subseteq Seq(Candidate)
    /\ \A prices \in Catalogs : IsFiniteSet(prices) /\ prices \subseteq PriceRow
    /\ Questions \subseteq {q \in Question : q.end = "provider" => q.provider \in Providers}

VARIABLES
    catalog,   \* the price rows
    rows,      \* request_responses, the newest last
    cache,     \* answers in Redis: key -> answer
    suggester, \* of each: what it is about to do, and what it knows
    coster     \* the same

vars == <<catalog, rows, cache, suggester, coster>>

ZeroDesign == [spec |-> <<0, 0>>, users |-> 0, budget |-> 0]
NoBest == [spec |-> <<0, 0>>, users |-> 0, cpu |-> 0, mem |-> 0]

\* "recommend", "cost" for all providers or "provider" for one.
Recommend == [end |-> "recommend", provider |-> "", region |-> ""]

\* cacheKey and recommendCacheKey: a key does not say which of the cost end points.
Key(ask, id) == <<ask.end = "recommend", ask.provider, ask.region, id>>

IdleSuggester == [pc |-> "idle", run |-> NoRun, design |-> ZeroDesign, nodes |-> 0,
                  candidates |-> <<>>, id |-> 0, stored |-> {}]
IdleCoster == [pc |-> "idle", id |-> 0, ask |-> Recommend, answer |-> {}]

\* A request that has its answer.
DoneSuggester == [IdleSuggester EXCEPT !.pc = "done"]
DoneCoster == [IdleCoster EXCEPT !.pc = "done"]

TypeOK ==
    /\ catalog \in Catalogs
    /\ Len(rows) <= MaxRows
    /\ \A i \in DOMAIN rows :
         /\ rows[i].id \in 1 .. MaxRows /\ rows[i].run \in Runs \cup {NoRun}
         /\ rows[i].design \in Designs \cup {ZeroDesign}
         /\ rows[i].nodes \in NodeCounts \cup {0} /\ rows[i].evaluated \in NodeCounts \cup {0}
         /\ Cardinality(rows[i].rec) <= 1
    /\ \A i, k \in DOMAIN rows : rows[i].id = rows[k].id => i = k
    /\ \A s \in Suggesters : suggester[s].pc \in {"idle", "ensure", "load", "find", "design", "any", "read",
                                              "write", "done"}
    /\ \A c \in Costers : coster[c].pc \in {"idle", "row", "persist", "keep", "done"}

Init ==
    /\ catalog \in Catalogs
    /\ rows = <<>>
    /\ cache = [k \in {} |-> 0]
    /\ suggester = [s \in Suggesters |-> IdleSuggester]
    /\ coster = [c \in Costers |-> IdleCoster]

-----------------------------------------------------------------------------
(***************************************************************************)
(* Rows.                                                                   *)
(***************************************************************************)

\* The newest of some rows, or none.
Latest(places) == IF places = {} THEN {} ELSE {rows[Max(places)]}

\* Rows of a run; those of no run are designs.
OfRun(run) == {i \in DOMAIN rows : rows[i].run = run}

RowById(id) == CHOOSE r \in Range(rows) : r.id = id

Insert(run, design, nodes, evaluated, best) ==
    /\ Len(rows) < MaxRows
    /\ rows' = Append(rows, [id |-> Len(rows) + 1, run |-> run, design |-> design, nodes |-> nodes,
                             evaluated |-> evaluated, best |-> best, rec |-> {}])

\* Mutant of Replaced: the old row stays.
ReplacedBeside(id, row) == Append(rows, row)

\* A row rewritten becomes the newest.
Replaced(id, row) ==
    LET i == CHOOSE i \in DOMAIN rows : rows[i].id = id
    IN Append(RemoveAt(rows, i), row)

\* POST /design.
CreateDesign(run, design, nodes) ==
    /\ Insert(run, design, nodes, 0, NoBest)
    /\ UNCHANGED <<catalog, cache, suggester, coster>>

Valid(r) == r.nodes > 0 /\ r.design.spec[1] > 0 /\ r.design.spec[2] > 0

\* LoadLatestScenarioHostConfig: of the newest design, else of the newest row.
HostConfig ==
    LET designed == {r \in Latest(OfRun(NoRun)) : Valid(r)}
        any == {r \in Latest(DOMAIN rows) : Valid(r)}
    IN {[nodes |-> r.nodes, spec |-> r.design.spec] : r \in IF designed # {} THEN designed ELSE any}

-----------------------------------------------------------------------------
(***************************************************************************)
(* POST /suggest.                                                          *)
(***************************************************************************)

Goto(s, pc) == suggester' = [suggester EXCEPT ![s].pc = pc]
Answered(s) == suggester' = [suggester EXCEPT ![s] = DoneSuggester]

\* hasDesignForProject: without a row the request must bring a design.
Suggest(s, run, design, nodes, candidates) ==
    /\ suggester[s] = IdleSuggester
    /\ rows # <<>> \/ design # ZeroDesign
    /\ suggester' = [suggester EXCEPT ![s] =
                        [pc |-> IF rows = <<>> THEN "ensure" ELSE "load", run |-> run, design |-> design,
                         nodes |-> nodes, candidates |-> candidates, id |-> 0, stored |-> {}]]
    /\ UNCHANGED <<catalog, rows, cache, coster>>

\* ensureDesignForProject: a design without nodes.
EnsureDesign(s) ==
    /\ suggester[s].pc = "ensure"
    /\ \/ Insert(NoRun, suggester[s].design, 0, 0, NoBest) /\ Goto(s, "load")
       \/ Faults /\ Answered(s) /\ UNCHANGED rows
    /\ UNCHANGED <<catalog, cache, coster>>

\* loadLatestDesign, for a request without one; an error is ignored.
LoadDesign(s) ==
    /\ suggester[s].pc = "load"
    /\ LET u == suggester[s]
       IN \/ /\ u.design = ZeroDesign
             /\ suggester' = [suggester EXCEPT ![s].pc = "find",
                                               ![s].design = (CHOOSE r \in Latest(DOMAIN rows) : TRUE).design]
          \/ /\ u.design # ZeroDesign \/ Faults
             /\ Goto(s, "find")
    /\ UNCHANGED <<catalog, rows, cache, coster>>

\* A lookup fails: the answer goes to a file of its own.
LookupFails(s) == Faults /\ Answered(s)

\* The request of some rows, one or none, is what the write goes by.
Take(s, stored) == suggester' = [suggester EXCEPT ![s].pc = "write", ![s].stored = stored]

\* The candidates are judged; then the run's row is looked for.  Without candidates there is
\* nothing to store.
FindRow(s) ==
    /\ suggester[s].pc = "find"
    /\ LET ofRun == Latest(OfRun(suggester[s].run))
       IN \/ /\ suggester[s].candidates # <<>>
             /\ IF ofRun # {}
                THEN suggester' = [suggester EXCEPT ![s].pc = "read", ![s].id = (CHOOSE r \in ofRun : TRUE).id]
                ELSE Goto(s, "design")
          \/ suggester[s].candidates = <<>> /\ Answered(s)
          \/ LookupFails(s)
    /\ UNCHANGED <<catalog, rows, cache, coster>>

\* A run without a row takes over the newest design's request.
FindDesign(s) ==
    /\ suggester[s].pc = "design"
    /\ LET designed == Latest(OfRun(NoRun))
       IN \/ IF designed # {} THEN Take(s, designed) ELSE Goto(s, "any")
          \/ LookupFails(s)
    /\ UNCHANGED <<catalog, rows, cache, coster>>

\* Else that of the newest row, if there is one.
FindAny(s) ==
    /\ suggester[s].pc = "any"
    /\ Take(s, Latest(DOMAIN rows)) \/ LookupFails(s)
    /\ UNCHANGED <<catalog, rows, cache, coster>>

\* The request stored in the run's row.
ReadRow(s) ==
    /\ suggester[s].pc = "read"
    /\ \/ Take(s, {RowById(suggester[s].id)})
       \/ LookupFails(s)
    /\ UNCHANGED <<catalog, rows, cache, coster>>

\* Mutant of Merged: as sent.
AsSent(stored, u) == [design |-> u.design, nodes |-> u.nodes]

\* mergePersistedRequestEnvelope: a stored number of nodes stays, and the design with it.
Merged(stored, u) ==
    LET sized == {r \in stored : r.nodes > 0}
    IN IF sized = {} THEN [design |-> u.design, nodes |-> u.nodes]
       ELSE LET r == CHOOSE r \in sized : TRUE IN [design |-> r.design, nodes |-> r.nodes]

\* The run's row is replaced, its recommendation dropped, and it becomes the newest; or a
\* row is inserted.
WriteRow(s) ==
    /\ suggester[s].pc = "write"
    /\ LET u == suggester[s]
           merged == Merged(u.stored, u)
           best == Best(u.design, u.candidates)
       IN \/ /\ u.id # 0
             /\ rows' = Replaced(u.id, [RowById(u.id) EXCEPT
                                          !.design = merged.design, !.nodes = merged.nodes,
                                          !.evaluated = u.nodes, !.best = best, !.rec = {}])
          \/ u.id = 0 /\ Insert(u.run, merged.design, merged.nodes, u.nodes, best)
          \/ Faults /\ UNCHANGED rows
    /\ Answered(s)
    /\ UNCHANGED <<catalog, cache, coster>>

-----------------------------------------------------------------------------
(***************************************************************************)
(* Costs of a row.                                                         *)
(***************************************************************************)

\* An answer in the cache is given; else the row is read.
AskCosts(c, id, ask) ==
    /\ coster[c] = IdleCoster
    /\ Key(ask, id) \notin DOMAIN cache
    /\ \E r \in Range(rows) : r.id = id
    /\ coster' = [coster EXCEPT ![c] = [pc |-> "row", id |-> id, ask |-> ask, answer |-> {}]]
    /\ UNCHANGED <<catalog, rows, cache, suggester>>

\* EffectiveClusterNodes.
Nodes(r) == IF r.evaluated > 0 THEN r.evaluated ELSE r.nodes

NoRecommendation == [fits |-> FALSE, plan |-> {}]

\* What an answer was computed from, the plans there are, and the one recommended.
Answer(ask, r, spec, plans, rec) ==
    [end |-> ask.end, best |-> r.best, nodes |-> Nodes(r), budget |-> r.design.budget, spec |-> spec,
     plans |-> plans, rec |-> rec]

\* Of what is kept: which end point it answered, and for what.
Basis(a) == [end |-> a.end, best |-> a.best, nodes |-> a.nodes, budget |-> a.budget]

\* BuildGlobalRecommendation: the jobs of regions run beside each other, and those that fail
\* are left out.
RecommendAnswers(ask, r, spec) ==
    LET jobs == RegionJobs(catalog, spec)
        done == IF Faults THEN SUBSET jobs ELSE {jobs}
    IN UNION {{Answer(ask, r, spec, plans, rec) : rec \in Recommendations(plans, r.design.budget)}
                : plans \in UNION {JobPlans(catalog, d, spec, Nodes(r), r.design.budget) : d \in done}}

\* HandleCostForProvider.
ProviderAnswers(ask, r, spec) ==
    {Answer(ask, r, spec, plans, NoRecommendation)
       : plans \in ProviderPlans(catalog, ask.provider, spec, Nodes(r), ask.region, r.design.budget)}

\* HandleCost: a region is looked at for the provider it is asked with.
CostAnswers(ask, r, spec) ==
    LET of(p) == ClusterPlans(catalog, p, spec, Nodes(r),
                              IF p = ask.provider THEN {ask.region} \ {""} ELSE {}, r.design.budget)
    IN {Answer(ask, r, spec, UNION Range(f), NoRecommendation)
          : f \in {g \in [Providers -> UNION {of(p) : p \in Providers}] : \A p \in Providers : g[p] \in of(p)}}

\* The row is read and the answer computed; without one the request ends with an error.
ComputeCosts(c) ==
    /\ coster[c].pc = "row"
    /\ LET ask == coster[c].ask
           r == RowById(coster[c].id)
           spec == PerNode(r.best.spec, Nodes(r), r.design.spec)
           answers == CASE ask.end = "recommend" -> RecommendAnswers(ask, r, spec)
                        [] ask.end = "provider" -> ProviderAnswers(ask, r, spec)
                        [] ask.end = "cost" -> CostAnswers(ask, r, spec)
       IN \/ \E a \in answers :
               coster' = [coster EXCEPT ![c].pc = IF ask = Recommend THEN "persist" ELSE "keep",
                                        ![c].answer = {a}]
          \/ /\ Faults \/ answers = {}
             /\ coster' = [coster EXCEPT ![c] = DoneCoster]
    /\ UNCHANGED <<catalog, rows, cache, suggester>>

\* persistGlobalCostRecommendation, whatever the row has become; an error is logged.
Persist(c) ==
    /\ coster[c].pc = "persist"
    /\ \/ rows' = [i \in DOMAIN rows |-> IF rows[i].id = coster[c].id
                                         THEN [rows[i] EXCEPT !.rec = {Basis(a) : a \in coster[c].answer}] ELSE rows[i]]
       \/ Faults /\ UNCHANGED rows
    /\ coster' = [coster EXCEPT ![c].pc = "keep"]
    /\ UNCHANGED <<catalog, cache, suggester>>

\* The answer goes to the cache, if Redis is there, and to the caller.
Keep(c) ==
    /\ coster[c].pc = "keep"
    /\ LET k == coster[c]
       IN \/ cache' = [x \in {Key(k.ask, k.id)} |-> {Basis(a) : a \in k.answer}] @@ cache
          \/ Faults /\ UNCHANGED cache
    /\ coster' = [coster EXCEPT ![c] = DoneCoster]
    /\ UNCHANGED <<catalog, rows, suggester>>

\* Ten minutes have passed.
Expire ==
    /\ \E k \in DOMAIN cache : cache' = [x \in DOMAIN cache \ {k} |-> cache[x]]
    /\ UNCHANGED <<catalog, rows, suggester, coster>>

Next ==
    \/ \E run \in Runs \cup {NoRun}, design \in Designs, nodes \in NodeCounts : CreateDesign(run, design, nodes)
    \/ \E s \in Suggesters :
         \/ \E run \in Runs, design \in Designs \cup {ZeroDesign}, nodes \in NodeCounts :
              \E candidates \in Simulated[run] : Suggest(s, run, design, nodes, candidates)
         \/ EnsureDesign(s) \/ LoadDesign(s) \/ FindRow(s) \/ FindDesign(s) \/ FindAny(s)
         \/ ReadRow(s) \/ WriteRow(s)
    \/ \E c \in Costers :
         \/ \E id \in 1 .. MaxRows, ask \in Questions \cup {Recommend} : AskCosts(c, id, ask)
         \/ ComputeCosts(c) \/ Persist(c) \/ Keep(c)
    \/ Expire

Spec == Init /\ [][Next]_vars

-----------------------------------------------------------------------------
(***************************************************************************)
(* Properties.                                                             *)
(***************************************************************************)

\* rules/engine.go:243: "preserves request.simulation.nodes (user-entered sizing) once stored
\* (> 0)", and the design with it, whatever suggestions for its run bring along.
NodesAlwaysKept ==
    [][\A i \in DOMAIN rows, k \in DOMAIN rows' :
         rows[i].id = rows'[k].id /\ rows[i].nodes > 0 =>
           rows'[k].nodes = rows[i].nodes /\ rows'[k].design = rows[i].design]_vars

\* The sizes of rows that no suggestion under way has read without nodes, or with others.
Settled ==
    {[id |-> r.id, nodes |-> r.nodes, design |-> r.design] :
       r \in {x \in Range(rows) :
                /\ x.nodes > 0
                /\ \A s \in Suggesters : suggester[s].id = x.id =>
                     \A y \in suggester[s].stored : y.nodes = x.nodes /\ y.design = x.design}}

\* Such a size stays, however many suggestions for its run are made beside and after one
\* another, whatever they bring along.  (A suggestion that has read the row before it had
\* nodes takes them away again: NodesAlwaysKept.)
NodesOnceStored == [][Settled \subseteq Settled']_vars

\* What is about to be stored as best meets the design's number of users if any candidate
\* does.
BestMeetsTarget ==
    \A s \in Suggesters : suggester[s].pc = "write" =>
        LET u == suggester[s]
        IN (\E c \in Range(u.candidates) : Meets(u.design, c)) => Meets(u.design, Best(u.design, u.candidates))

Answers == UNION {coster[c].answer : c \in Costers}

\* No plan is smaller than the candidate it is for.
PlansCoverSpec ==
    \A a \in Answers : \A plan \in a.plans : plan.spec[1] >= a.spec[1] /\ plan.spec[2] >= a.spec[2]

Sold(plan) ==
    \E r \in catalog :
        /\ r.provider = plan.provider /\ r.region = plan.region
        /\ r.type = plan.type /\ r.spec = plan.spec
        /\ Option(r) = plan.option /\ Hourly(r) = plan.price

\* A plan of a region can be bought there: the same instance, option and price.
PlansAreSold == \A a \in Answers : a.end # "cost" => \A plan \in a.plans : Sold(plan)

\* A recommendation is within the budget if a plan is, no plan there is cheaper, and it
\* says so only then: whatever the jobs of some regions came to.
BudgetHonoured ==
    \A a \in Answers : \A plan \in a.rec.plan :
        /\ a.rec.fits = (a.budget = 0 \/ \E b \in a.plans : b.month <= a.budget)
        /\ \A b \in a.plans : plan.month <= b.month

\* The recommendation in a row is for the candidate, nodes and budget in the row
\* (rules/engine.go sets it to NULL when it replaces them).
RecommendationOfRow ==
    \A r \in Range(rows) : \A a \in r.rec :
        a.best = r.best /\ a.nodes = Nodes(r) /\ a.budget = r.design.budget

\* The cached recommendation is for the candidate in the row.
CacheOfRow ==
    \A k \in DOMAIN cache : \A a \in cache[k] : a.best = RowById(k[4]).best

\* What an end point finds in the cache it has put there.
ServedOwn ==
    \A k \in DOMAIN cache : \A ask \in Questions : Key(ask, k[4]) = k =>
        \A a \in cache[k] : a.end = ask.end

\* A run has one row of suggestions.
OneRowPerRun ==
    \A i, k \in DOMAIN rows :
        rows[i].run = rows[k].run /\ rows[i].run # NoRun /\ NoBest \notin {rows[i].best, rows[k].best} => i = k

\* A suggestion does not change the host configuration a design has set.
HostConfigStays ==
    [][(\E s \in Suggesters : EnsureDesign(s)) /\ HostConfig # {} => HostConfig' = HostConfig]_vars

\* Nothing on sale for the candidate's own spec is cheaper than the recommendation
\* (costcal/global_recommend.go:16).
RecommendsCheapest ==
    \A a \in Answers : \A plan \in a.rec.plan :
        \A r \in {q \in catalog : q.spec = a.spec /\ Priced(q) /\ ControlPlane[q.provider] # {}} :
            Option(r) \in {<<"OnDemand", "">>} => plan.month <= MonthlyTotal(r.provider, a.nodes, Hourly(r))

\* A plan of the costs of all providers can be bought in its region.
CostsAreSold == \A a \in Answers : \A plan \in a.plans : Sold(plan)

\* Some candidate passes all required rules, whatever they are.
SomePass ==
    \A s \in Suggesters : suggester[s].pc = "write" =>
        \E c \in Range(suggester[s].candidates) : Passed(suggester[s].design, c)
=============================================================================

------------------------------- MODULE AutoFix -------------------------------
(***************************************************************************)
(* Suggestions for an architecture YAML: the client edits it, asks for a   *)
(* preview of what the detectors find, selects suggestions and has their   *)
(* fixes applied.  Preview and apply are two requests, and each analyses   *)
(* the YAML anew: what the client selected is looked up among the          *)
(* detections of another analysis, whose order may differ.  Each request   *)
(* is one step, as it shares no state with others.                         *)
(***************************************************************************)
EXTENDS AntiPatterns

CONSTANTS
    Words,        \* names of services and databases
    Types,        \* Words -> canonical type, or "none" if services[] has no entry
    Listed,       \* names under databases or datastores
    Links,        \* bound: <<from, to, sync>> of the dependencies and calls it writes
    MaxDeps,      \* bound: dependencies the client writes
    MaxCalls,     \* bound: entries of services[].calls the client writes
    MaxSelected,  \* bound: suggestions selected at a time
    MaxRounds     \* bound: previews

ASSUME FixAssumption ==
    /\ IsFiniteSet(Words)
    /\ {MaxDeps, MaxCalls, MaxSelected, MaxRounds} \subseteq Nat
    /\ Types \in [Words -> {"none", "service", "api_gateway", "database"}]
    /\ Listed \subseteq Words
    /\ Links \subseteq Words \X Words \X BOOLEAN

VARIABLES
    spec,    \* the YAML
    phase,   \* what the client does next
    rounds,
    shown,   \* the detections behind the suggestions of the preview
    result   \* of the last apply

fixVars == <<spec, phase, rounds, shown, result>>

\* Mutant of DetectionKey: the nodes as they come.
KeyUnsorted(d) == <<d.kind, d.nodes>>

\* engine.go: kind and sorted nodes.
DetectionKey(d) == <<d.kind, Range(d.nodes)>>

NoResult == [how |-> "none", before |-> <<>>, asked |-> {}, selected |-> {}, applied |-> <<>>]

Written == {Name(w) : w \in Words}

FixInit ==
    /\ spec = [deps  |-> <<>>, calls |-> <<>>, dbs |-> {Name(w) : w \in Listed},
               types |-> [n \in {x \in Written : Types[x.word] # "none"} |-> Types[n.word]]]
    /\ phase = "edit"
    /\ rounds = 0
    /\ shown = <<>>
    /\ result = NoResult

-----------------------------------------------------------------------------
(***************************************************************************)
(* Edits of the fixes (strategies/common.go).                              *)
(***************************************************************************)

\* Mutant of First: the first link of the source, whatever its target.
FirstOfSource(links, p) == SelectInSeq(links, LAMBDA e : e.from = p[1])

First(links, p) == SelectInSeq(links, LAMBDA e : e.from = p[1] /\ e.to = p[2])

HasDep(s, p) == First(s.deps, p) # 0

RemoveDependencyOnce(s, p) ==
    IF HasDep(s, p) THEN [s EXCEPT !.deps = RemoveAt(@, First(@, p))] ELSE s

RemoveLegacyCall(s, p) ==
    IF First(s.calls, p) # 0 THEN [s EXCEPT !.calls = RemoveAt(@, First(@, p))] ELSE s

RemoveDependencyOrLegacyCall(s, p) ==
    IF HasDep(s, p) THEN RemoveDependencyOnce(s, p) ELSE RemoveLegacyCall(s, p)

SetAsync(s, p) == IF HasDep(s, p) THEN [s EXCEPT !.deps[First(s.deps, p)].sync = FALSE] ELSE s

AddDependencyIfMissing(s, p, sync) ==
    IF HasDep(s, p) THEN s ELSE [s EXCEPT !.deps = Append(@, Link(p[1], p[2], sync))]

\* Mutant of EnsureType: a new entry without a type.
EnsureUntyped(s, n, type) ==
    IF n \in DOMAIN s.types THEN s ELSE [s EXCEPT !.types = Put(@, n, "")]

EnsureType(s, n, type) ==
    IF n \in DOMAIN s.types THEN s ELSE [s EXCEPT !.types = Put(@, n, type)]

\* flipDependencyDirection and, without such a dependency, flipLegacyCallDirection.
Flip(s, from, to) ==
    LET back == <<to, from>>
        i == First(s.deps, <<from, to>>)
        cut == EnsureType(RemoveLegacyCall(s, <<from, to>>), to, "service")
    IN CASE i # 0 -> AddDependencyIfMissing(RemoveDependencyOnce(s, <<from, to>>), back, s.deps[i].sync)
         [] i = 0 /\ First(s.calls, <<from, to>>) = 0 -> s
         [] OTHER -> IF First(cut.calls, back) # 0 THEN cut
                     ELSE [cut EXCEPT !.calls = Append(@, Link(to, from, TRUE))]

Suffixed(n, use) == [n EXCEPT !.tail = Append(@, use)]

\* The name, or the name with the first free number; of 50 names, or else 999.
UniqueServiceName(s, n) ==
    LET Numbered(k) == Suffixed(n, <<"number", k>>)
        free == {k \in 1 .. 49 : Numbered(k) \notin DOMAIN s.types} \cup {999}
    IN IF n \notin DOMAIN s.types THEN n ELSE Numbered(Min(free))

\* The first of the edits that changes something.
FirstThatChanges(s, Edit(_, _), pairs) ==
    LET changing == {i \in DOMAIN pairs : Edit(s, pairs[i]) # s}
    IN IF changing = {} THEN s ELSE Edit(s, pairs[Min(changing)])

-----------------------------------------------------------------------------
(***************************************************************************)
(* The fixes: Apply of each strategy.  Only those of ping-pong and reverse *)
(* dependencies know calls.                                                *)
(***************************************************************************)

BreakCycle(s, nodes) ==
    LET pairs == FlattenSeq([i \in DOMAIN nodes |-> [j \in DOMAIN nodes |-> <<nodes[i], nodes[j]>>]])
    IN FirstThatChanges(s, RemoveDependencyOnce, Only(pairs, {p \in Range(pairs) : p[1] # p[2]}))

\* Backend to user interface first, else the second to the first.
DropLeg(s, nodes) ==
    LET ab == <<nodes[1], nodes[2]>>
        ba == <<nodes[2], nodes[1]>>
    IN FirstThatChanges(s, RemoveDependencyOrLegacyCall,
         IF ~IsUIName(nodes[1]) /\ IsUIName(nodes[2]) THEN <<ab, ba>> ELSE <<ba, ab>>)

Loosen(s, nodes) ==
    FirstThatChanges(s, SetAsync, <<<<nodes[2], nodes[1]>>, <<nodes[1], nodes[2]>>>>)

\* The middle hop.
CutChain(s, nodes) ==
    LET mid == (Len(nodes) - 2) \div 2 + 1 IN SetAsync(s, <<nodes[mid], nodes[mid + 1]>>)

\* Mutant of SplitGod: the service does not call the one its calls have moved to.
SplitGodApart(s, nodes) ==
    LET main == nodes[1]
        outs == Only([i \in DOMAIN s.deps |-> i], {i \in DOMAIN s.deps : s.deps[i].from = main})
        split == UniqueServiceName(s, Suffixed(main, <<"split", 0>>))
    IN IF Len(outs) < 2 THEN s
       ELSE [EnsureType(s, split, "service") EXCEPT !.deps =
               [i \in DOMAIN @ |-> IF i \in Range(SubSeq(outs, Len(outs) \div 2 + 1, Len(outs)))
                                   THEN [@[i] EXCEPT !.from = split] ELSE @[i]]]

SplitGod(s, nodes) ==
    LET main == nodes[1]
        outs == Only([i \in DOMAIN s.deps |-> i], {i \in DOMAIN s.deps : s.deps[i].from = main})
        moved == Range(SubSeq(outs, Len(outs) \div 2 + 1, Len(outs)))
        split == UniqueServiceName(s, Suffixed(main, <<"split", 0>>))
        halved == [EnsureType(s, split, "service") EXCEPT !.deps =
                     [i \in DOMAIN @ |-> IF i \in moved THEN [@[i] EXCEPT !.from = split] ELSE @[i]]]
    IN IF Len(outs) < 2 THEN s ELSE AddDependencyIfMissing(halved, <<main, split>>, TRUE)

\* Each client gets a database of its own; the shared one, which comes first, leaves services.
SplitFrom(s, nodes) ==
    LET shared == nodes[1]
        Move(t, c) ==
            LET own == UniqueServiceName(t, Suffixed(c, <<"db", 0>>))
            IN IF ~HasDep(t, <<c, shared>>) THEN t
               ELSE [EnsureType(t, own, "database") EXCEPT !.deps[First(t.deps, <<c, shared>>)].to = own]
        moved[i \in 1 .. Len(nodes)] == IF i = 1 THEN s ELSE Move(moved[i - 1], nodes[i])
        all == moved[Len(nodes)]
    IN IF Len(nodes) < 3 \/ all = s THEN s
       ELSE [all EXCEPT !.types = [n \in DOMAIN @ \ {shared} |-> @[n]]]

\* The place of the node the fix takes for the database: the first with a name like one, or
\* else the first.  It need not be the node the detection is about.
DatabaseAt(nodes) == LET like == SelectInSeq(nodes, IsDatabaseLikeName) IN IF like = 0 THEN 1 ELSE like

\* The others are its clients, in their order.
DatabaseFirst(nodes) == <<nodes[DatabaseAt(nodes)]>> \o RemoveAt(nodes, DatabaseAt(nodes))

SplitDatabase(s, nodes) == SplitFrom(s, DatabaseFirst(nodes))

\* Mutant of InsertBFF: the direct calls stay.
InsertBFFBeside(s, nodes) ==
    LET bff == UniqueServiceName(s, Name("bff"))
        Through(t, target) == AddDependencyIfMissing(t, <<bff, target>>, TRUE)
        after[i \in 1 .. Len(nodes)] ==
            IF i = 1 THEN AddDependencyIfMissing(EnsureType(s, bff, "api_gateway"), <<nodes[1], bff>>, TRUE)
            ELSE Through(after[i - 1], nodes[i])
    IN after[Len(nodes)]

InsertBFF(s, nodes) ==
    LET page == nodes[1]
        bff == UniqueServiceName(s, Name("bff"))
        Through(t, target) ==
            AddDependencyIfMissing(RemoveDependencyOnce(t, <<page, target>>), <<bff, target>>, TRUE)
        after[i \in 1 .. Len(nodes)] ==
            IF i = 1 THEN AddDependencyIfMissing(EnsureType(s, bff, "api_gateway"), <<page, bff>>, TRUE)
            ELSE Through(after[i - 1], nodes[i])
    IN after[Len(nodes)]

Fix(s, d) ==
    CASE d.kind = "cycles"               -> BreakCycle(s, d.nodes)
      [] d.kind = "god_service"          -> SplitGod(s, d.nodes)
      [] d.kind = "ping_pong_dependency" -> DropLeg(s, d.nodes)
      [] d.kind = "reverse_dependency"   -> Flip(s, d.nodes[1], d.nodes[2])
      [] d.kind = "shared_database"      -> SplitDatabase(s, d.nodes)
      [] d.kind = "sync_call_chain"      -> CutChain(s, d.nodes)
      [] d.kind = "tight_coupling"       -> Loosen(s, d.nodes)
      [] d.kind = "ui_orchestrator"      -> InsertBFF(s, d.nodes)

\* Merge of the fixed YAML into the original one: services, and dependencies unless
\* they are empty, which the YAML then leaves out; databases stay.
Merge(orig, fixed) ==
    [fixed EXCEPT !.deps = IF @ = <<>> THEN orig.deps ELSE @, !.dbs = orig.dbs]

-----------------------------------------------------------------------------
(***************************************************************************)
(* The requests.                                                           *)
(***************************************************************************)

\* By severity, then, as the detectors run in the order of their names, by kind.
Ranked(dets) ==
    Only(dets, {d \in Range(dets) : d.severity = "HIGH"})
    \o Only(dets, {d \in Range(dets) : d.severity = "MEDIUM"})

OrderedDetectionKeys(dets) ==
    LET ranked == Ranked(dets) IN Distinct([i \in DOMAIN ranked |-> DetectionKey(ranked[i])])

\* What one analysis of the YAML may return: the detectors run one after another, by their
\* names (RunAll).
Analyses(s) ==
    {FlattenSeq(<<a, b, c, d, e, f, g, h>>) :
       a \in Cycles(s), b \in GodServices(s), c \in PingPongs(s), d \in ReverseDependencies(s),
       e \in SharedDatabases(s), f \in SyncChains(s), g \in TightCouplings(s), h \in UIOrchestrators(s)}

WriteDependency(from, to, sync) ==
    /\ phase = "edit"
    /\ spec.calls = <<>>
    /\ Len(spec.deps) < MaxDeps
    /\ spec' = [spec EXCEPT !.deps = Append(@, Link(from, to, sync))]
    /\ UNCHANGED <<phase, rounds, shown, result>>

WriteCall(from, to) ==
    /\ phase = "edit"
    /\ spec.deps = <<>>
    /\ Len(spec.calls) < MaxCalls
    /\ from \in DOMAIN spec.types
    /\ spec' = [spec EXCEPT !.calls = Append(@, Link(from, to, TRUE))]
    /\ UNCHANGED <<phase, rounds, shown, result>>

\* SuggestionPreview.
Preview ==
    /\ phase \in {"edit", "fixed"}
    /\ rounds < MaxRounds
    /\ \E dets \in Analyses(spec) : dets # <<>> /\ shown' = dets
    /\ phase' = "select"
    /\ rounds' = rounds + 1
    /\ result' = NoResult
    /\ UNCHANGED spec

\* Of ranked detections those whose keys are selected.
Chosen(ranked, keys) == Only(ranked, {d \in Range(ranked) : DetectionKey(d) \in keys})

\* ApplyFixesYAMLBytesFiltered: one fix after another, each on what the earlier ones have
\* made of the YAML; those that change something are applied.
Fixed(chosen) ==
    LET One(acc, d) == LET fixed == Fix(acc.spec, d)
                       IN IF fixed = acc.spec THEN acc
                          ELSE [spec |-> fixed, applied |-> Append(acc.applied, d)]
        after[i \in 0 .. Len(chosen)] ==
            IF i = 0 THEN [spec |-> spec, applied |-> <<>>] ELSE One(after[i - 1], chosen[i])
    IN after[Len(chosen)]

\* SuggestionApply, for the detections it has found anew and the selection names.
Apply(how, asked, chosen) ==
    /\ spec' = IF Fixed(chosen).applied = <<>> THEN spec ELSE Merge(spec, Fixed(chosen).spec)
    /\ result' = [how |-> how, before |-> spec, asked |-> asked,
                  selected |-> {DetectionKey(d) : d \in Range(chosen)},
                  applied |-> Fixed(chosen).applied]
    /\ phase' = "fixed"
    /\ shown' = <<>>
    /\ UNCHANGED rounds

ApplyKeys ==
    /\ phase = "select"
    /\ LET found == {Ranked(dets) : dets \in Analyses(spec)} IN
       \E keys \in UNION {kSubset(k, Range(OrderedDetectionKeys(shown))) : k \in 1 .. MaxSelected} :
         \E chosen \in {Chosen(ranked, keys) : ranked \in found} : Apply("key", keys, chosen)

\* "idx:N": the place of a suggestion in the preview, looked up in the new analysis.
ApplyIndex ==
    /\ phase = "select"
    /\ LET found == {Ranked(dets) : dets \in Analyses(spec)}
           KeysAt(n, ranked) == LET keys == OrderedDetectionKeys(ranked)
                                IN {keys[i] : i \in {n} \cap DOMAIN keys}
       IN \E n \in DOMAIN OrderedDetectionKeys(shown) :
            \E chosen \in {Chosen(ranked, KeysAt(n, ranked)) : ranked \in found} :
              Apply("index", {OrderedDetectionKeys(shown)[n]}, chosen)

FixNext ==
    \/ \E l \in Links : WriteDependency(Name(l[1]), Name(l[2]), l[3])
    \/ \E l \in Links : l[3] /\ WriteCall(Name(l[1]), Name(l[2]))
    \/ Preview
    \/ ApplyKeys
    \/ ApplyIndex

FixSpec == FixInit /\ [][FixNext]_fixVars

-----------------------------------------------------------------------------
(***************************************************************************)
(* Properties.                                                             *)
(***************************************************************************)

Names == [word : Words \cup {"bff"}, tail : Seq({"split", "db", "number"} \X Nat)]

LinkSet == [from : Names, to : Names, sync : BOOLEAN]

\* A YAML: finitely many services, each of a type, and links between names.
IsSpec(s) ==
    /\ s \in [deps : Seq(LinkSet), calls : Seq(LinkSet), dbs : SUBSET Names, types : {s.types}]
    /\ s.types \in [DOMAIN s.types -> {"service", "api_gateway", "database"}]
    /\ DOMAIN s.types \subseteq Names /\ IsFiniteSet(DOMAIN s.types)
    /\ s.dbs = {Name(w) : w \in Listed}

\* The YAML, what the client was shown and what came of it keep their types.
FixTypeOK ==
    /\ IsSpec(spec)
    /\ phase \in {"edit", "select", "fixed"} /\ rounds \in 0 .. MaxRounds
    /\ phase = "select" <=> shown # <<>>
    /\ result.how \in {"none", "key", "index"}

\* What can be reached from n through nodes of `within': it is in each set of them that n is
\* in and no link leaves.
Reach(s, within, n) ==
    LET Closed(set) == \A e \in Range(Edges(s)) : e.from \in set /\ e.to \in within => e.to \in set
        closed == {set \in SUBSET within : n \in set /\ Closed(set)}
    IN {m \in within : \A set \in closed : m \in set}

\* Tarjan's algorithm (rules/cycles.go) finds the sets of two or more services that reach
\* one another, each once, in whatever order it meets services and calls.
CyclesAreComponents ==
    phase = "select" =>
        LET services == Services(spec)
            From == [n \in services |-> Reach(spec, services, n)]
            components == {{m \in services : m \in From[n] /\ n \in From[m]} : n \in services}
            cycles == {i \in DOMAIN shown : shown[i].kind = "cycles"}
        IN /\ {Range(shown[i].nodes) : i \in cycles} = {c \in components : Cardinality(c) > 1}
           /\ \A i, j \in cycles : Range(shown[i].nodes) = Range(shown[j].nodes) => i = j

\* A suggestion selected by the id the preview gave it is found again by the analysis
\* of the apply request.  Chains are the exception: of two of the same length either
\* analysis may report either.
SelectedIsFound ==
    result.how = "key" =>
        \A key \in result.asked \ result.selected : key[1] = "sync_call_chain"

AppliedKinds == {d.kind : d \in Range(result.applied)}

\* The names of BFFs; the last is for any number of them.
LastBFF == Suffixed(Name("bff"), <<"number", 999>>)

BFFNames == {Name("bff"), LastBFF} \cup {Suffixed(Name("bff"), <<"number", k>>) : k \in 1 .. 49}

\* Every service of such a name has an entry in services.
BFFsListed(s) == Nodes(s) \cap BFFNames \subseteq DOMAIN s.types

\* The fixes have only split god services and inserted BFFs.
Rerouted ==
    /\ result.applied # <<>> /\ result.before.deps # <<>>
    /\ AppliedKinds \subseteq {"god_service", "ui_orchestrator"}

\* strategies/ui_orchestrator.go:23: each former target stays within reach of the page, and
\* so does all that any service reached.
ReachAlwaysKept ==
    Rerouted =>
        \A n \in Nodes(result.before) :
            Reach(result.before, Nodes(result.before), n) \subseteq Reach(spec, Nodes(spec), n)

\* Splitting a god service and inserting a BFF, alone or after one another, cut no service
\* off from what it reached.  (A new BFF takes the name of a service that has no entry in
\* services, and then the page loses the only call it has left: ReachAlwaysKept.)
ReachKept ==
    (Rerouted /\ BFFsListed(result.before) /\ LastBFF \notin DOMAIN spec.types) => ReachAlwaysKept

\* The members of a sequence that are in a set are in another sequence too, in their order.
Kept(seq, set, other) ==
    LET at == {i \in DOMAIN seq : seq[i] \in set}
    IN \E f \in [at -> DOMAIN other] :
         \A i, j \in at : other[f[i]] = seq[i] /\ (i < j => f[i] < f[j])

\* Fixes touch only links between the nodes they are about, and those that leave a god
\* service: all others stay in the YAML, in their order.
OthersKept ==
    result.applied # <<>> =>
        LET About(d, e) == e.from \in Range(d.nodes) /\ (e.to \in Range(d.nodes) \/ d.kind = "god_service")
            Others(links) == {e \in Range(links) : \A d \in Range(result.applied) : ~About(d, e)}
        IN /\ Kept(result.before.deps, Others(result.before.deps), spec.deps)
           /\ Kept(result.before.calls, Others(result.before.calls), spec.calls)

\* The same user interface or database, whatever is around it, or the same two services.
SameProblem(d, e) ==
    /\ d.kind = e.kind
    /\ IF d.kind \in {"shared_database", "ui_orchestrator"} THEN d.nodes[1] = e.nodes[1]
       ELSE Range(d.nodes) = Range(e.nodes)

\* The suggestions' texts, of shared databases for one ("creates per-service DB nodes,
\* retargets dependencies", suggestion/strategies/shared_database.go:21): a fix applied alone
\* removes the anti-pattern it is for, in a YAML that names no dependency twice and has more
\* than one.  (Cycles and chains may need several, god services stay.)
FixAlwaysMends ==
    (Len(result.applied) = 1 /\ Len(result.before.deps) # 1
     /\ AppliedKinds \subseteq {"ping_pong_dependency", "reverse_dependency", "tight_coupling",
                                "shared_database", "ui_orchestrator"}
     /\ \A i, j \in DOMAIN Edges(result.before) :
          LET e == Edges(result.before) IN
          e[i].from = e[j].from /\ e[i].to = e[j].to => i = j) =>
        \A results \in {PingPongs(spec), ReverseDependencies(spec), SharedDatabases(spec),
                        TightCouplings(spec), UIOrchestrators(spec)} :
            \A dets \in results : \A d \in Range(dets) : ~SameProblem(d, result.applied[1])

\* So it does, if the fix of a shared database takes for the database the one that is shared.
\* (It takes the first node with a name like a database's, which may be a client that is a
\* service, and then splits that one: FixAlwaysMends.)
FixMends ==
    (\A d \in Range(result.applied) : d.kind = "shared_database" => DatabaseAt(d.nodes) = 1) =>
        FixAlwaysMends

\* suggestion/strategies/break_cycle.go:30: "Auto-fix: removes the first matching dependency
\* edge found": what the response lists as applied has changed the YAML.
AppliedIsKept == result.applied # <<>> => spec # result.before

\* suggestion/strategies/shared_database.go:21: "removes the old shared DB entry from the
\* spec when it becomes unused".
RemovedWhenUnused ==
    result.applied # <<>> =>
        \A n \in DOMAIN result.before.types \ DOMAIN spec.types :
            \A e \in Range(Edges(spec)) : e.to # n

\* suggestion/strategies/ui_orchestrator.go:20: "removes direct UI -> backend edges".
DirectEdgesRemoved ==
    \A d \in Range(result.applied) : d.kind = "ui_orchestrator" =>
        \A e \in Range(spec.deps) \cup Range(spec.calls) :
            ~(e.from = d.nodes[1] /\ e.to \in Range(Tail(d.nodes)))

\* suggestion/engine.go:107: keys "in the same order as BuildSuggestions (for index-based
\* selection)": an index selects the suggestion the preview showed in its place.
IndexMeansShown == result.how = "index" => result.selected = result.asked
=============================================================================

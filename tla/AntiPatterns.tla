----------------------------- MODULE AntiPatterns -----------------------------
(***************************************************************************)
(* The graph of an architecture YAML and the eight detectors that look for *)
(* anti-patterns in it.  The graph's nodes and its outgoing edges are Go   *)
(* maps: a detector meets them in any order, and that order decides the    *)
(* order of its detections, of their nodes, and between equal candidates.  *)
(* A detector is therefore the set of the results it can have.             *)
(***************************************************************************)
EXTENDS Integers, SequencesExt, FiniteSetsExt

CONSTANTS
    UINames,      \* names with "web", "ui", "frontend", "page", ...
    DbNames,      \* names with the word "db" or "database", which make a node a database
    LikeNames,    \* names with "database" or " db", or that end in "-db"
    GodDegree,    \* DETECT_GOD_DEGREE; 4 by default
    ChainEdges,   \* DETECT_SYNC_CHAIN_MIN_EDGES; 4
    DbClients,    \* DETECT_SHARED_DB_MIN_CLIENTS; 2
    UITargets     \* DETECT_UI_ORCH_MIN_OUT; 2

ASSUME DetectorAssumption ==
    {GodDegree, ChainEdges, DbClients, UITargets} \subseteq Nat \ {0}

\* A name: a word, and what fixes have appended to it ("_split", "-db", a number).
\* Case and the prefixes of node ids, which StripNodeNameRef removes, are left out.
Name(word) == [word |-> word, tail |-> <<>>]

IsUIName(n) == n.word \in UINames

\* The pattern of the graph, which makes a node a database.
LooksLikeDB(n) == n.word \in DbNames \/ \E i \in DOMAIN n.tail : n.tail[i][1] = "db"

\* The test of two detectors and of a fix, which is another one: "a-db-1" is a database
\* without a name like one, and "order_database" has such a name without being one.
IsDatabaseLikeName(n) == n.word \in LikeNames \/ (n.tail # <<>> /\ Last(n.tail)[1] = "db")

-----------------------------------------------------------------------------
(***************************************************************************)
(* A specification: deps, its top-level dependencies; types, its services  *)
(* and their canonical types; calls, services[].calls, each with at most   *)
(* one endpoint; dbs, its databases and datastores.                        *)
(***************************************************************************)

Link(from, to, sync) == [from |-> from, to |-> to, sync |-> sync]

\* ToGraph: the dependencies; the calls only if there is not one dependency.
Edges(s) == IF s.deps # <<>> THEN s.deps ELSE s.calls

Nodes(s) == DOMAIN s.types \cup s.dbs \cup UNION {{e.from, e.to} : e \in Range(Edges(s))}

Kind(s, n) ==
    IF n \in s.dbs \/ LooksLikeDB(n) THEN "database"
    ELSE IF n \in DOMAIN s.types THEN s.types[n] ELSE "service"

Services(s) == {n \in Nodes(s) : Kind(s, n) = "service"}

\* The members of a sequence that are in a set.
Only(seq, set) ==
    FlattenSeq([i \in DOMAIN seq |-> IF seq[i] \in set THEN <<seq[i]>> ELSE <<>>])

\* A sequence without what it has had before.
Distinct(seq) ==
    LET at == Only([i \in DOMAIN seq |-> i], {i \in DOMAIN seq : \A j \in 1 .. i - 1 : seq[j] # seq[i]})
    IN [k \in DOMAIN at |-> seq[at[k]]]

Out(s, n) == Only(Edges(s), {e \in Range(Edges(s)) : e.from = n})

\* The services n calls, once for each edge.
Called(s, n) == LET out == Out(s, n) IN Only([i \in DOMAIN out |-> out[i].to], Services(s))

Detection(kind, severity, nodes) ==
    [kind |-> kind, severity |-> severity, nodes |-> nodes]

-----------------------------------------------------------------------------
(***************************************************************************)
(* cycles: Tarjan's algorithm over the services.  The state of the search: *)
(* numbers of the services it has met (id); of each, the least number      *)
(* known to be within its reach (low) and the next of its calls (at); the  *)
(* stack; the calls of dfs in progress (path); and the detections so far.  *)
(***************************************************************************)

Put(f, n, value) == [m \in DOMAIN f \cup {n} |-> IF m = n THEN value ELSE f[m]]

NothingMet == [id |-> <<>>, low |-> <<>>, at |-> <<>>, stack |-> <<>>, path |-> <<>>, found |-> <<>>]

\* dfs(v) begins.
Enter(st, v) ==
    LET k == Cardinality(DOMAIN st.id) + 1
    IN [st EXCEPT !.id = Put(@, v, k), !.low = Put(@, v, k), !.at = Put(@, v, 1),
                  !.stack = Append(@, v), !.path = Append(@, v)]

Lower(st, v, k) == IF k < st.low[v] THEN [st EXCEPT !.low[v] = k] ELSE st

\* Mutant of Meet: an edge into a finished component counts as well.
MeetFinished(st, v, w) == Lower(st, v, st.id[w])

\* A call from v of w, which the search has met before.
Meet(st, v, w) == IF w \in Range(st.stack) THEN Lower(st, v, st.id[w]) ELSE st

\* The component of v is complete: it is on top of the stack.
Pop(st, v) ==
    LET at == CHOOSE i \in DOMAIN st.stack : st.stack[i] = v
        component == Reverse(SubSeq(st.stack, at, Len(st.stack)))
    IN [st EXCEPT !.stack = SubSeq(@, 1, at - 1),
                  !.found = IF Len(component) > 1
                            THEN Append(@, Detection("cycles", "HIGH", component))
                            ELSE @]

\* dfs(v) returns, to the dfs that called it unless it is the first.
Leave(st, v) ==
    LET left == [(IF st.low[v] = st.id[v] THEN Pop(st, v) ELSE st) EXCEPT !.path = Front(@)]
    IN IF left.path = <<>> THEN left ELSE Lower(left, Last(left.path), st.low[v])

\* The next of the calls of the service dfs is at; calls has those of each service.
Walk(calls, st) ==
    LET v == Last(st.path)
        w == calls[v][st.at[v]]
        onward == [st EXCEPT !.at[v] = @ + 1]
    IN CASE st.at[v] > Len(calls[v])                          -> Leave(st, v)
         [] st.at[v] <= Len(calls[v]) /\ w \in DOMAIN st.id    -> Meet(onward, v, w)
         [] st.at[v] <= Len(calls[v]) /\ w \notin DOMAIN st.id -> Enter(onward, w)

\* A step of the search, which takes the services in this order.
Search(calls, order, st) ==
    LET rest == Only(order, Range(order) \ DOMAIN st.id)
    IN CASE st.path # <<>>                -> Walk(calls, st)
         [] st.path = <<>> /\ rest # <<>> -> Enter(st, rest[1])
         [] OTHER                         -> st

\* Each step enters or leaves a service, or follows a call.
Steps(calls) ==
    2 * Cardinality(DOMAIN calls) + Cardinality(UNION {{v} \X DOMAIN calls[v] : v \in DOMAIN calls})

Searched(calls, order) ==
    LET after[k \in 0 .. Steps(calls)] ==
            IF k = 0 THEN NothingMet ELSE Search(calls, order, after[k - 1])
    IN after[Steps(calls)]

Cycles(s) ==
    {Searched(calls, order).found :
       calls \in {[n \in Services(s) |-> Called(s, n)]}, order \in SetToSeqs(Services(s))}

-----------------------------------------------------------------------------
(***************************************************************************)
(* The other detectors.  A set of detections comes in any order.           *)
(***************************************************************************)

GodServices(s) ==
    LET plain == {n \in Services(s) : ~IsDatabaseLikeName(n)}
        Degree(n) == Len(Only(Called(s, n), plain))
                     + Len(Only(Edges(s), {e \in Range(Edges(s)) : e.to = n /\ e.from \in plain}))
    IN SetToSeqs({Detection("god_service", "MEDIUM", <<n>>) :
                    n \in {m \in plain : Degree(m) >= GodDegree}})

\* Two services that call each other, or one that calls itself, named in either order.
PingPongs(s) ==
    LET has == {<<e.from, e.to>> : e \in {x \in Range(Edges(s)) : {x.from, x.to} \subseteq Services(s)}}
        pairs == {{p[1], p[2]} : p \in {q \in has : <<q[2], q[1]>> \in has}}
        Named(pair) == {p \in pair \X pair : {p[1], p[2]} = pair}
    IN UNION {SetToSeqs({Detection("ping_pong_dependency", "MEDIUM", name[p]) : p \in pairs}) :
                name \in {f \in [pairs -> UNION {Named(p) : p \in pairs}] :
                            \A p \in pairs : f[p] \in Named(p)}}

\* One detection for each edge from a backend service to one of the user interface.
ReverseDependencies(s) ==
    LET Backend == {n \in Services(s) : ~IsUIName(n) /\ \E m \in Range(Called(s, n)) : IsUIName(m)}
        Of(n) == LET pages == Only(Called(s, n), {m \in Services(s) : IsUIName(m)})
                 IN [i \in DOMAIN pages |-> Detection("reverse_dependency", "HIGH", <<n, pages[i]>>)]
    IN {FlattenSeq([i \in DOMAIN order |-> Of(order[i])]) : order \in SetToSeqs(Backend)}

\* Each of these begins with a node, followed by the nodes around it in any order.
Stars(kind, centres, around(_), Severity(_)) ==
    LET Of(c) == {Detection(kind, Severity(around(c)), <<c>> \o order) : order \in SetToSeqs(around(c))}
        choices == {f \in [centres -> UNION {Of(c) : c \in centres}] :
                      \A c \in centres : f[c] \in Of(c)}
    IN UNION {SetToSeqs({f[c] : c \in centres}) : f \in choices}

\* A service whose name is like a database's counts as one, and as a client of others.
SharedDatabases(s) ==
    LET Clients(d) == {e.from : e \in {x \in Range(Edges(s)) : x.to = d}} \cap (Services(s) \ {d})
        IsDBNode(d) == Kind(s, d) = "database" \/ (Kind(s, d) = "service" /\ IsDatabaseLikeName(d))
    IN Stars("shared_database",
             {d \in Nodes(s) : IsDBNode(d) /\ Cardinality(Clients(d)) >= DbClients},
             Clients, LAMBDA c : IF Cardinality(c) >= 3 THEN "HIGH" ELSE "MEDIUM")

UIOrchestrators(s) ==
    LET Targets(u) == {e.to : e \in {x \in Range(Edges(s)) :
                         x.from = u /\ x.to # u /\ Kind(s, x.to) \in {"service", "api_gateway"}}}
    IN Stars("ui_orchestrator",
             {u \in Services(s) : IsUIName(u) /\ Cardinality(Targets(u)) >= UITargets},
             Targets, LAMBDA c : "MEDIUM")

\* The paths of synchronous calls that meet no service twice.
SyncPaths(s) ==
    {p \in UNION {SetToSeqs(met) : met \in SUBSET Services(s) \ {{}}} :
       \A i \in 1 .. Len(p) - 1 : Link(p[i], p[i + 1], TRUE) \in Range(Edges(s))}

\* dfs tries the calls of a service in their order: it meets path p before path q.
MetBefore(s, p, q) ==
    LET Place(n, m) == SelectInSeq(Edges(s), LAMBDA e : e = Link(n, m, TRUE))
    IN \E i \in 2 .. Len(p) : /\ \A j \in 1 .. i - 1 : p[j] = q[j]
                              /\ Place(p[i - 1], p[i]) < Place(q[i - 1], q[i])

\* Of the longest ones, the first that is met from the service that comes first.
SyncChains(s) ==
    LET paths == SyncPaths(s)
        longest == {p \in paths : \A q \in paths : Len(q) <= Len(p)}
        first == {p \in longest : \A q \in longest : q[1] = p[1] => p = q \/ MetBefore(s, p, q)}
        chains == {p \in first : Len(p) - 1 >= ChainEdges}
    IN IF chains = {} THEN {<<>>}
       ELSE {<<Detection("sync_call_chain", "MEDIUM", p)>> : p \in chains}

\* 70 % of the synchronous calls of each go to the other.  A pair is found from the service
\* that comes first.
TightCouplings(s) ==
    LET services == Services(s)
        Sync(a) == Only(Out(s, a), {e \in Range(Out(s, a)) : e.sync})
        Count(a, b) == Len(Only(Sync(a), {e \in Range(Sync(a)) : e.to = b}))
        close == {p \in services \X services :
                    Count(p[1], p[2]) >= 1 /\ 10 * Count(p[1], p[2]) >= 7 * Len(Sync(p[1]))}
        Partners(a) ==
            LET out == Sync(a)
            IN Distinct(Only([i \in DOMAIN out |-> out[i].to],
                             {b \in services : {<<a, b>>, <<b, a>>} \subseteq close}))
        Found(a, partners) ==
            [i \in DOMAIN partners |-> Detection("tight_coupling", "HIGH", <<a, partners[i]>>)]
    IN {FlattenSeq([i \in DOMAIN order |->
          Found(order[i], Only(partners[order[i]], services \ {order[j] : j \in 1 .. i - 1}))]) :
            partners \in {[a \in services |-> Partners(a)]}, order \in SetToSeqs(services)}
=============================================================================

# A verification project for go-sim-backend

TLA+ models of the stateful core of the backend, the TLC configurations that
check them on small instances, and proofs about most of them. File names
below are relative to `src/internal/` unless they start with `src/`;
`rts/` abbreviates `realtime_system_simulation/`.

## 1. The system

The server is one Go process (gin) in front of Postgres, Redis, S3, an external
simulation engine ("simulation-core", HTTP) and an LLM service. A user draws a
software architecture on a canvas or uploads it as AMG/APD YAML. The server
detects anti-patterns in it, keeps the diagram in numbered versions, chats about
it, generates a simulation scenario from it, has the engine run it, and turns the
results into suggestions and costs.

Every request is served by its own goroutine. Some leave a goroutine behind: the
persistence of a run's results, the metrics proxy of a running run. Almost
nothing in the process is shared in memory; the goroutines meet in the databases,
and mostly *outside transactions*. Each database, Redis, S3 or engine call is
therefore atomic on its own, and any two requests interleave between any two
calls. That is the granularity of every model here.

### Inventory

| Component | State it keeps | Operations | Hard part |
|---|---|---|---|
| **Simulation runs** `rts/http/handlers.go`, `rts/service`, `rts/repository/run_repo.go`, `rts/http/handlers_callback.go` | row in `simulation_runs`, its copy in Redis (7 days), Redis index engine id → run | create (two forms), PUT, two callback forms, DELETE, lists | read-modify-write of the whole row without lock; two stores; engine calls whose answer is lost; late, repeated callbacks; crash between two writes |
| **Results of a run** `rts/http/handlers_callback.go`, `rts/repository/{metrics,candidate}_repo.go` | `simulation_summaries`, `simulation_candidates`, time series, S3 objects | the goroutine a terminal callback starts; the create handler's summary | best effort: each stage may fail alone; two goroutines of one run; DELETE and restart under way |
| **Scenario cache** `rts/http/handlers_scenario.go`, `rts/repository/scenario_cache_repo.go` | one row and one S3 object per diagram version | GET, PUT, regenerate; runs that resolve or save a scenario | check then act; a derived value whose two sources change under it; object and row written apart |
| **Diagram versions** `projects/diagrams`, `storage/amg_apd_version/repo.go`, `api/http/amg_apd` | `diagram_versions`, `projects.current_diagram_version_id` | canvas save, save in place, analyse, analyse in place, reload latest, delete | two parts of the server number versions, one under a lock, one without; three-statement merge of a canvas |
| **Event stream** `rts/http/{client,metrics_proxy,handlers_stream}.go` | channel of 10 events, Redis pub/sub with a channel of 1000 messages per subscription, status of the run | metrics proxy, reader of the engine's stream, SSE clients, updates published by the run repository | backpressure, goroutines that must end, a snapshot that races a subscription |
| **Engine client** `rts/http/client.go` | none | create, start, stop, export, streams | refused or lost answers |
| **Batch guard, optimization config** `rts/http/batch_optimization_guard.go`, `optimization_config.go` | none | pure function of a request | limits, defaults, actions |
| **Scenario generation** `rts/amg_apd_scenario` | none | YAML → scenario | pure conversion |
| **Projects, chat** `projects/http/{handlers,chat_handler}.go`, `projects/repository/repo.go`, `projects/chat` | projects (soft-deleted), threads that follow the current version or are pinned, messages | create, soft delete with its cascade, bind, post a message through the LLM service | a turn stored around a slow external call; a binding checked in one statement and written in another; a cascade whose error is dropped |
| **Anti-pattern detection** `architecture_modelling_antipattern_detection/{detection,graph}` | none | eight detectors over a graph | a graph of Go maps: nodes and edges are met in any order, which decides what is found first |
| **Ingest, mapping, suggestions** `architecture_modelling_antipattern_detection/{ingest,mapper,spec,suggestion,service}`, `api/http/amg_apd` | none; the YAML goes to and fro | YAML → graph, preview, apply of selected fixes | two requests that each analyse anew; a fix works on what the earlier ones left; the merge of the fixed YAML into the original |
| **Analysis suggestions** `analysis_suggestions/{rules,costcal,http,repository}` | request log, cached answers in Redis (10 minutes) | post a design, judge the candidates of a run, three cost end points | several queries per request; a row rewritten while costs of it are computed; ties and limits in the choice of instances and plans |
| **Price import** `analysis_suggestions/{fetchers,importer,cron}` | a CSV file and a price table per provider | fetch, import, nightly job | jobs that share the files; writers behind a channel whose errors are looked for between pages; batches with one key twice |
| **Auth, users** `auth` | users | token check, upsert per sign-in | none of several steps |
| **Design input processing** `design_input_processing` | read-only snippets; a legacy job store the server does not wire | search | none in the running server |
| **Drivers, configuration, start** `storage/{postgres,redis,s3}`, `src/cmd`, `src/config` | connections | wrappers | their calls appear as fallible steps |

How the modelled parts meet: the run handlers write the run row, and their
callback starts the results goroutine, which needs that row for its foreign
keys; a PUT of `running` starts the metrics proxy, which reads the run's status;
creating a run for a diagram version reads and may save its scenario; analysing a
diagram version changes the YAML that the scenario cache keys on; a chat thread
that follows the project uses the version the last save made current, and the
messages it stores keep that version from being deleted. A diagram version holds
the YAML that the detectors look at and the fixes rewrite. A batch run's
candidates are what the suggestions judge; the candidate they put first is what
the costs are computed for, from the tables the price jobs fill.

What makes each correct is stated as the properties below; `PROJECT.json` lists
the hazards line by line, with the property that watches each or the reason why
none does.

## 2. The modules

| Module | Models | EXTENDS / INSTANCE |
|---|---|---|
| `RunRow` | the record of a run, the rows the code builds from nothing | |
| `RunTable` | abstract specification: what the durable table of runs promises | `RunRow` |
| `RunStore` | the run life cycle, call by call | `RunRow`, `Naturals`, `INSTANCE RunTable` |
| `RunStoreProofs` | theorems about `RunStore` | `RunStore`, `TLAPS` |
| `RunResults` | results goroutines of one run | `Naturals` |
| `RunResultsProofs`, `ScenarioCacheProofs`, `RunStreamProofs`, `ChatProofs` | theorems about the module they name | that module, `TLAPS`, `FiniteSetTheorems`, `WellFoundedInduction` |
| `ScenarioCache` | scenario of one diagram version | `Naturals` |
| `DiagramVersions` | versions of one project | `Integers`, `FiniteSets` |
| `EventFeed` | abstract specification: what a client is promised of a run's events | `Naturals`, `Sequences` |
| `RunStream` | events of one run to one client | `Integers`, `Sequences`, `INSTANCE EventFeed` |
| `Chat` | threads of one project, its versions and its deletion | `Naturals`, `SequencesExt`, `FiniteSetsExt` |
| `AntiPatterns` | the graph of an architecture YAML and the eight detectors | `Integers`, `SequencesExt`, `FiniteSetsExt` |
| `AutoFix` | preview and apply of suggestions, the eight fixes | `AntiPatterns` |
| `AmgApdProofs` | theorems about `DiagramVersions`, `AntiPatterns` and `AutoFix` | these, `TLAPS`, `FiniteSetTheorems`, `SequenceTheorems`, `WellFoundedInduction` |
| `Costs` | match of a size with price rows, purchase options, plans, the recommendation | `Integers`, `SequencesExt`, `FiniteSetsExt` |
| `Rules` | how candidates are judged and ordered | `Integers`, `Sequences`, `FiniteSetsExt` |
| `Requests` | the request log, suggestions and costs of one project | `Costs`, `Rules` |
| `RequestsProofs` | theorems about `Requests`, `Costs` and `Rules` | `Requests`, `TLAPS`, `FiniteSetTheorems`, `WellFoundedInduction`, `SequenceTheorems` |
| `PriceJobs` | price files and tables: fetchers, workers, importer, jobs | `Naturals`, `SequencesExt`, `FiniteSetsExt` |
| `PriceJobsProofs` | theorems about `PriceJobs` | `PriceJobs`, `TLAPS`, `SequenceTheorems`, `WellFoundedInduction` |
| `MC*` | constants and symmetry for TLC | the module they name |

Most models have a variable `job` with one record per process (a goroutine serving
a request): its program counter and the local variables of the handler the rest
of it still reads. (`Requests` has one variable for each kind of request, `PriceJobs`
one for each part of a job; a request of `AutoFix` shares nothing and is one step.) An action is the code from one external call to the next.
Some operators are preceded by a variant marked "Mutant of ..."; those are not
part of the specification. They are plausible mistakes, each of which makes TLC
report the property it is paired with in `PROJECT.json`.

### RunStore

* `pg`, `cache`, `eidx` are the table, the Redis copy and the Redis index;
  `engRun` is the engine's own memory of the run it computes (external).
  `issued` and `deleted` record which ids a client has been given, and for which a
  DELETE has answered 200.
* `CreateInsert`, `CreateCache`, `EngineAccepts`, `EngineRefuses` are CreateRun
  and CreateRunForProject. `EngineRefuses` includes the engine accepting a run
  whose answer does not arrive.
* `PutBegin` is the part of the PUT handler before the service is called, with
  its 409; `CallbackBegin` finds the run by URL or through the engine id, and
  copies the metadata it read into its request, as the code does.
* `SvcRead`, `RepoRead`, `Upsert`, `CacheWrite` are `SimulationService.UpdateRun`
  and `RunRepository.Update`, which everyone shares. `Merged` is the `ON CONFLICT`
  clause with its COALESCEs, `EngineTaken` the unique index.
* `Advance` / `StartStage` is the order in which the results goroutine touches
  the *run row* (the foreign-key stub and two more UpdateRuns); what it stores
  elsewhere is `RunResults`.
* `DeleteBegin`, `DeleteCache`, `DeleteRow` are DELETE. `Crash`, `CacheExpire`,
  `IndexExpire` the environment. `EndEarly` is every way out of a handler: a failed
  call, a 4xx after the first read, a timeout.

Metadata is abstracted to the *families* of keys, one per writer; keys are
merged by union in the code, so two keys of one family behave alike.

### RunTable

States the promise of `src/migrations/0016` ("run identity, ownership, status,
and engine mapping must survive Redis or process restarts") as three actions on
one variable: a row is inserted, overwritten or removed; a written row is whole
and coherent, no two rows share an engine run, and overwriting never loses owner
or engine mapping. `RunStore` implements it with `table <- pg`.

### RunResults

One run. `Callback` starts a goroutine; `GetRun`, `Export`, `Series`,
`StoreSummary`, `EnsureRow`, `Each`, `BestRow`, `BatchCandidates` and
`OwnCandidates` are `persistRunMetrics` call by call, `Upload` and `UploadRow`
`uploadBestScenarioToS3`. `outcome` is what the engine found, chosen in `Init`: an
ordinary run, or an optimization batch with a best candidate and/or a list of top
ones. A YAML is known by whose export it is; an export may come without one (`MayMiss`).
`CreateStores` is the create handler writing its summary late, `Delete` the cascade.

A candidate's row names its own object ("own") only after the upload. Two rows do not:
that of the best candidate of a batch names `best_scenario.yaml` whatever becomes of its
upload (`rts/http/handlers_callback.go:956-962`), and the fallback row of an ordinary run
without candidates names it before the upload is begun (1069-1087). `GetRunCandidates`
hands both out (`rts/http/handlers.go:1338-1346`), so that a client may be given a path that
leads nowhere; `Each` and `OwnCandidates` have it so ("best"), and no property denies it.

### ScenarioCache

One diagram version. `diagram` and `host` change at any time (a save in place,
another analysis). A hash is what it is a hash of, and the scenario generated from
a source *is* that source, so that a stale answer is visible. `Begin` .. `Insert` follow
the handlers; PUT and a run with `save_scenario` are the same steps.

### DiagramVersions

One project. A version keeps its number, source, YAML and, of its canvas, the
YAMLs whose services it shows, which is what merging can mix up.
`CreateBegin`/`CreateCommit` is a transaction that holds the project row, so its
effect is one step and only the number is read before. `SaveBegin` ..
`SavePoint` is the analysis repository's `Save`, statement by statement.
`UpdateVersionAnalysis`, `GetLatestForProject`, `LatestAny`, `ReadCanvas`,
`WriteAnalysis`, `Reread` are the analyses in place. `DeleteVersion` is one statement.

### EventFeed

States what a client of `GET .../stream` may count on, without goroutines, channels or
Redis: an event it gets has been emitted, is of a type that is forwarded, comes after
those it got before, and leaves out only events of other types (`Unknown`) and events
that were lost. What was lost does not come later. `RunStream` implements it, `Deliver` being
its `Get`, a PUBLISH that fails and an `Overflow` its `Lose`, and all else but `Emit` a stutter.

### RunStream

One run, one proxy, one client. `Connect`, `ReadEvent`, `SendEvent` are the
goroutine of `StreamMetrics`; `Forward`, `StreamEnded`, `Tick` the three cases of the
proxy's `select`; `Snapshot`, `Subscribe`, `Deliver`, `Disconnect` the SSE handler;
`Write`, `PublishUpdate` the two halves of an update; `Emit`, `Close` the engine.
An event is its number in the engine's stream. Those in `Unknown` are of a type the
proxy's switch does not name: `Forward` takes them from the channel and publishes nothing.
`inbox` is the channel of the subscription with what waits behind it for room; `Overflow` is
the Redis client (external), which waits a minute at a full channel of `InboxSize` messages
and then drops the message.

### Chat

One project. `versions`, `analyses`, `saving` and `current` are `DiagramVersions`
with all but the identity of a version left out: `CreateVersion` is one transaction,
`Save` and `SavePoint` the two statements that matter here, `DeleteVersion` the delete
of one analysis. `CreateThread`, `InsertThread`, `Bind`, `Pick`, `WriteBinding` are the
thread operations statement by statement, `PostMessage` .. `InsertTurn` a
message: project, thread, version, history, the LLM service, the project again, and the
transaction that stores question and answer. `Rebind` is the call of
UpdateThreadBinding with which a message pins the version its client named.
`SoftDelete` and `DeleteByProject` are the DELETE of the project. The foreign keys are
`Referenced` (what cannot be deleted) and `Accepted` (what cannot be written).
`Listings` are the orders in which the database may return messages: question and
answer of a turn have the same `created_at`.

### AntiPatterns and AutoFix

A specification is what the fixes read and write of a YAML: dependencies, services
with their types, legacy calls, databases. `Edges`, `Nodes`, `Kind` are `ToGraph`.
Each detector (`Cycles` .. `UIOrchestrators`) is the *set* of results it can have,
one for each order in which Go may iterate over the maps; `Cycles` is the code's
Tarjan search and not a definition of components, which is what it is compared with.
The recursion of `dfs` is a loop over its call stack: `Search` takes one step of it, which
is to `Enter` a service, to follow one of its calls to a service met before (`Meet`) or
not, or to `Leave` it, with its component if that is complete (`Pop`); `Steps` is how many
there are. `Analyses` is `RunAll`, which takes the detectors by name.

`WriteDependency`, `WriteCall` are a client that edits, `Preview` the first request:
it shows the detections of one analysis. `ApplyKeys` and `ApplyIndex` are the second:
it analyses anew, looks up what was selected by key or by place (`Chosen`), and
applies the fixes one after another, each to what the last one left (`Fixed`). The
fixes are `BreakCycle` .. `InsertBFF` on the edits of `strategies/common.go`
(`RemoveDependencyOnce`, `Flip`, ...); `Merge` puts the result back into the original.
A name is a word and what fixes have appended to it.

The code has three tests for "is a database", and so has the model: the graph's pattern
(`LooksLikeDB`, with the words in `DbNames`), which makes a node a database; the test of the
detectors and fixes (`IsDatabaseLikeName`, with `LikeNames`), which also takes a *service*
called `order_database` for one; and the type of an entry. They differ, also on names
that fixes make: `a-db-1` is a database without a name like one. The fix of a shared
database does not use what the detection knows: it takes the first of the detection's nodes with a name
like a database's (`DatabaseAt`), or else the first, and puts it in front (`DatabaseFirst`).

### Costs, Rules and Requests

`Costs` follows a candidate from its size to a recommendation: `SpecCombinations` are
the sizes to try, `Matches` the two queries, `Chosen` `processExactMatches` with its
choice of instance type, `PurchaseOptions` the price per option, `PlansOf` the plans
of a match, `ControlPlanePrice` the one of the prices of a provider's control plane that the
query picks, of which 0 is a price like any other and only no row at all an error, `ProviderPlans` and `ClusterPlans` the two ways to ask, `RegionJobs`,
`JobPlans` and `Recommendations` the global recommendation. Where the code depends on
the order of a map or of rows of one price, the operator returns the set of outcomes.
`Rules` is the judgement of a candidate (`Passed`, `Meets`) and the order of
candidates (`Rank`, `Best`).

In `Requests`, `rows` is `request_responses` of one project in the order of
`created_at`, `cache` the answers in Redis. `CreateDesign` is POST /design. `Suggest` ..
`WriteRow` are POST /suggest, query by query: is there a design (`Suggest`,
`EnsureDesign`), which one counts (`LoadDesign`), has the run a row (`FindRow`), whose
request is taken over (`FindDesign`, `FindAny`, `ReadRow`), and the write. `Merged` is
what of a stored request stays, `Replaced` that a rewritten row becomes the newest.
`AskCosts`, `ComputeCosts`, `Persist`, `Keep` are the three cost end points. An answer
remembers what it was computed from, so that a stale one is visible.

### PriceJobs

`StartFetch` and `StartImport` begin a nightly job, a fetch or an import started by
hand; `EndFetch` is where the nightly job goes on to import, or not. `CreateFile`,
`AzurePage`, `AzureRecord` are the fetcher that writes its own records, `AwsPage`,
`AwsSend`, `AwsClose`, `WorkerReceive`, `WorkerWrite` the one with workers behind a
channel. `Write` and `Flush` are a buffered writer that keeps its place in a file, so
that a file truncated by another job gets a hole, and a record may be cut off where
the buffer was full. `ReadHeader`, `ReadLine`, `Commit` are the importer: `Priced`
leaves out the rows with a price of zero, a batch is the places its rows have among the
others (`BatchesOf`), `Deduplicated` is what `flushBatch` keeps of a batch, `Flushed`
what the batch stores, `Upserted` the table after all batches, and `Accepted` the rule of Postgres
that one INSERT must not meet a key twice. A record is its number in the
provider's list and the fetch it came from.

## 3. What the runs check

Runs that must pass:

| Run | Properties | Bounds | What it shows |
|---|---|---|---|
| `store` | `TypeOK` `Coherence` `LiveRunNeedsEngine` `DurableUntilDeleted` `RunTableSpec` | 2 runs, 2 engine runs (one of which a client may PUT as the id of a run), 2 concurrent requests, 3 in all | a terminal status always comes with its completion time, in row, Redis and every copy about to be written; what the 409 check established still holds at the write; nothing is handed out, or findable through Redis, without a durable row until it is deleted; the table implements `RunTable` |
| `results_faults` | `TypeOK` `OwnPathsResolve` `SummaryPathAfterUpload` | 2 candidates, 2 goroutines, 2 callbacks, exports with and without a scenario, every call may fail, restarts, DELETE; 2 461 918 states | a row names `candidates/{id}.yaml` only after that object was uploaded, and `best_scenario.yaml` only as the best candidate's or the fallback row; the path in an ordinary run's *summary* is stored after the upload. Nothing is shown of the object behind the best candidate's and the fallback row |
| `results_arrive` | `ResultsArrive` | the same without failures; 278 197 states | a terminal callback's results are stored, also for a batch the callback does not name |
| `scenario_race` | `TypeOK` `GeneratedIsHonest` `ServedFresh` | 2 concurrent requests of 3, 2 diagrams, 1 host sizing or none | `source_hash` never lies about a generated scenario; nobody is served a generated scenario of another source than it read |
| `versions_race` | `TypeOK` `NumbersContiguous` `NewestIsHighest` | 2 concurrent requests, 3 versions, 1 delete, failed calls | numbers are unique, and gap-free until something is deleted, although one of the two writers takes no lock; until then the version stored last is the one a query for the latest finds |
| `stream` | `TypeOK` `NoGaps` `ProxyStops` `ReaderStops` `FeedSpec` | channel of 2, subscription of 1, 3 events, the second of an unknown type, and "complete", 2 updates, failed calls | events come in order and once, and one is missed on three grounds only: its type is unknown, its PUBLISH failed, or the client was so slow that its subscription ran full; what is lost does not come later (`EventFeed`); proxy and reader end with the run |
| `chat` | `TypeOK` `OverrideStays` `HistoryWhole` | 2 concurrent requests, 1 thread, 2 versions, 2 turns, a history of 2 messages, failed calls | pinning the version a client named, whose error is dropped, never fails because that version was deleted; the history is cut off between turns, never within one |
| `fixes` | `FixTypeOK` `CyclesAreComponents` `SelectedIsFound` `ReachKept` `OthersKept` `FixMends` | 5 names (a user interface, two services, one of them with a name like a database's, a database, and "bff", which has no entry among the services), 3 dependencies or 2 calls, 2 suggestions selected, 1 preview; 47 181 states | the search for cycles finds the strongly connected components, in every order of the maps; a suggestion selected by its key is found again by another analysis, but for chains; a split or an inserted BFF cuts nobody off from what it reached, if the BFF takes no name in use; fixes leave other links alone and mend what they are for, that of a shared database provided that it takes the shared one for the database |
| `prices` | `TypeOK` `NightlyLoadsWhole` `LastOfKey` | 2 jobs, 2 workers behind a channel of 1, 2 pages of 2 records of which 3 are wanted, batches of 2, 1 fetch, no price of zero, failing calls and writes, restarts; 527 444 states | the nightly job commits all of its own fetch or nothing: no failed page, write or worker is missed and no record is cut off or left in a buffer; after any import, of rows with one key the last in the file is in the table, whether they fall into one batch (Azure, AWS) or two (AWS) |
| `requests` | `TypeOK` `BestMeetsTarget` `PlansCoverSpec` `PlansAreSold` `BudgetHonoured` `NodesOnceStored` | two suggestions and a request for costs beside each other and beside designs posted, each request once, 2 rows, 2 price tables, control planes priced as the seed has them or not at all, failed queries and jobs; 1 636 053 states | the candidate put first meets the target if one does; plans are large enough and on sale where they say; the recommendation is the cheapest within the budget, whichever jobs failed; the nodes and the design of a row with nodes stay, unless a suggestion read that row without them (or with others) and writes after |

Runs in which TLC finds a property violated, each of which is a statement of the
repository that the code does not keep:

| Run | Property | Statement | What happens |
|---|---|---|---|
| `scenario_object` | `ObjectMatchesRow` | "scenario cache conflict; set overwrite=true to replace" (`rts/http/handlers_scenario.go:318`) | the object has been overwritten before the conflict is found; no concurrency needed |
| `prices_returns` | `FetchReturns` | `RunAll` "returns after all finish" (`analysis_suggestions/fetchers/fetcher_manager.go:13`) | a write fails, every worker ends at its next record, and the fetcher, which looks for errors between pages only, waits for ever for room in the channel; under `FairSpec` |

Further configurations, to be run by hand with `tlc -config X.cfg M`; where one is named
"with" a property, that takes the place of the one it checks. They show
behaviour the code has and a reader may not expect; the first group contradicts
a statement of the repository:

* `MCRunStore_metadata.cfg` (`MetadataPreserved`, violated): "Preserve existing metadata
  and merge callback data" (`rts/http/handlers_callback.go:166`), but a copy read before
  another request's write is written back whole and drops the keys stored in between.
* `MCRunResults_best.cfg` (`BestScenarioIsBest`, violated): "the best candidate's S3
  path is stored as `best_scenario.yaml`" (`src/README.md:54`), but a batch whose callback
  carries no ids learns them from the engine, stores the best one, and then has the
  object overwritten by the parent's scenario.
* `MCDiagramVersions_follow.cfg` with `PROPERTY NotSpliced` (violated): merging another YAML "would
  splice the new model onto the old canvas and corrupt the historic version"
  (`api/http/amg_apd/handlers_upload.go:216`), and an edit between the decision and the
  merge does just that.
* `MCChat_delete.cfg` (`ProjectEmptied`, violated): "DeleteByProject deletes all AMG-APD
  versions for the given user and project (e.g. when project is deleted)"
  (`storage/amg_apd_version/repo.go:360`), but one analysis that a thread is pinned to, or a
  message used, makes the one DELETE fail as a whole; the error is dropped and the
  DELETE of the project answers 200.
* `MCRequests_stale.cfg` (`RecommendationOfRow`, violated): the column is a "Snapshot from
  POST /cost/:id/recommend" of its row (`src/migrations/0012`), which a suggestion that
  replaces the row resets; a recommendation computed before is stored after. The same
  configuration with `CacheOfRow`: the cache is not reset at all; with
  `RecommendsCheapest` ("cheapest cluster plan", `costcal/global_recommend.go:15`): the type
  with the most price rows is taken, not the cheapest; with `Questions <- MCBothCosts` and
  `ServedOwn`: two of the end points share a cache key.
* `MCRequests_twice.cfg` (`OneRowPerRun`, violated): two suggestions for one run each find
  no row and insert one. With `PROPERTY NodesAlwaysKept` instead: "preserves
  request.simulation.nodes (user-entered sizing) once stored (> 0)"
  (`analysis_suggestions/rules/engine.go:243`), but a suggestion that has read the row of its run
  before another stored nodes there writes its own copy over them.
* `MCRequests_regions.cfg` (`CostsAreSold`, violated): a plan of the costs of all providers
  has the region of the cheapest row and the options of all regions.
* `MCPriceJobs_header.cfg` (`ImportKeepsServer`, violated): beside two fetches an import may
  find a file that does not begin with the header, and the importer then ends the
  server. With `OneFetch` or `NeverBack`: it may load a mixture of two fetches, or put a
  price back to that of an earlier one.
* `MCAutoFix_fixes.cfg` with one of these in place of its invariants, all violated:
  `AppliedIsKept` (removing the last dependency is listed as applied and undone by the
  merge), `ReachAlwaysKept` ("removes direct UI → backend edges, and adds BFF → each former
  target", `suggestion/strategies/ui_orchestrator.go:20`: a free name is looked for among the
  entries of `services` only, so that a backend "bff" which only a dependency names becomes the new
  BFF; the fix cuts the page off from it, and gives it a call to itself), `IndexMeansShown` (a place in the list names another suggestion in the second
  analysis), `DirectEdgesRemoved` (of an edge written twice one stays), `FixAlwaysMends` ("creates
  per-service DB nodes, retargets dependencies, and removes the old shared DB entry",
  `suggestion/strategies/shared_database.go:21`: with a database called by `b`, a service with a name
  like a database's, and by another service which calls `b` too, the fix splits `b`, and the database
  stays shared), and, with
  `Words = {ui, a, b, db, gate}`, `RemovedWhenUnused` (a database that a gateway uses is
  removed).

* `MCScenarioCache_edited.cfg` (`EditedKept`, violated): "an edited scenario exists; pass
  overwrite=true to replace it" (`rts/http/handlers_scenario.go:442`), but of two
  requests that see no row the second replaces the edited scenario of the first.
* `MCRunStream_unknown.cfg` (`AllForwarded`, violated): "Forward unknown events as-is"
  (`rts/http/metrics_proxy.go:219`), but the case only logs the event: a client misses it
  although nothing failed.
* `MCRunStream_stopped.cfg` (`ProxyStopsAtStopped`, violated): "Stop proxy if run is in
  terminal state" (`rts/http/metrics_proxy.go:53`) leaves out `stopped`, which
  `rts/service/simulation_service.go:124` lists among the terminal states; the proxy of
  a stopped run stays while the engine keeps its stream open.
* `MCChat_history.cfg` (`HistoryChronological`, violated): "Reverse to chronological
  order" (`projects/chat/service/chat_service.go:168`); question and answer are inserted
  in one transaction, so their `created_at` is the same and either may come first.
* `MCRunStore_metadata.cfg` with `TerminalIsFinal` (violated): a late `running` callback
  takes a run out of `completed`, and a stale copy does too.
* `MCRunStore_metadata.cfg` with `INVARIANT DeletedIsGone` (violated): a request in flight
  re-inserts the row of a run whose DELETE answered 200.
* `MCRunResults_best.cfg` with `PROPERTY ScenarioKept` (violated): an export without a
  scenario replaces the scenario the create handler stored by the empty string.
* `MCScenarioCache_object.cfg` with `PutSettlesConflict` (violated): a PUT of the scenario
  that is already there returns early and leaves the old `source_hash`, so the
  conflict a GET reports stays.
* `MCDiagramVersions_follow.cfg` (`FollowLatest`, violated): an analysis overtaken by
  a canvas save points the project back at the older version.
* `MCDiagramVersions_follow.cfg` with `ReadingAddsNothing` (violated): reloading the
  latest analysis adds a version when its row cannot be read back, for instance
  because its YAML was set to NULL in between.
* `MCRunStream_client.cfg` (`ClientLearns`, violated): an update between snapshot and
  subscription never reaches the client.
* `MCScenarioCache_object.cfg` with `PROPERTY EditedKept` (holds): with one request at a time edited
  scenarios are safe, so the violation above is a race.

### Why the bounds are enough to be interesting

The races of this code are between *two* goroutines: one reads, the other writes,
the first writes back. Two processes show each of them. Three requests (`store`)
let a run be created, brought to a terminal state, and hit by a third request, or
created and have two racing successors. Two runs and two engine runs are the
least with which the unique index on `engine_run_id` can refuse a row and the
Redis index can point to the wrong run. Two candidates are the least with which a
best one and another one differ. Two diagrams let a hash go stale; a host sizing
or none covers the two ways a source is hashed. Three version ids let two writers
race for the number after an existing version. A channel of two, three events and
"complete" fill the channel, hold up the reader and leave it blocked when the
proxy stops; with the code's 10 nothing new happens, since only "full", "empty"
and "neither" are told apart. A subscription of one runs full with the second message as
the code's 1000 do with the 1001st; a client that gets one event before and one after a
loss is the least that shows a gap. A history of two messages is cut off by the second
turn, as one of 20 is by the eleventh; one that is even is what `HistoryWhole` needs.
One thread is enough because a request works on one and the versions are what
threads share. The statuses of each configuration hold one per
class the code distinguishes. Four names with three links between them, and "bff", which
only links name, have every shape a detector tells apart from its neighbours (a cycle, a pair, a star, a chain of two edges), when its
threshold is lowered to match: 3 edges for a god service, 2 for a chain, 2 clients, 2
targets; two selections are the least for a fix that works on what another left. Two
pages of two records with a limit of three end a page in the middle; a channel of
one fills up; batches of two keep Azure's two records with one key together, and
split AWS's or not, as the workers write them. One fetch is all `prices` has: what two
fetches do to the files of each other is in `MCPriceJobs_header.cfg` and is not covered by a
passing run. Two rows are a design and a run, or two runs; two
suggesters for one run are what can overtake each other, at once or one after the other; two
price tables hold one case for each choice in `Costs`, with a control plane that costs nothing
(the tier of AKS that `src/migrations/0007` seeds and the query picks), one or six, and none
for GCP. No candidate of the run is so large that its spec counts as a total of all nodes:
that a total is divided is checked by the theorem `PlansLargeEnough` only in that a plan is
no smaller than the spec *after* the division. Symmetry (interchangeable processes, ids, YAMLs) is
used for safety properties only; `CHOOSE` is only applied where one element
qualifies.

Deadlock is not checked: a model stops when its bounded supply of requests is used
up and everyone is idle. That nobody waits for ever is what `ResultsArrive`,
`ProxyStops` and `ReaderStops` say.

Bounds that are in the modules and not in the code: `MaxRequests` (`RunStore`,
`ScenarioCache`), `MaxCallbacks`, `MaxDeletes`, the set `Ids` (versions ever made),
`MaxEvents`, one write per updater, `MaxVersions` and `MaxTurns` (`Chat`), `MaxDeps`,
`MaxCalls`, `MaxSelected` and `MaxRounds` (`AutoFix`), `MaxFetches` (`PriceJobs`), `MaxRows`,
and one request per suggester and coster (`Requests`). `Faults` switches failing calls and
restarts on.

### Fairness

* `RunResults!FairSpec`: weak fairness of each goroutine's next step. The goroutine
  waits for nobody, and each of its calls ends, at the latest with its
  `persistenceTimeout` context. No fairness for the engine's callbacks,
  the create handler, DELETE or restarts.
* `RunStream!FairSpec`: weak fairness of the reader's read and send, of each case of
  the proxy's `select`, of the SSE handler and of an updater that has written and
  has yet to publish. A Go `select` chooses among ready cases uniformly, and the
  ticker is ready again and again, so each case that stays ready is taken;
  a status read that fails is repeated at the next tick. Nothing is assumed of the
  engine: it may go silent and leave the connection open. Nothing is assumed of
  the updates either; `ProxyStops` is conditional on a run that *stays* terminal.

* `PriceJobs!FairSpec`: weak fairness of each fetcher, each worker, the end of a fetch and
  the importer. They are goroutines that can go on, and it is assumed that downloads and
  writes end, in success or failure, so that the hang in `prices_returns` is not one of the
  network: it is a send to a full channel, a step that cannot be taken.

## 4. What is proved

The theorems hold for every value of the constants that the named assumptions of the
modules allow: any number, finite or not, of runs, requests, candidates, diagrams, YAMLs,
threads; any channel, number of events and turns; any YAML of any finite set of words;
any designs, candidates, rules and finite price tables; any jobs, workers, room in their channel, pages, records, keys,
prices of zero and size of batch. (`DiagramVersions` assumes that `Ids`, the versions
ever made, are finite; `AutoFix` that the words of a YAML are, of which there are
as many names as fixes may make; `Chat` that there is a thread; `PriceJobs` that a fetcher has a
worker and a batch room for a row.) The assumptions say
otherwise only that the "none" values are not among the real ones, that bounds are
natural numbers, and what the sets of statuses and YAMLs are drawn from.

| Module | Theorem | Statement |
|---|---|---|
| `RunStoreProofs` | `TypeCorrect` | `Spec => []TypeOK` |
| | `CoherenceHolds` | `Spec => []Coherence` |
| | `GuardLasts` | `Spec => []LiveRunNeedsEngine` |
| | `DurableHolds` | `Spec => []DurableUntilDeleted` |
| | `Refinement` | `Spec => RunTableSpec` |
| `RunResultsProofs` | `ResultsTypeCorrect` | `Spec => []TypeOK` |
| | `OwnPaths` | `Spec => []OwnPathsResolve` |
| | `UploadBeforeSummaryPath` | `Spec => []SummaryPathAfterUpload` |
| `ScenarioCacheProofs` | `ScenarioTypeCorrect` | `Spec => []TypeOK` |
| | `GeneratedHonest` | `Spec => []GeneratedIsHonest` |
| | `GeneratedFresh` | `Spec => []ServedFresh` |
| `AmgApdProofs` | `VersionsTypeCorrect` | `Spec => []TypeOK` (`DiagramVersions`) |
| | `NumbersWithoutGap` | `Spec => []NumbersContiguous` |
| | `NewestHasHighest` | `Spec => NewestIsHighest` |
| | `FixTypeCorrect` | `FixSpec => []FixTypeOK` (`AutoFix`) |
| | `CyclesFound` | `FixSpec => []CyclesAreComponents` |
| | `SelectionsFound` | `FixSpec => []SelectedIsFound` |
| | `FixesKeepOthers` | `FixSpec => []OthersKept` |
| | `NothingCutOff` | `FixSpec => []ReachKept` |
| | `FixesMend` | `FixSpec => []FixMends`, where it takes two to share a database and to make a page an orchestrator |
| `RunStreamProofs` | `StreamTypeCorrect` | `Spec => []TypeOK` |
| | `EventsWithoutGaps` | `Spec => []NoGaps` |
| | `StreamIsFeed` | `Spec => FeedSpec` |
| `ChatProofs` | `ChatTypeCorrect` | `Spec => []TypeOK` |
| | `OverridePinned` | `Spec => []OverrideStays` |
| | `HistoryOfWholeTurns` | `Spec => []HistoryWhole`, for an even `HistoryLimit` |
| `RequestsProofs` | `RequestsTypeCorrect` | `Spec => []TypeOK` |
| | `PlansLargeEnough` | `Spec => []PlansCoverSpec` |
| | `PlansOnSale` | `Spec => []PlansAreSold` |
| | `WithinBudget` | `Spec => []BudgetHonoured`, for any prices of control planes |
| | `BestMeets` | `Spec => []BestMeetsTarget`, if required rules name no known field |
| | `NodesStay` | `Spec => NodesOnceStored`, for any number of suggestions |
| `PriceJobsProofs` | `PricesTypeCorrect` | `Spec => []TypeOK` |
| | `NightlyWhole` | `Spec => []NightlyLoadsWhole`, while no two fetches share the files |
| | `LastRowStays` | `Spec => LastOfKey` |
| | `LastPriceStays` | `Spec => AzureKeepsLast`, while no two fetches share the files |

The arguments have one shape. Nothing locks what a request has read, so that the
inductive invariant cannot say of a request that its copy is still what is stored. It says
what of the copy stays true although the store moves on, which is something that only
grows, or something that is as true of every copy as it is of the store. Each proof then
has one lemma per action, about the request that moves and the store.

* **RunStore.** None of the properties is inductive. `IInv` adds: Postgres, Redis, the
  index and the engine only know ids that were handed out (`IssuedInv`); no two rows
  share an engine id (`UniqueEngine`); and of each request in flight (`Good`): it
  works on a run that was handed out, holds a coherent row once it has one to write,
  and drives the engine only for a run in `Live`, the runs that are mapped to an
  engine run or have been deleted. `Good` mentions the store only through `issued` and
  `Live`, and both only grow (`Grows`), since the upsert never clears an
  engine id and a row disappears only with a DELETE. So a step of one request
  cannot spoil another's. `Live` growing is also why the 409 check made
  on a copy read long ago is still good at the write (`GuardLasts`). Refinement
  follows step by step: an action that writes `pg` is an insert, an overwrite or a
  removal of one row, and the rest leave `pg` alone.
* **RunResults.** A path is written by a goroutine that has uploaded, and objects are
  never removed; only the DELETE takes rows away. `IInv` adds where in `persistRunMetrics`
  a goroutine knows a best candidate, that an ordinary run's summary with a path has its
  object (`UploadFirst`), and that the points stored and the goroutines which have still to
  store theirs are no more than the callbacks accepted (`SeriesBound`, with
  cardinalities): this is what bounds `series` in `TypeOK`.
* **ScenarioCache.** `Honest` (a generated scenario has the hash of its source) is said
  of the row, of every copy of it, and of what a request is about to store (`SoundJob`);
  an honest row is then only replaced by an honest one, whichever request wins.
* **DiagramVersions.** A number read under no lock may be stale by the time it is used.
  What stays true: it is at most one more than the number of ids given away, which is
  never fewer than the rows. While nothing is deleted the rows have the numbers 1 to `n`, so a number
  that the unique key accepts can only be the next (`FreeIsNext`), and the version stored
  last is the latest, which is what `Chat` takes for granted. After a deletion it need not
  be: an analysis may give the number of the deleted version again, to a row stored
  after later ones.
* **AntiPatterns.** `CyclesFound` is the correctness of Tarjan's algorithm as the code has
  it, for every graph and every order. `SearchInv` is its invariant. Of a service off the
  path all calls have been followed, and calls followed lead to services met (`Followed`);
  each service on the stack reaches one of the path that is not after it, and those reach
  it (`Joined`); a low number on the path is that of a service within reach (`LowReached`),
  and a call between two services on the stack has lowered that of the last on the path
  before it (`LowLeast`); services that have left the stack call only such (`Finished`);
  stack and path are in the order of the numbers, and the detections are the components
  that have left the stack (`FoundComponents`). There is one lemma for each step of the
  search. `Size` grows with each step, so that the search is over after `Steps` of them
  (`SearchedOK`).
  What the other detectors find does not depend on the order they meet the graph in:
  any two of their results have the same keys (`Agree`; all but that of chains), and
  every detection is `Sound`, so that it has the nodes its fix asks for.
* **AutoFix.** `FixInv` adds little: between preview and apply the YAML is the one analysed,
  so that `SelectedIsFound` is `Agree`. The work is in the fixes. `Keeps(s, t, T)` says
  that `t` is a YAML with all links of `T` that `s` has, in their order; each edit keeps the
  links it is not about (`RemoveDependencyOK`, ..., `AddDependencyOK`), each fix those that are
  not between the nodes of its detection, and the merge what the fixes keep, for every
  `T`, so that `OthersKept` is that for one of them. For `ReachKept` a fix leads around the
  links it takes away (`Reroutes`): from the god service to its new half and from there on,
  or from the page to its BFF. Then a set that no link of the new YAML leaves is one
  that no link of the old leaves (`Serves`), which is transitive, so that any number of
  such fixes can follow one another (`FixedReaching`). The proof found the two conditions of
  `ReachKept`: `uniqueServiceName` takes no notice of services that only links name
  (`BFFsListed`; without it the property fails, see `ReachAlwaysKept` above), and after 50
  names that are taken it returns one more without a look (`LastBFF`).
  `FixMends` wants both directions of the code. A detection says what is in the graph
  (`Describes`: links both ways for a ping-pong, synchronous ones for a tight coupling, a
  database followed by exactly its clients, a page by exactly what it calls), whatever order
  the detector met it in; and a fix leaves a graph of which that cannot be said again. With
  no link twice (`Plain`) one link less is that link gone (`RemoveHas`). Each client of a
  database gets one of its own whose name tells the client (`OwnOK`), so that at most one
  client, whose own it is, stays (`SplitDatabaseMends`), of the database the detection is about
  if the fix takes that one (`DatabaseAt`), which is the condition of `FixMends`; a page calls at most its BFF
  (`InsertBFFMends`), which is no page. So the theorem assumes `Defaults`: two clients or more make a database
  shared, two targets or more a page an orchestrator, as the rules have it unless configured,
  and "bff" is no name of a page, which `isBFFOrGatewayName` sees to. With a threshold of
  one the page that calls its BFF would be found again.
* **RunStream.** Events are in the channel, in the inbox of the client and with the
  client. `IInv` has the types, that reader and proxy begin together (`Shape`), and that nothing
  is received but by a client that has subscribed (`Quiet`). `Ordered` is the heart: the events the client
  got or may get (`Sent`) are smaller than those still with the server (`Pending`), and
  increase in each place. With it, what is lost is in no place any more (`Apart`), and
  every event between two that were seen is in a place or there is a reason why it is not
  (`Accounted`, `Covered`): it is of an unknown type or was lost, at the PUBLISH or in the
  full subscription. An event taken out of the middle of the inbox (`DropFacts`) is lost from
  then on, so that what is left is still covered. `NoGaps` is `Covered` of two neighbours in `got`,
  and is kept when the client is gone (`Whole`); the refinement needs the same at the step that
  delivers.
* **Chat.** The versions that stored turns used (`Used`) cannot be deleted, and turns are
  only appended. A request that pins a version has stored a turn with it, so it is in
  `Used` although it was checked long before. For `HistoryWhole`, a listing, latest
  first, of whole turns has the two messages of a turn as neighbours, the first of them
  at an odd place (`PairsOK`), so an even limit cuts between turns. The lemma wants
  induction on the place; it looks at the least place where it fails instead, with
  `WFMin` of the library, since an induction theorem with an operator for a parameter
  cannot be used.
* **Requests.** The first lemmas of `RequestsProofs` follow a size through the code for every
  table of prices: a tier, and so each of the sizes tried, is no smaller
  (`CombinationsOK`); the type chosen and its region come from one row (`ChosenOK`,
  `Backed`); each option's price is that of a row (`OptionPriceOK`); hence the plans of a
  provider, of all, and of any set of jobs are `Sound`, and the recommendation among sound
  plans is right about the budget (`RecommendationsOK`). `IInv` says of an answer being
  kept that it was worth that much (`Worth`), which depends on prices only, and of a
  request that the row it knows exists, which stays true since ids are never removed
  (`SoundSuggestion`). `BestMeets` rests on the order of candidates having a first
  (`FirstOK`, for tuples of any length). Its assumption is what `rules.json` does: the
  required rule is about latency, which the engine does not read. With a required rule
  about the size a candidate that misses the target can come first. `NodesStay` needs no
  invariant beyond the types: each step is shown to keep the sizes that are `Settled`. A step
  of a suggestion that reads learns of a settled row what the row says (`FreshAgrees`), one that
  writes it puts back what it has read (`WriteStays`), and what is done to other rows leaves it
  where it is or moves it with its id (`StaysOK`, `SizedStays`).
* **PriceJobs.** Nothing locks the files, so the theorems about what is loaded need that at
  most one job at a time has a fetch of its own (`FetchesApart`): two fetches truncate
  each other's files, and `MCPriceJobs_header.cfg` shows what an import then meets.
  Imports started by hand stay as they are, any number of them, with failures and
  restarts anywhere, and so do any number of nights one after the other. `WholeInv` follows the records of the one fetch through
  its fetcher, its workers and its importer. `FetcherOK`: file and buffer together begin
  with the header (`Begun`), and hold every record that has been written by the
  fetcher, or, when it has ended in success, every record wanted (`Whole`). `CrewOK`: each record sent is in the
  channel, with a worker, or a line, unless a write has failed (`Accounted`), and no
  worker ends before the channel is closed and empty; so when all have ended, and none
  has told of a failed write, the file is whole. `ImportOK`: what has been read is what
  the file has up to there (`ReadSoFar`), and the rows to be committed are the records
  expected, those of Azure in their order (`Ascending`). `LastRowStays` needs none of
  this: of the rows of any import that commits, the last with a key wins. Within a batch
  `Deduplicated` keeps it, a batch without the key leaves it, and the last batch with the key is the
  one that has the last row (`UpsertedOK`, which picks it with `GreatestOK`). `LastPriceStays`
  combines the two: since Azure's rows are in the order of the list, the last row is the last
  record sent. No run checks it, the case of Azure records in two batches being in reach only of a much
  larger instance; `LastOfKey` is what the run has of it. `Priced` and
  `Upserted` are recursive functions, for every length; with no induction theorem to
  cite, `SetInduction` is induction with a set in the place of the predicate.

Model-checked only: liveness (`ResultsArrive`, `ProxyStops`, `ReaderStops`, and `FetchReturns`, which TLC refutes),
which is out of the prover's reach. Each safety property that a passing run checks is a theorem.
That the fixes keep what they are not about (`OthersKept`) does not speak of a YAML that has
both dependencies and legacy calls, of which the graph shows the dependencies only, nor of the
legacy calls of a database that a fix removes.

## 5. What is not modelled, and why

* The batch guard with the optimization configuration, and the generation of a
  scenario from a YAML: pure functions of one request, long lists of defaults and
  checks of single fields, whose translation would restate them.
* Anti-patterns and suggestions: exporters and scoring (nothing decides by them), the
  texts of suggestions, endpoints of a call beyond the first, the read and write edges
  that only an import of another format makes, the spelling of names (case, prefixes,
  plurals).
* Prices and costs: GCP's fetcher, which is not called; the parsing of provider
  records and CSV fields; savings, which no answer contains; the nearest match, which
  nothing calls; the lists of requests.
* The division of a spec that is a total by the nodes (`http/cost_handler.go:98`) is modelled, but
  no property says that it is right: what counts as a total is a guess of the code. Nor is there one
  for a recommendation that was computed from a row replaced meanwhile (`MCRequests_stale.cfg`).
* Within modelled components: the run lists (queries), metric values and
  `final_config`, titles and images of versions, attachments, lists and the
  stateless temporary chat, project names, a second
  metrics proxy of one run, and the engine calls that only pass a request on
  (update of configuration and workload, lease renewal).
* `projects/service/chat_service.go` and `projects/repository/chat_repo.go`, an older
  copy of the chat that `src/cmd/api/main.go` does not wire.
* Authentication, design input processing, drivers, configuration: no state of
  several steps, or not wired into the server.

## 6. Plan

1. *Done:* runs (`RunRow`, `RunTable`, `RunStore`, proofs), results, scenario cache,
   diagram versions, event stream.
2. *Done:* `Chat`, with the versions reduced to what it needs. Open: the argument
   that this reduction is what `DiagramVersions` implements, as a refinement.
3. *Done:* detection rules and fixes (`AntiPatterns`, `AutoFix`), rules and costs with
   the request log around them (`Rules`, `Costs`, `Requests`).
4. *Done:* `PriceJobs`: schedule, fetchers, importer, partial failure of one provider.
5. *Done:* proofs about the safety properties of all models; `EventFeed`
   as the abstract channel of `RunStream`. Open: an abstract cache for `ScenarioCache`.
6. Open: a second metrics proxy in `RunStream`, the project's deletion in
   `DiagramVersions`, a run of `PriceJobs` with two fetches side by side and a property that
   holds of them, one of `Requests` with a candidate that is a total.

--------------------------- MODULE ScenarioCache ---------------------------
(***************************************************************************)
(* The simulation scenario of one diagram version: the row of              *)
(* simulation_scenario_cache, the object in S3, and the requests that read *)
(* it, generate it from the diagram, replace it by an edited one or        *)
(* regenerate it.  A generated scenario depends on the AMG/APD YAML of the *)
(* diagram and on the host sizing of the project's latest analysis, either *)
(* of which may change under it; source_hash remembers what it came from.  *)
(* Each database or S3 call is a step, and nothing locks the row between   *)
(* them.                                                                   *)
(*                                                                         *)
(* SHA-256 is injective here: a hash is what it is a hash of.  The         *)
(* scenario generated from a source is that source.                        *)
(***************************************************************************)
EXTENDS Naturals

CONSTANTS
    Procs,       \* concurrent requests
    Diagrams,    \* AMG/APD YAML contents
    NoDiagram,   \* the version has no YAML
    Hosts,       \* host sizings
    NoHost,      \* the project has none
    Edits,       \* scenarios written by hand
    PutYamls,    \* the scenarios clients PUT
    NoHash, NoRow, NoAnswer,
    Faults,      \* whether calls fail and the server restarts
    MaxRequests  \* bound: requests served

\* What a scenario is generated from: the hash of a diagram alone is the hash
\* of the diagram with no host sizing.
Sources == Diagrams \X (Hosts \cup {NoHost})

Yaml == Edits \cup Sources

Row == [yaml : Yaml, source : {"generated", "edited"},
        hash : Sources \cup {NoHash}, path : BOOLEAN]

ASSUME ScenarioCacheAssumption ==
    /\ NoDiagram \notin Diagrams
    /\ NoHost \notin Hosts
    /\ Edits \cap Sources = {}
    /\ PutYamls \subseteq Yaml
    /\ NoHash \notin Sources
    /\ NoRow \notin Row
    /\ Faults \in BOOLEAN
    /\ MaxRequests \in Nat

VARIABLES
    diagram,   \* yaml_content of the diagram version
    host,      \* the project's host sizing
    row,       \* simulation_scenario_cache
    object,    \* simulation/diagram_versions/{id}/scenario.yaml
    answer,    \* the scenario handed out last, until the next request begins
    started,   \* requests begun, against MaxRequests
    job

vars == <<diagram, host, row, object, answer, started, job>>

\* get: GET .../scenario; run: a run that asks for the version's scenario; put:
\* PUT .../scenario, or a run with save_scenario; regenerate: POST .../regenerate.
Kinds == {"get", "run", "put", "regenerate"}

\* overwrite: what the client asked; force: what the handler passes on; diagram,
\* cached: what it read; yaml, hash, path: what it is about to store.
Job == [pc : {"idle", "load", "cached", "host", "s3", "select", "insert"},
        kind : Kinds, overwrite : BOOLEAN, force : BOOLEAN,
        diagram : Diagrams \cup {NoDiagram}, cached : Row \cup {NoRow},
        yaml : Yaml \cup {NoHash}, hash : Sources \cup {NoHash}, path : BOOLEAN]

\* from: what the request read the scenario's source to be.
Answer == [kind : Kinds, yaml : Yaml, source : {"generated", "edited"},
           from : Sources \cup {NoHash}]

Idle == [pc |-> "idle", kind |-> "get", overwrite |-> FALSE, force |-> FALSE,
         diagram |-> NoDiagram, cached |-> NoRow, yaml |-> NoHash,
         hash |-> NoHash, path |-> FALSE]

TypeOK ==
    /\ diagram \in Diagrams \cup {NoDiagram}
    /\ host \in Hosts \cup {NoHost}
    /\ row \in Row \cup {NoRow}
    /\ object \in Yaml \cup {NoHash}
    /\ answer \in Answer \cup {NoAnswer}
    /\ started \in 0 .. MaxRequests
    /\ job \in [Procs -> Job]

Init ==
    /\ diagram \in Diagrams
    /\ host = NoHost
    /\ row = NoRow
    /\ object = NoHash
    /\ answer = NoAnswer
    /\ started = 0
    /\ job = [p \in Procs |-> Idle]

At(p, label) == job[p].pc = label

Finish(p) == job' = [job EXCEPT ![p] = Idle]

Answers(p, y, s, from) ==
    /\ answer' = [kind |-> job[p].kind, yaml |-> y, source |-> s, from |-> from]
    /\ Finish(p)

-----------------------------------------------------------------------------
(***************************************************************************)
(* The requests, up to the decision what to store.                         *)
(***************************************************************************)

Begin(p, k, y, overwrite) ==
    /\ job[p] = Idle
    /\ started < MaxRequests
    /\ started' = started + 1
    /\ (k \in {"get", "run"}) => ~overwrite
    /\ (k = "put") <=> (y # NoHash)
    /\ job' = [job EXCEPT ![p] =
                 [Idle EXCEPT !.pc = "load", !.kind = k, !.yaml = y,
                              !.overwrite = overwrite, !.force = overwrite]]
    /\ answer' = NoAnswer
    /\ UNCHANGED <<diagram, host, row, object>>

\* Mutant of LoadDiagram: a PUT hashes whatever it read.
LoadDiagramHashes(p) ==
    /\ At(p, "load")
    /\ job' = [job EXCEPT ![p].pc = "s3", ![p].hash = <<diagram, NoHost>>]
    /\ UNCHANGED <<diagram, host, row, object, answer, started>>

\* GetDiagramYAMLContent.  Only a PUT can do without a diagram; it hashes the
\* diagram without the host sizing.
LoadDiagram(p) ==
    /\ At(p, "load")
    /\ \/ /\ job[p].kind = "put"
          /\ job' = [job EXCEPT ![p].pc = "s3",
                       ![p].hash = IF diagram = NoDiagram THEN NoHash
                                   ELSE <<diagram, NoHost>>]
       \/ /\ job[p].kind # "put"
          /\ IF diagram = NoDiagram
             THEN Finish(p)
             ELSE job' = [job EXCEPT ![p].pc = "cached", ![p].diagram = diagram]
    /\ UNCHANGED <<diagram, host, row, object, answer, started>>

Edited == row # NoRow /\ row.source = "edited"

\* The diagram changed since the scenario was edited.
Outdated(p) == row.hash \notin {NoHash, <<job[p].diagram, NoHost>>}

\* GetScenarioForDiagramVersion: an edited scenario is handed out as it is, to a
\* run always and to a GET unless the diagram changed; a regenerate needs
\* overwrite to replace it.
ReadCached(p) ==
    /\ At(p, "cached")
    /\ \/ /\ Edited
          /\ \/ /\ job[p].kind = "run" \/ (job[p].kind = "get" /\ ~Outdated(p))
                /\ Answers(p, row.yaml, "edited", <<job[p].diagram, NoHost>>)
             \/ /\ \/ job[p].kind = "get" /\ Outdated(p)
                   \/ job[p].kind = "regenerate" /\ ~job[p].overwrite
                /\ Finish(p) /\ UNCHANGED answer
       \/ /\ ~Edited \/ (job[p].kind = "regenerate" /\ job[p].overwrite)
          /\ job' = [job EXCEPT ![p].pc = "host", ![p].cached = row,
                       ![p].force = (row # NoRow \/ job[p].kind = "regenerate")]
          /\ UNCHANGED answer
    /\ UNCHANGED <<diagram, host, row, object, started>>

\* Mutant of Usable: any cached scenario will do.
UsableAlways(cached, from) == cached # NoRow

\* useCachedGeneratedScenario.
Usable(cached, from) ==
    /\ cached # NoRow
    /\ cached.source = "edited" \/ cached.hash \in {NoHash, from}

\* scenarioGenerationOptsAndHash, useCachedGeneratedScenario and the generator.
Generate(p) ==
    /\ At(p, "host")
    /\ LET from == <<job[p].diagram, host>>
       IN  \/ /\ job[p].kind # "regenerate"
              /\ Usable(job[p].cached, from)
              /\ Answers(p, job[p].cached.yaml, job[p].cached.source, from)
           \/ /\ job[p].kind = "regenerate" \/ ~Usable(job[p].cached, from)
              /\ job' = [job EXCEPT ![p].pc = "s3", ![p].yaml = from,
                           ![p].hash = from, ![p].diagram = NoDiagram,
                           ![p].cached = NoRow]
              /\ UNCHANGED answer
    /\ UNCHANGED <<diagram, host, row, object, started>>

-----------------------------------------------------------------------------
(***************************************************************************)
(* putScenarioToS3 and UpsertScenarioForDiagramVersion.                    *)
(***************************************************************************)

\* A failed upload only leaves s3_path empty.
PutS3(p) ==
    /\ At(p, "s3")
    /\ \/ object' = job[p].yaml /\ job' = [job EXCEPT ![p].pc = "select",
                                                      ![p].path = TRUE]
       \/ Faults /\ UNCHANGED object /\ job' = [job EXCEPT ![p].pc = "select"]
    /\ UNCHANGED <<diagram, host, row, answer, started>>

Source(p) == IF job[p].kind = "put" THEN "edited" ELSE "generated"

\* SELECT: the same scenario is left as it is, another one is a conflict unless
\* the handler forces it.
Select(p) ==
    /\ At(p, "select")
    /\ \/ /\ row # NoRow /\ row.yaml = job[p].yaml
          /\ Answers(p, row.yaml, row.source, job[p].hash)
       \/ /\ row # NoRow /\ row.yaml # job[p].yaml /\ ~job[p].force
          /\ Finish(p) /\ UNCHANGED answer
       \/ /\ row # NoRow => row.yaml # job[p].yaml /\ job[p].force
          /\ job' = [job EXCEPT ![p].pc = "insert"]
          /\ UNCHANGED answer
    /\ UNCHANGED <<diagram, host, row, object, started>>

\* Mutant of Stored: COALESCE the other way round.
StoredKeepsHash(new) ==
    IF row = NoRow THEN new
    ELSE [new EXCEPT !.hash = IF row.hash = NoHash THEN @ ELSE row.hash,
                     !.path = @ \/ row.path]

\* INSERT ... ON CONFLICT DO UPDATE, with COALESCE on s3_path and source_hash.
Stored(new) ==
    IF row = NoRow THEN new
    ELSE [new EXCEPT !.hash = IF @ = NoHash THEN row.hash ELSE @,
                     !.path = @ \/ row.path]

Insert(p) ==
    /\ At(p, "insert")
    /\ row' = Stored([yaml |-> job[p].yaml, source |-> Source(p),
                      hash |-> job[p].hash, path |-> job[p].path])
    /\ Answers(p, job[p].yaml, Source(p), job[p].hash)
    /\ UNCHANGED <<diagram, host, object, started>>

\* A failed call, a scenario the engine does not validate, a restart.
Fail(p) ==
    /\ Faults
    /\ job[p] # Idle
    /\ Finish(p)
    /\ UNCHANGED <<diagram, host, row, object, answer, started>>

\* The version is saved in place, with another YAML or none; another analysis
\* request sets the host sizing.
ChangeDiagram == /\ diagram' \in (Diagrams \cup {NoDiagram}) \ {diagram}
                 /\ UNCHANGED <<host, row, object, answer, started, job>>

ChangeHost == /\ host' \in (Hosts \cup {NoHost}) \ {host}
              /\ UNCHANGED <<diagram, row, object, answer, started, job>>

Step(p) ==
    \/ \E k \in Kinds, y \in PutYamls \cup {NoHash}, o \in BOOLEAN :
          Begin(p, k, y, o)
    \/ LoadDiagram(p) \/ ReadCached(p) \/ Generate(p)
    \/ PutS3(p) \/ Select(p) \/ Insert(p) \/ Fail(p)

Next == ChangeDiagram \/ ChangeHost \/ \E p \in Procs : Step(p)

Spec == Init /\ [][Next]_vars

-----------------------------------------------------------------------------
(***************************************************************************)
(* Properties.                                                             *)
(***************************************************************************)

\* source_hash tells what a generated scenario was generated from, whichever
\* requests raced to store theirs: useCachedGeneratedScenario decides by it.
GeneratedIsHonest ==
    row # NoRow /\ row.source = "generated" => row.yaml = row.hash

\* A GET or a run gets a generated scenario only when it is the one of the
\* diagram and of the host sizing the request read, cached or not.
ServedFresh ==
    /\ answer # NoAnswer
    /\ answer.kind \in {"get", "run"}
    /\ answer.source = "generated"
    => answer.yaml = answer.from

\* handlers_scenario.go: "an edited scenario exists; pass overwrite=true to
\* replace it with a generated draft" and "set overwrite=true to replace": an
\* edited scenario is replaced only by a request with overwrite=true.
EditedKept ==
    [][Edited /\ row' # row =>
         \E p \in Procs : At(p, "insert") /\ job'[p] = Idle /\ job[p].overwrite]_vars

\* handlers_scenario.go answers a PUT "scenario cache conflict; set overwrite=true
\* to replace": between requests the object in S3 is the scenario of the row
\* that names it.
ObjectMatchesRow ==
    (\A p \in Procs : job[p] = Idle) /\ row # NoRow /\ row.path
        => object = row.yaml

\* handlers_scenario.go answers a GET "diagram AMG/APD content changed since the
\* scenario was last saved; use PUT with the updated scenario": after a PUT that
\* answered 200, and with the diagram it read, a GET no longer says so.
PutSettlesConflict ==
    /\ answer # NoAnswer
    /\ answer.kind = "put"
    /\ answer.from = <<diagram, NoHost>>
    /\ Edited
    /\ row.yaml = answer.yaml
    => row.hash \in {NoHash, answer.from}
=============================================================================

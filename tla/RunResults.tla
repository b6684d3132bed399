----------------------------- MODULE RunResults -----------------------------
(***************************************************************************)
(* What a terminal callback leaves behind for one run: the summary row     *)
(* (simulation_summaries), the candidate rows (simulation_candidates), the *)
(* time series and the objects in S3.  The callback handler answers 200    *)
(* and starts a goroutine that asks the engine for its exports and writes  *)
(* them, first persistRunMetrics and then, for a run that is not an        *)
(* optimization batch, uploadBestScenarioToS3.  Callbacks are repeated, so *)
(* several goroutines may work on the run, next to the end of the create   *)
(* handler and to a DELETE.                                                *)
(*                                                                         *)
(* A scenario YAML is known by where it came from: the candidate whose     *)
(* export it is, "parent" for the run's own, "none" for an empty one.      *)
(***************************************************************************)
EXTENDS Naturals

CONSTANTS
    Procs,         \* goroutines
    Cands,         \* engine runs a batch may evaluate
    NoCand,        \* no best_run_id
    Self,          \* the run's own id, as the candidate id of an ordinary run
    Batches,       \* the batch outcomes the engine may have: [best, top]
    ParentYamls,   \* what the parent's export may carry: "parent", or "none" when
                   \* exports may come without a scenario
    Faults,        \* whether calls fail and the server restarts
    MaxCallbacks   \* bound: terminal callbacks accepted

ASSUME RunResultsAssumption ==
    /\ NoCand \notin Cands
    /\ Self \notin Cands
    /\ {"none", "parent"} \cap Cands = {}
    /\ Batches \subseteq [best : Cands \cup {NoCand}, top : SUBSET Cands]
    /\ ParentYamls \subseteq {"parent", "none"}
    /\ Faults \in BOOLEAN
    /\ MaxCallbacks \in Nat

VARIABLES
    row,        \* whether simulation_runs has the run
    summary,    \* the summary row
    cand,       \* for each candidate id, its row: the object s3_path names
    series,     \* batches of time series points inserted
    s3best,     \* simulation/{run}/best_scenario.yaml
    s3own,      \* the candidates with a simulation/{run}/candidates/{id}.yaml
    outcome,    \* what the engine found
    creating,   \* the create handler has yet to store the scenario
    deleted,    \* the run was deleted
    accepted,   \* callbacks accepted, against MaxCallbacks
    job

db == <<row, summary, cand, series>>
s3 == <<s3best, s3own>>
env == <<outcome, creating, deleted, accepted>>
vars == <<db, s3, env, job>>

Yaml == Cands \cup {"parent", "none"}

\* path: best_candidate_s3_path is set (it has one possible value);
\* metrics: the aggregate metrics and the replay data are there.
Summary == [there : BOOLEAN, yaml : Yaml, path : BOOLEAN, metrics : BOOLEAN]

NoSummary == [there |-> FALSE, yaml |-> "none", path |-> FALSE, metrics |-> FALSE]

\* The row of a candidate: absent, or with s3_path empty, its own object, or
\* best_scenario.yaml.
CandRow == {"absent", "empty", "own", "best"}

NoCands == [c \in Cands \cup {Self} |-> "absent"]

PCs == {"idle", "get_run", "export", "series", "summary", "ensure", "each",
        "best_row", "candidates", "upload", "upload_row"}

\* best, top: the ids the goroutine goes by; batch: whether the callback itself
\* carried ids; export: the parent's export, FALSE when there is none; todo: the
\* ids to export; recs: the candidate rows collected.
Job == [pc : PCs, best : Cands \cup {NoCand}, top : SUBSET Cands,
        batch : BOOLEAN, exported : BOOLEAN, yaml : Yaml,
        todo : SUBSET Cands, recs : [Cands \cup {Self} -> CandRow]]

IdleJob == [pc |-> "idle", best |-> NoCand, top |-> {}, batch |-> FALSE,
            exported |-> FALSE, yaml |-> "none", todo |-> {}, recs |-> NoCands]

TypeOK ==
    /\ row \in BOOLEAN
    /\ summary \in Summary
    /\ cand \in [Cands \cup {Self} -> CandRow]
    /\ series \in 0 .. MaxCallbacks
    /\ s3best \in Yaml
    /\ s3own \subseteq Cands
    /\ outcome \in Batches
    /\ creating \in BOOLEAN
    /\ deleted \in BOOLEAN
    /\ accepted \in 0 .. MaxCallbacks
    /\ job \in [Procs -> Job]

\* The engine has accepted the run; the create handler is about to finish.
Init ==
    /\ row = TRUE
    /\ summary = NoSummary
    /\ cand = NoCands
    /\ series = 0
    /\ s3best = "none"
    /\ s3own = {}
    /\ outcome \in Batches
    /\ creating = TRUE
    /\ deleted = FALSE
    /\ accepted = 0
    /\ job = [p \in Procs |-> IdleJob]

\* uniqueCandidateIDs.
Ids(best, top) == (top \cup {best}) \ {NoCand}

\* An export may come without a scenario, or an upload fail: no object is written.
MayMiss == Faults \/ "none" \in ParentYamls

Goto(p, label) == job' = [job EXCEPT ![p].pc = label]

Finish(p) == job' = [job EXCEPT ![p] = IdleJob]

\* persistRunMetrics is over: a callback without ids goes on to the upload.
Outer(p) ==
    job' = [job EXCEPT ![p] = IF job[p].batch THEN IdleJob
                              ELSE [IdleJob EXCEPT !.pc = "upload"]]

\* INSERT INTO simulation_summaries ... ON CONFLICT (run_id) DO UPDATE, which
\* the foreign key refuses without a run row.
UpsertScenario(y) ==
    summary' = [summary EXCEPT !.there = TRUE, !.yaml = y, !.path = TRUE]

-----------------------------------------------------------------------------
(***************************************************************************)
(* The create handler, the callback and the delete.                        *)
(***************************************************************************)

\* CreateRun stores the scenario and leaves the other columns; for a project,
\* CreateRunForProject upserts a whole summary with no metrics.
CreateStores ==
    /\ creating
    /\ creating' = FALSE
    /\ row' = TRUE
    /\ \E keep \in {summary.metrics, FALSE} :
         summary' = [summary EXCEPT !.there = TRUE, !.yaml = "parent",
                                    !.metrics = keep]
    /\ UNCHANGED <<cand, series, s3, outcome, deleted, accepted, job>>

CreateFails ==
    /\ Faults
    /\ creating
    /\ creating' = FALSE
    /\ UNCHANGED <<db, s3, outcome, deleted, accepted, job>>

\* A terminal callback, which may carry the ids of the batch or not.  A callback
\* that overtakes the create handler finds a run without an engine id: with ids
\* it goes on to the candidates, without it returns.
Callback(p) ==
    /\ job[p].pc = "idle"
    /\ row
    /\ accepted < MaxCallbacks
    /\ accepted' = accepted + 1
    /\ \E best \in {outcome.best, NoCand}, top \in {outcome.top, {}} :
         LET ids == Ids(best, top)
             j   == [IdleJob EXCEPT !.pc = "get_run", !.best = best, !.top = top,
                                    !.batch = ids # {}]
         IN  \/ job' = [job EXCEPT ![p] = j]
             \/ /\ creating
                /\ ids # {}
                /\ job' = [job EXCEPT ![p] = [j EXCEPT !.pc = "ensure"]]
             \/ /\ creating
                /\ ids = {}
                /\ UNCHANGED job
    /\ UNCHANGED <<db, s3, outcome, creating, deleted>>

\* DELETE FROM simulation_runs, and what the foreign keys cascade to.  The
\* objects in S3 stay.
Delete ==
    /\ row
    /\ row' = FALSE
    /\ summary' = NoSummary
    /\ cand' = NoCands
    /\ series' = 0
    /\ deleted' = TRUE
    /\ UNCHANGED <<s3, outcome, creating, accepted, job>>

\* The server restarts; the goroutines are gone.
Crash ==
    /\ Faults
    /\ job' = [p \in Procs |-> IdleJob]
    /\ creating' = FALSE
    /\ UNCHANGED <<db, s3, outcome, deleted, accepted>>

-----------------------------------------------------------------------------
(***************************************************************************)
(* persistRunMetrics.                                                      *)
(***************************************************************************)

\* Mutant of GetRun: only the ids of the callback count.
GetRunIgnored(p) ==
    /\ job[p].pc = "get_run"
    /\ Goto(p, "export")
    /\ UNCHANGED <<db, s3, env>>

\* GET /v1/runs/{id}: the ids the callback did not carry.
GetRun(p) ==
    /\ job[p].pc = "get_run"
    /\ \/ job' = [job EXCEPT
                    ![p].pc   = "export",
                    ![p].best = IF @ = NoCand THEN outcome.best ELSE @,
                    ![p].top  = IF @ = {} THEN outcome.top ELSE @]
       \/ Faults /\ Goto(p, "export")
    /\ UNCHANGED <<db, s3, env>>

\* GET /v1/runs/{id}/export of the parent; without it only a batch goes on.
Export(p) ==
    /\ job[p].pc = "export"
    /\ \/ \E y \in ParentYamls :
            job' = [job EXCEPT ![p].pc = "series", ![p].exported = TRUE,
                               ![p].yaml = y]
       \/ /\ Faults
          /\ IF Ids(job[p].best, job[p].top) = {}
             THEN Outer(p)
             ELSE Goto(p, "series")
    /\ UNCHANGED <<db, s3, env>>

\* Mutant of Series: the points are inserted again after a failed attempt that
\* was not one.
SeriesTwice(p) ==
    /\ job[p].pc = "series"
    /\ row' = TRUE
    /\ series' = series + 1
    /\ \/ Goto(p, IF job[p].exported THEN "summary" ELSE "ensure")
       \/ UNCHANGED job
    /\ UNCHANGED <<summary, cand, s3, env>>

\* InsertTimeSeries: the run row if it is missing, then the points.
Series(p) ==
    /\ job[p].pc = "series"
    /\ \/ row' = TRUE /\ series' = series + 1
       \/ Faults /\ row' = TRUE /\ UNCHANGED series
       \/ Faults /\ UNCHANGED <<row, series>>
    /\ Goto(p, IF job[p].exported THEN "summary" ELSE "ensure")
    /\ UNCHANGED <<summary, cand, s3, env>>

\* The run row if it is missing, then the whole summary, which takes the YAML of the export
\* even when that is the empty string.
UpsertSummary(y) ==
    /\ row' = TRUE
    /\ summary' = [summary EXCEPT !.there = TRUE, !.metrics = TRUE, !.yaml = y]

\* Nothing is stored of an export without metrics, final config and scenario.
StoreSummary(p) ==
    /\ job[p].pc = "summary"
    /\ \/ UpsertSummary(job[p].yaml)
       \/ job[p].yaml = "none" /\ UNCHANGED <<row, summary>>
       \/ Faults /\ row' = TRUE /\ UNCHANGED summary
       \/ Faults /\ UNCHANGED <<row, summary>>
    /\ Goto(p, "ensure")
    /\ UNCHANGED <<cand, series, s3, env>>

\* The run row, for the candidates' foreign key.
EnsureRow(p) ==
    /\ job[p].pc = "ensure"
    /\ \/ /\ row' = TRUE
          /\ LET ids == Ids(job[p].best, job[p].top)
             IN  job' = [job EXCEPT ![p].todo = ids,
                           ![p].pc = IF ids # {} THEN "each" ELSE "candidates"]
       \/ Faults /\ UNCHANGED row /\ Outer(p)
    /\ UNCHANGED <<summary, cand, series, s3, env>>

\* Mutant of Each: the path of a candidate whose upload failed is kept.
EachKeepsPath(p) ==
    /\ job[p].pc = "each"
    /\ \E c \in job[p].todo :
         /\ s3own' = s3own \cup {c} \/ UNCHANGED s3own
         /\ job' = [job EXCEPT ![p].todo = @ \ {c}, ![p].recs[c] = "own"]
    /\ UNCHANGED <<db, s3best, env>>

\* The export of one more candidate, the best one first.  Its YAML, unless empty,
\* goes to S3.  The best one's record names best_scenario.yaml whatever becomes
\* of the upload, and the summary is next unless there is no YAML; another one's
\* names its object when the upload succeeded.
Each(p) ==
    /\ job[p].pc = "each"
    /\ \E c \in job[p].todo :
         /\ job[p].best \in job[p].todo => c = job[p].best
         /\ \/ /\ c = job[p].best
               /\ s3best' = c \/ (Faults /\ UNCHANGED s3best)
               /\ job' = [job EXCEPT ![p].todo = @ \ {c}, ![p].pc = "best_row",
                                     ![p].recs[c] = "best"]
               /\ UNCHANGED s3own
            \/ /\ c = job[p].best
               /\ "none" \in ParentYamls
               /\ job' = [job EXCEPT ![p].todo = @ \ {c}, ![p].recs[c] = "best"]
               /\ UNCHANGED s3
            \/ /\ c # job[p].best
               /\ s3own' = s3own \cup {c}
               /\ job' = [job EXCEPT ![p].todo = @ \ {c}, ![p].recs[c] = "own"]
               /\ UNCHANGED s3best
            \/ /\ c # job[p].best
               /\ MayMiss
               /\ job' = [job EXCEPT ![p].todo = @ \ {c}, ![p].recs[c] = "empty"]
               /\ UNCHANGED s3
            \/ /\ Faults
               /\ job' = [job EXCEPT ![p].todo = @ \ {c}]
               /\ UNCHANGED s3
    /\ UNCHANGED <<db, env>>

\* The best candidate's path and scenario in the summary.
BestRow(p) ==
    /\ job[p].pc = "best_row"
    /\ \/ row /\ UpsertScenario(job[p].best)
       \/ (~row \/ Faults) /\ UNCHANGED summary
    /\ Goto(p, "each")
    /\ UNCHANGED <<row, cand, series, s3, env>>

\* CreateMany, in one transaction: rows without a conflict are inserted, the
\* others overwritten.
CreateMany(recs) ==
    cand' = [c \in Cands \cup {Self} |->
               IF recs[c] = "absent" THEN cand[c] ELSE recs[c]]

BatchCandidates(p) ==
    /\ job[p].pc = "each"
    /\ job[p].todo = {}
    /\ \/ row /\ CreateMany(job[p].recs)
       \/ (~row \/ Faults) /\ UNCHANGED cand
    /\ Outer(p)
    /\ UNCHANGED <<row, summary, series, s3, env>>

\* An ordinary run: the candidates of its export, each with its YAML in S3, or
\* the run itself, recorded as best_scenario.yaml before it is uploaded.
OwnCandidates(p) ==
    /\ job[p].pc = "candidates"
    /\ \E C \in SUBSET Cands :
       \E up \in IF MayMiss THEN SUBSET C ELSE {C} :
         LET recs == [c \in Cands \cup {Self} |->
                        CASE c \in up           -> "own"
                          [] c \in C \ up       -> "empty"
                          [] c = Self /\ C = {} -> "best"
                          [] OTHER              -> "absent"]
         IN  /\ job[p].exported
             /\ s3own' = s3own \cup up
             /\ \/ row /\ CreateMany(recs)
                \/ (~row \/ Faults) /\ UNCHANGED cand
    /\ Outer(p)
    /\ UNCHANGED <<row, summary, series, s3best, env>>

-----------------------------------------------------------------------------
(***************************************************************************)
(* uploadBestScenarioToS3: the parent's export, again.                     *)
(***************************************************************************)

\* Mutant of Upload: a failed upload is only logged.
UploadGoesOn(p) ==
    /\ job[p].pc = "upload"
    /\ s3best' = "parent" \/ (Faults /\ UNCHANGED s3best)
    /\ Goto(p, "upload_row")
    /\ UNCHANGED <<db, s3own, env>>

Upload(p) ==
    /\ job[p].pc = "upload"
    /\ \/ /\ "parent" \in ParentYamls
          /\ s3best' = "parent"
          /\ Goto(p, "upload_row")
       \/ /\ Faults \/ "none" \in ParentYamls
          /\ UNCHANGED s3best
          /\ Finish(p)
    /\ UNCHANGED <<db, s3own, env>>

UploadRow(p) ==
    /\ job[p].pc = "upload_row"
    /\ \/ row' = TRUE /\ UpsertScenario("parent")
       \/ Faults /\ row' = TRUE /\ UNCHANGED summary
       \/ Faults /\ UNCHANGED <<row, summary>>
    /\ Finish(p)
    /\ UNCHANGED <<cand, series, s3, env>>

Persist(p) ==
    \/ GetRun(p) \/ Export(p) \/ Series(p) \/ StoreSummary(p) \/ EnsureRow(p)
    \/ Each(p) \/ BestRow(p) \/ BatchCandidates(p) \/ OwnCandidates(p)
    \/ Upload(p) \/ UploadRow(p)

Next ==
    \/ CreateStores \/ CreateFails \/ Delete \/ Crash
    \/ \E p \in Procs : Callback(p) \/ Persist(p)

Spec == Init /\ [][Next]_vars

\* A goroutine runs until it returns: nothing in it waits for another one, and
\* each call ends within persistenceTimeout.
FairSpec == Spec /\ \A p \in Procs : WF_vars(Persist(p))

-----------------------------------------------------------------------------
(***************************************************************************)
(* Properties.                                                             *)
(***************************************************************************)

Ordinary == Ids(outcome.best, outcome.top) = {}

\* A candidate row, stored or about to be, names simulation/{run}/candidates/{id}.yaml
\* only after the upload of that object succeeded: GetRunCandidates hands the path
\* out and a client follows it, after crashes, failed uploads, repeated callbacks
\* and deletes too.  best_scenario.yaml is named by the best candidate's row, with
\* the object or without, and by the fallback row, and by no other candidate's.
OwnPathsResolve ==
    \A c \in Cands :
        /\ cand[c] = "own" => c \in s3own
        /\ cand[c] = "best" => c = outcome.best
        /\ \A p \in Procs :
             /\ job[p].recs[c] = "own" => c \in s3own
             /\ job[p].recs[c] = "best" => c = outcome.best

\* uploadBestScenarioToS3 writes S3 before it writes the summary's
\* best_candidate_s3_path, the path GetRunCandidates loads the best candidate
\* from: for an ordinary run it leads to the object.  It says nothing of the s3_path
\* of the fallback candidate row, which persistRunMetrics stored earlier.
SummaryPathAfterUpload == Ordinary /\ summary.path => s3best = "parent"

\* The goroutine a terminal callback starts stores the run's candidates, also
\* those the callback did not name and GET /v1/runs/{id} did, and the summary when
\* the export has something for it, unless the run is deleted: no call fails here,
\* and no goroutine of the run holds up another.
ResultsArrive ==
    \A p \in Procs :
        /\ job[p].pc = "get_run" ~>
             \/ deleted
             \/ /\ \A c \in Ids(outcome.best, outcome.top) : cand[c] # "absent"
                /\ \E c \in Cands \cup {Self} : cand[c] # "absent"
        /\ job[p].pc = "summary" /\ job[p].yaml # "none" ~>
             deleted \/ (summary.there /\ summary.metrics)

\* README.md: "the best candidate's S3 path is stored as best_scenario.yaml": when
\* the goroutines are done, the object holds the scenario of the candidate whose
\* row names it.
BestScenarioIsBest ==
    /\ \A p \in Procs : job[p].pc = "idle"
    /\ outcome.best # NoCand
    /\ cand[outcome.best] = "best"
    => s3best = outcome.best

\* migrations/0010: scenario_yaml is stored "so that the backend can retrieve the
\* scenario directly from Postgres": once stored it is not lost while the run is
\* there.
ScenarioKept ==
    [][row /\ row' /\ summary.yaml # "none" => summary'.yaml # "none"]_vars
=============================================================================

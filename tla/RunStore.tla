------------------------------ MODULE RunStore ------------------------------
(***************************************************************************)
(* The life cycle of simulation runs: the HTTP handlers that create,       *)
(* update and delete runs, the callbacks of the simulation engine and the  *)
(* goroutine a terminal callback leaves behind, all of them writing the    *)
(* same row through SimulationService and RunRepository.                   *)
(*                                                                         *)
(* A row lives in Postgres (pg), and a copy of it in Redis (cache) with an *)
(* index from engine run ids to runs (eidx).  There is no transaction and  *)
(* no lock around "read the row, change it, write it back": each database  *)
(* or Redis round trip is a step of its own, and the requests interleave   *)
(* between any two.  A process p is one goroutine serving one request;     *)
(* job[p] holds its program counter and its local variables.               *)
(***************************************************************************)
EXTENDS RunRow, Naturals

CONSTANTS
    Procs,             \* concurrent requests
    NoRun,             \* no run
    KeepEngine,        \* UpdateRunRequest.EngineRunID = nil
    MaxRequests,       \* bound: requests and callbacks served in a behaviour
    PutStatuses,       \* the statuses clients PUT
    PutEngineIds,      \* the engine_run_id values clients PUT
    CallbackStatuses   \* the statuses engine callbacks carry, after mapping

ASSUME RunStoreAssumption ==
    /\ NoRun \notin Runs
    /\ KeepEngine \notin EngineRef
    /\ MaxRequests \in Nat
    /\ PutStatuses \subseteq Status \cup {"bogus", "keep"}
    /\ PutEngineIds \subseteq EngineRef \cup {KeepEngine}
    /\ CallbackStatuses \subseteq Status

VARIABLES
    pg,        \* simulation_runs, by run id
    cache,     \* the Redis copy, by run id
    eidx,      \* the Redis index, by engine run id
    engRun,    \* the run each engine run was created for
    issued,    \* run ids handed out
    deleted,   \* runs for which a DELETE has answered 200
    started,   \* requests started, against MaxRequests
    job

vars == <<pg, cache, eidx, engRun, issued, deleted, started, job>>

\* A status no code accepts, and UpdateRunRequest.Status = nil.
Unknown == "bogus"
KeepStatus == "keep"

\* Statuses a client may set only on a run known to the engine.
EngineStatuses == {"running", "completed", "cancelled", "stopped"}

Request == [status : Status \cup {Unknown, KeepStatus},
            eng : EngineRef \cup {KeepEngine},
            meta : SUBSET MetaKeys]

NoRequest == [status |-> KeepStatus, eng |-> KeepEngine, meta |-> {}]

\* create_failed: the create handler after the engine refused the run; series to
\* upload: the stages of the persistence goroutine.
Kinds == {"none", "create", "create_failed", "put", "callback", "delete",
          "series", "summary", "history", "candidates", "bundle", "upload"}

PCs == {"idle", "create_cache", "create_engine",
        "svc_read", "repo_read", "upsert", "cache_write",
        "ensure", "del_cache", "del_row"}

\* seen: the engine id of the copy of the run the handler took when it began;
\* new: the row UpdateRun is writing; old: the engine id Update read before.
Job == [pc : PCs, kind : Kinds, run : Runs \cup {NoRun}, req : Request,
        seen : EngineRef, new : Row \cup {NoRow}, old : EngineRef]

IdleJob == [pc |-> "idle", kind |-> "none", run |-> NoRun, req |-> NoRequest,
            seen |-> NoEngine, new |-> NoRow, old |-> NoEngine]

\* The steps of SimulationService.UpdateRun and RunRepository.Update.
UpdatePCs == {"svc_read", "repo_read", "upsert", "cache_write"}

TypeOK ==
    /\ pg \in [Runs -> Row \cup {NoRow}]
    /\ cache \in [Runs -> Row \cup {NoRow}]
    /\ eidx \in [EngineIds -> Runs \cup {NoRun}]
    /\ engRun \in [EngineIds -> Runs \cup {NoRun}]
    /\ issued \subseteq Runs
    /\ deleted \subseteq issued
    /\ started \in 0 .. MaxRequests
    /\ job \in [Procs -> Job]

Init ==
    /\ pg = [r \in Runs |-> NoRow]
    /\ cache = [r \in Runs |-> NoRow]
    /\ eidx = [e \in EngineIds |-> NoRun]
    /\ engRun = [e \in EngineIds |-> NoRun]
    /\ issued = {}
    /\ deleted = {}
    /\ started = 0
    /\ job = [p \in Procs |-> IdleJob]

-----------------------------------------------------------------------------
(***************************************************************************)
(* Reading and writing rows.                                               *)
(***************************************************************************)

\* GetByRunID: Postgres, and Redis only when Postgres has no such row.
Read(r) == IF pg[r] # NoRow THEN pg[r] ELSE cache[r]

\* GetByEngineRunID: the same, through the Redis index.
FindByEngine(e) ==
    LET rows == {r \in Runs : pg[r] # NoRow /\ pg[r].eng = e}
    IN  IF rows # {} THEN CHOOSE r \in rows : TRUE ELSE eidx[e]

\* Mutant of Apply: "stopped" is not one of the terminal states.
ApplyForgetsStopped(row, rq) ==
    [row EXCEPT !.status = IF rq.status = KeepStatus THEN @ ELSE rq.status,
                !.done   = @ \/ rq.status \in Terminal \ {"stopped"},
                !.eng    = IF rq.eng = KeepEngine THEN @ ELSE rq.eng,
                !.meta   = @ \cup rq.meta]

\* The fields an UpdateRunRequest changes.  completed_at is set with a terminal
\* status and never cleared.
Apply(row, rq) ==
    [row EXCEPT !.status = IF rq.status = KeepStatus THEN @ ELSE rq.status,
                !.done   = @ \/ rq.status \in Terminal,
                !.eng    = IF rq.eng = KeepEngine THEN @ ELSE rq.eng,
                !.meta   = @ \cup rq.meta]

\* Mutant of Merged: no COALESCE around engine_run_id.
MergedTakesNull(row, new) == [new EXCEPT !.owned = @ \/ row.owned]

\* The row INSERT ... ON CONFLICT (run_id) DO UPDATE leaves: user_id and
\* engine_run_id keep their value when the new one is NULL.
Merged(row, new) ==
    [new EXCEPT !.owned = @ \/ row.owned,
                !.eng   = IF @ = NoEngine THEN row.eng ELSE @]

Upserted(r, new) == IF pg[r] = NoRow THEN new ELSE Merged(pg[r], new)

\* The unique index on engine_run_id.
EngineTaken(r, new) ==
    /\ new.eng # NoEngine
    /\ \E s \in Runs \ {r} : pg[s] # NoRow /\ pg[s].eng = new.eng

-----------------------------------------------------------------------------
(***************************************************************************)
(* Control of one request.                                                 *)
(***************************************************************************)

Goto(p, label) == job' = [job EXCEPT ![p].pc = label]

Finish(p) == job' = [job EXCEPT ![p] = IdleJob]

\* The locals the rest of the request still needs.
At(p, label, k, rq) ==
    job' = [job EXCEPT ![p] = [IdleJob EXCEPT !.pc = label, !.kind = k, !.req = rq,
                              !.run = job[p].run, !.seen = job[p].seen]]

\* The request asks SimulationService.UpdateRun for rq.
StartUpdate(p, k, rq) == At(p, "svc_read", k, rq)

\* INSERT INTO simulation_runs (run_id) ... DO NOTHING, on behalf of k.
StartEnsure(p, k) == At(p, "ensure", k, NoRequest)

Begin(p) ==
    /\ job[p].pc = "idle"
    /\ started < MaxRequests
    /\ started' = started + 1

\* The persistence goroutine: the stages that touch the run's row, and what may
\* follow each.  A stage without data is skipped, a failed one is logged only.
Stages == {"series", "summary", "history", "candidates", "bundle", "upload"}

StagesAfter ==
    [series |-> {"summary", "history", "candidates"},
     summary |-> {"history", "candidates"}, history |-> {"candidates"},
     candidates |-> {"bundle", "upload"}, bundle |-> {"upload"}, upload |-> {}]

\* series, summary, candidates and upload make sure the row exists; history and bundle
\* add metadata through UpdateRun.  All but the candidates and the bundle of a
\* batch need the engine id the callback saw.
StartStage(p, k) ==
    /\ k \in {"candidates", "bundle"} \/ job[p].seen # NoEngine
    /\ IF k \in {"history", "bundle"}
       THEN StartUpdate(p, k, [NoRequest EXCEPT !.meta = {"history"}])
       ELSE StartEnsure(p, k)

Advance(p) ==
    \/ Finish(p)
    \/ \E k \in StagesAfter[job[p].kind] : StartStage(p, k)

\* UpdateRun returned an error: the handlers answer and end.
UpdateFailed(p) == IF job[p].kind \in Stages THEN Advance(p) ELSE Finish(p)

\* UpdateRun succeeded.  The create handler makes sure the row exists before it
\* stores the scenario; a terminal callback answers 200 and persists the results.
UpdateDone(p) ==
    \/ Finish(p)
    \/ job[p].kind = "create" /\ StartEnsure(p, "create")
    \/ /\ job[p].kind = "callback"
       /\ job[p].req.status \in Terminal
       /\ \E k \in Stages \ {"bundle"} : StartStage(p, k)
    \/ job[p].kind \in Stages /\ Advance(p)

\* The handler returns early, or the goroutine gives up: an error from Postgres,
\* Redis or the engine, a 4xx, a create without a scenario, a timeout.
EndEarly(p) ==
    /\ job[p].pc # "idle"
    /\ IF job[p].kind \in Stages THEN Advance(p) ELSE Finish(p)
    /\ UNCHANGED <<pg, cache, eidx, engRun, issued, deleted, started>>

-----------------------------------------------------------------------------
(***************************************************************************)
(* CreateRun and CreateRunForProject.                                      *)
(***************************************************************************)

\* SimulationService.CreateRun: the row, under a fresh uuid.
CreateInsert(p, r) ==
    /\ Begin(p)
    /\ r \notin issued
    /\ issued' = issued \cup {r}
    /\ pg' = [pg EXCEPT ![r] = Upserted(r, FreshRow)]
    /\ job' = [job EXCEPT ![p] = [IdleJob EXCEPT !.pc = "create_cache",
                                                 !.kind = "create", !.run = r]]
    /\ UNCHANGED <<cache, eidx, engRun, deleted>>

\* ... and its Redis copy.
CreateCache(p) ==
    /\ job[p].pc = "create_cache"
    /\ cache' = [cache EXCEPT ![job[p].run] = FreshRow]
    /\ Goto(p, "create_engine")
    /\ UNCHANGED <<pg, eidx, engRun, issued, deleted, started>>

\* The engine accepts the run under a new engine id; the handler stores the id
\* and the mode of the run.
EngineAccepts(p, e) ==
    /\ job[p].pc = "create_engine"
    /\ engRun[e] = NoRun
    /\ engRun' = [engRun EXCEPT ![e] = job[p].run]
    /\ StartUpdate(p, "create", [NoRequest EXCEPT !.eng = e, !.meta = {"mode"}])
    /\ UNCHANGED <<pg, cache, eidx, issued, deleted, started>>

\* CreateRunWithInput returns an error: the engine refused the run, or accepted
\* it and the answer was lost.  The handler marks the run failed.
EngineRefuses(p) ==
    /\ job[p].pc = "create_engine"
    /\ \/ UNCHANGED engRun
       \/ \E e \in EngineIds : /\ engRun[e] = NoRun
                               /\ engRun' = [engRun EXCEPT ![e] = job[p].run]
    /\ StartUpdate(p, "create_failed",
                   [NoRequest EXCEPT !.status = "failed",
                                     !.meta = {"engine_error"}])
    /\ UNCHANGED <<pg, cache, eidx, issued, deleted, started>>

-----------------------------------------------------------------------------
(***************************************************************************)
(* PUT /runs/:id.                                                          *)
(***************************************************************************)

\* Mutant of PutBegin: no 409.
PutUnguarded(p, r, rq) ==
    /\ Begin(p)
    /\ Read(r) # NoRow
    /\ job' = [job EXCEPT ![p] = [IdleJob EXCEPT !.pc = "svc_read",
                                    !.kind = "put", !.run = r, !.req = rq]]
    /\ UNCHANGED <<pg, cache, eidx, engRun, issued, deleted>>

\* The handler reads the run, answers 409 to a status the engine has to act on
\* when the run has no engine id, and calls StartRun or StopRun.
PutBegin(p, r, rq) ==
    /\ Begin(p)
    /\ Read(r) # NoRow
    /\ rq.status \in EngineStatuses => Read(r).eng # NoEngine
    /\ job' = [job EXCEPT ![p] = [IdleJob EXCEPT !.pc = "svc_read",
                                    !.kind = "put", !.run = r, !.req = rq]]
    /\ UNCHANGED <<pg, cache, eidx, engRun, issued, deleted>>

PutRequests ==
    {[status |-> s, eng |-> e, meta |-> {"client"}] :
        s \in PutStatuses, e \in PutEngineIds}

-----------------------------------------------------------------------------
(***************************************************************************)
(* The engine's callback for engine run e.  It may be late, repeated or    *)
(* overtaken by a later one; it names the run in the URL or, the legacy    *)
(* form, the engine run in the body.                                       *)
(***************************************************************************)
CallbackBegin(p, e, s) ==
    /\ Begin(p)
    /\ engRun[e] # NoRun
    /\ \E r \in {engRun[e], FindByEngine(e)} \ {NoRun} :
         /\ Read(r) # NoRow
         /\ job' = [job EXCEPT ![p] =
              [IdleJob EXCEPT !.pc = "svc_read", !.kind = "callback", !.run = r,
                 !.seen = Read(r).eng,
                 !.req = [status |-> s, eng |-> KeepEngine,
                          meta |-> Read(r).meta \cup {"callback"}]]]
    /\ UNCHANGED <<pg, cache, eidx, engRun, issued, deleted>>

-----------------------------------------------------------------------------
(***************************************************************************)
(* SimulationService.UpdateRun and RunRepository.Update: read the run,     *)
(* change the copy, read the run again for its engine id, upsert the whole *)
(* row, write the copy to Redis.                                           *)
(***************************************************************************)

\* Mutant of SvcRead: isValidStatus is not called.
SvcReadUnchecked(p) ==
    /\ job[p].pc = "svc_read"
    /\ LET row == Read(job[p].run)
       IN  IF row = NoRow
           THEN UpdateFailed(p)
           ELSE job' = [job EXCEPT ![p].pc = "repo_read",
                                   ![p].new = Apply(row, job[p].req)]
    /\ UNCHANGED <<pg, cache, eidx, engRun, issued, deleted, started>>

SvcRead(p) ==
    /\ job[p].pc = "svc_read"
    /\ LET row == Read(job[p].run)
           rq  == job[p].req
       IN  IF row = NoRow \/ rq.status = Unknown
           THEN UpdateFailed(p)
           ELSE job' = [job EXCEPT ![p].pc = "repo_read",
                                   ![p].new = Apply(row, rq)]
    /\ UNCHANGED <<pg, cache, eidx, engRun, issued, deleted, started>>

RepoRead(p) ==
    /\ job[p].pc = "repo_read"
    /\ LET row == Read(job[p].run)
       IN  IF row = NoRow
           THEN UpdateFailed(p)
           ELSE job' = [job EXCEPT ![p].pc = "upsert", ![p].old = row.eng]
    /\ UNCHANGED <<pg, cache, eidx, engRun, issued, deleted, started>>

Upsert(p) ==
    /\ job[p].pc = "upsert"
    /\ LET r   == job[p].run
           new == job[p].new
       IN  IF EngineTaken(r, new)
           THEN UpdateFailed(p) /\ UNCHANGED pg
           ELSE /\ pg' = [pg EXCEPT ![r] = Upserted(r, new)]
                /\ Goto(p, "cache_write")
    /\ UNCHANGED <<cache, eidx, engRun, issued, deleted, started>>

\* The index after r's engine id went from old to new.
Reindexed(r, old, new) ==
    IF new \in {NoEngine, old} THEN eidx
    ELSE [e \in EngineIds |-> CASE e = new -> r
                                [] e = old -> NoRun
                                [] OTHER   -> eidx[e]]

\* The pipeline reaches Redis whole, or breaks after its first command.
CacheWrite(p) ==
    /\ job[p].pc = "cache_write"
    /\ LET r   == job[p].run
           new == job[p].new
       IN  /\ cache' = [cache EXCEPT ![r] = new]
           /\ \/ eidx' = Reindexed(r, job[p].old, new.eng) /\ UpdateDone(p)
              \/ UNCHANGED eidx /\ UpdateFailed(p)
    /\ UNCHANGED <<pg, engRun, issued, deleted, started>>

\* INSERT INTO simulation_runs (run_id) VALUES (...) ON CONFLICT DO NOTHING.
EnsureRow(p) ==
    /\ job[p].pc = "ensure"
    /\ pg' = [pg EXCEPT ![job[p].run] = IF @ = NoRow THEN StubRow ELSE @]
    /\ IF job[p].kind \in Stages THEN Advance(p) ELSE Finish(p)
    /\ UNCHANGED <<cache, eidx, engRun, issued, deleted, started>>

-----------------------------------------------------------------------------
(***************************************************************************)
(* DELETE /runs/:id: Redis first, then Postgres.                           *)
(***************************************************************************)

DeleteBegin(p, r) ==
    /\ Begin(p)
    /\ Read(r) # NoRow
    /\ job' = [job EXCEPT ![p] = [IdleJob EXCEPT !.pc = "del_cache",
                                    !.kind = "delete", !.run = r,
                                    !.seen = Read(r).eng]]
    /\ UNCHANGED <<pg, cache, eidx, engRun, issued, deleted>>

\* Mutant of DeleteCache: Postgres first.
DeletePostgresFirst(p) ==
    /\ job[p].pc = "del_cache"
    /\ pg' = [pg EXCEPT ![job[p].run] = NoRow]
    /\ Goto(p, "del_row")
    /\ UNCHANGED <<cache, eidx, engRun, issued, deleted, started>>

DeleteCache(p) ==
    /\ job[p].pc = "del_cache"
    /\ cache' = [cache EXCEPT ![job[p].run] = NoRow]
    /\ \/ /\ eidx' = [e \in EngineIds |->
                         IF e = job[p].seen THEN NoRun ELSE eidx[e]]
          /\ Goto(p, "del_row")
       \/ UNCHANGED eidx /\ Finish(p)
    /\ UNCHANGED <<pg, engRun, issued, deleted, started>>

\* The handler answers 200.
DeleteRow(p) ==
    /\ job[p].pc = "del_row"
    /\ pg' = [pg EXCEPT ![job[p].run] = NoRow]
    /\ deleted' = deleted \cup {job[p].run}
    /\ Finish(p)
    /\ UNCHANGED <<cache, eidx, engRun, issued, started>>

-----------------------------------------------------------------------------
(***************************************************************************)
(* The environment.                                                        *)
(***************************************************************************)

\* The server restarts: every request in flight is gone.
Crash ==
    /\ \E p \in Procs : job[p].pc # "idle"
    /\ job' = [p \in Procs |-> IdleJob]
    /\ UNCHANGED <<pg, cache, eidx, engRun, issued, deleted, started>>

\* A Redis key reaches its time to live (runTTL, 7 days after its last write).
CacheExpire(r) ==
    /\ cache[r] # NoRow
    /\ cache' = [cache EXCEPT ![r] = NoRow]
    /\ UNCHANGED <<pg, eidx, engRun, issued, deleted, started, job>>

IndexExpire(e) ==
    /\ eidx[e] # NoRun
    /\ eidx' = [eidx EXCEPT ![e] = NoRun]
    /\ UNCHANGED <<pg, cache, engRun, issued, deleted, started, job>>

Serve(p) ==
    \/ \E r \in Runs : CreateInsert(p, r) \/ DeleteBegin(p, r)
    \/ \E r \in Runs, rq \in PutRequests : PutBegin(p, r, rq)
    \/ \E e \in EngineIds, s \in CallbackStatuses : CallbackBegin(p, e, s)

Handle(p) ==
    \/ CreateCache(p) \/ EngineRefuses(p)
    \/ \E e \in EngineIds : EngineAccepts(p, e)
    \/ SvcRead(p) \/ RepoRead(p) \/ Upsert(p) \/ CacheWrite(p) \/ EnsureRow(p)
    \/ DeleteCache(p) \/ DeleteRow(p)
    \/ EndEarly(p)

Environment ==
    \/ Crash
    \/ \E r \in Runs : CacheExpire(r)
    \/ \E e \in EngineIds : IndexExpire(e)

Next == (\E p \in Procs : Serve(p) \/ Handle(p)) \/ Environment

Spec == Init /\ [][Next]_vars

-----------------------------------------------------------------------------
(***************************************************************************)
(* Properties.                                                             *)
(***************************************************************************)

\* A run in a terminal state has its completion time, in the durable row, in
\* the Redis copy and in every copy a request is about to write: UpdateRun sets
\* completed_at with a terminal status, and no later write of a stale copy may
\* leave the one without the other.
Coherence ==
    /\ \A r \in Runs : /\ pg[r] # NoRow => Coherent(pg[r])
                       /\ cache[r] # NoRow => Coherent(cache[r])
    /\ \A p \in Procs : job[p].new # NoRow => Coherent(job[p].new)

\* migrations/0016: the table of runs keeps what must survive: each write
\* leaves a coherent row, keeps the owner and the engine mapping while the row
\* lives, and no two rows share an engine run.
T == INSTANCE RunTable WITH table <- pg
RunTableSpec == T!Spec

\* UpdateRun in handlers.go answers 409 to "running", "completed", "cancelled"
\* and "stopped" for a run the engine does not know.  The service reads the run
\* again after that check, so what the check established has to last until the
\* write: the row still has an engine id, or was deleted meanwhile.
LiveRunNeedsEngine ==
    \A p \in Procs :
        job[p].kind = "put" /\ job[p].req.status \in EngineStatuses =>
            \/ job[p].run \in deleted
            \/ pg[job[p].run] # NoRow /\ pg[job[p].run].eng # NoEngine

\* Postgres is written before Redis and cleared after it: whatever fails or
\* crashes on the way, a run whose id was handed out, or that Redis or its index
\* can answer with, has its durable row until a DELETE has answered 200.
DurableUntilDeleted ==
    \A r \in Runs :
        r \in issued \/ cache[r] # NoRow \/ (\E e \in EngineIds : eidx[e] = r)
            => r \in deleted \/ pg[r] # NoRow

\* handlers_callback.go "Preserve existing metadata and merge callback data",
\* simulation_service.go "Merge metadata if provided": a metadata key that was
\* stored stays until the run is deleted.
MetadataPreserved ==
    [][\A r \in Runs : pg[r] # NoRow /\ pg'[r] # NoRow =>
                           pg[r].meta \subseteq pg'[r].meta]_vars

\* simulation_service.go calls completed, failed, cancelled and stopped "terminal
\* states": a run does not leave them.
TerminalIsFinal ==
    [][\A r \in Runs : /\ pg[r] # NoRow /\ pg'[r] # NoRow
                       /\ pg[r].status \in Terminal
                       => pg'[r].status \in Terminal]_vars

\* handlers.go answers "run deleted successfully": once the requests that were
\* in flight on the run are over, a GET of it answers 404.
DeletedIsGone ==
    \A r \in deleted :
        (\A p \in Procs : job[p].run # r) => Read(r) = NoRow
=============================================================================

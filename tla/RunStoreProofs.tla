--------------------------- MODULE RunStoreProofs ---------------------------
(***************************************************************************)
(* Proofs about RunStore, for any number of runs, engine runs and          *)
(* concurrent requests.                                                    *)
(*                                                                         *)
(* The inductive invariant IInv is a part about the store (StoreInv) and a *)
(* part about each request in flight (Good), which depends on the store    *)
(* only through the ids handed out and the set Live: both only grow        *)
(* (Grows), so a step of one request cannot spoil another.                 *)
(***************************************************************************)
EXTENDS RunStore, TLAPS

\* Runs a request may drive in the engine, or that no longer matter.
Live == {r \in Runs : r \in deleted \/ (pg[r] # NoRow /\ pg[r].eng # NoEngine)}

\* A request in flight works on a run whose id was handed out, holds a coherent
\* row when it comes to write it, and drives the engine for a live run only.
Good(j, ids, live) ==
    /\ j = IdleJob \/ j.run \in ids
    /\ j.pc \in {"repo_read", "upsert", "cache_write"} => j.new # NoRow
    /\ j.new # NoRow => Coherent(j.new)
    /\ j.kind = "put" /\ j.req.status \in EngineStatuses => j.run \in live

StoreType ==
    /\ pg \in [Runs -> Row \cup {NoRow}]
    /\ cache \in [Runs -> Row \cup {NoRow}]
    /\ eidx \in [EngineIds -> Runs \cup {NoRun}]
    /\ engRun \in [EngineIds -> Runs \cup {NoRun}]
    /\ issued \subseteq Runs
    /\ deleted \subseteq issued
    /\ started \in 0 .. MaxRequests

RowsCoherent ==
    \A r \in Runs : /\ pg[r] # NoRow => Coherent(pg[r])
                    /\ cache[r] # NoRow => Coherent(cache[r])

\* Postgres, Redis and the engine know only runs whose id was handed out, and
\* Postgres has them until they are deleted.
IssuedInv ==
    /\ \A r \in Runs : pg[r] # NoRow \/ cache[r] # NoRow => r \in issued
    /\ \A e \in EngineIds : /\ eidx[e] # NoRun => eidx[e] \in issued
                            /\ engRun[e] # NoRun => engRun[e] \in issued
    /\ \A r \in issued : r \in deleted \/ pg[r] # NoRow

\* The unique index on engine_run_id.
UniqueEngine ==
    \A r, s \in Runs :
        /\ r # s
        /\ pg[r] # NoRow
        /\ pg[s] # NoRow
        /\ pg[r].eng = pg[s].eng
        => pg[r].eng = NoEngine

StoreInv == StoreType /\ RowsCoherent /\ IssuedInv /\ UniqueEngine

JobsInv == /\ job \in [Procs -> Job]
           /\ \A p \in Procs : Good(job[p], issued, Live)

IInv == StoreInv /\ JobsInv

Grows == issued \subseteq issued' /\ Live \subseteq Live'

\* Only p's request changes.
OnlyJob(p) == \A q \in Procs \ {p} : job'[q] = job[q]

\* Request p goes on to its next part, with no row in hand, or ends.
MovesOn(p) ==
    \E j \in Job :
        /\ job' = [job EXCEPT ![p] = j]
        /\ \/ j = IdleJob
           \/ /\ j.run = job[p].run
              /\ j.new = NoRow
              /\ j.pc \in {"svc_read", "ensure"}
              /\ j.kind # "put"

-----------------------------------------------------------------------------
(***************************************************************************)
(* Rows and jobs.                                                          *)
(***************************************************************************)

\* The rows the code builds from nothing are rows, and coherent.
LEMMA NewRows ==
    /\ FreshRow \in Row /\ Coherent(FreshRow) /\ FreshRow.eng = NoEngine
    /\ StubRow \in Row /\ Coherent(StubRow) /\ StubRow.eng = NoEngine
    /\ FreshRow # NoRow /\ StubRow # NoRow
<1>1. FreshRow \in Row /\ StubRow \in Row
      BY DEF FreshRow, StubRow, Row, Status, EngineRef, MetaKeys
<1>2. Coherent(FreshRow) /\ Coherent(StubRow)
      BY DEF FreshRow, StubRow, Coherent, Terminal
<1>3. FreshRow.eng = NoEngine /\ StubRow.eng = NoEngine
      BY DEF FreshRow, StubRow
<1> QED BY <1>1, <1>2, <1>3, RunRowAssumption

\* UpdateRun changes a coherent row into a coherent row, whatever the request.
LEMMA ApplyRow ==
    ASSUME NEW row \in Row, NEW rq \in Request, rq.status # Unknown,
           Coherent(row)
    PROVE  Apply(row, rq) \in Row /\ Coherent(Apply(row, rq))
BY DEF Apply, Row, Request, Coherent, Status, Terminal, KeepStatus, Unknown,
       EngineRef

\* The upsert of a coherent row leaves a coherent row.
LEMMA MergedRow ==
    ASSUME NEW row \in Row, NEW new \in Row, Coherent(new)
    PROVE  /\ Merged(row, new) \in Row
           /\ Coherent(Merged(row, new))
           /\ Merged(row, new).eng =
                IF new.eng = NoEngine THEN row.eng ELSE new.eng
           /\ row.owned => Merged(row, new).owned
BY DEF Merged, Row, Coherent

LEMMA IdleJobType == IdleJob \in Job
BY DEF IdleJob, Job, NoRequest, Request, KeepStatus, EngineRef, PCs, Kinds,
       MetaKeys

LEMMA UpsertedRow ==
    ASSUME StoreInv, NEW r \in Runs, NEW new \in Row, Coherent(new)
    PROVE  /\ Upserted(r, new) \in Row
           /\ Coherent(Upserted(r, new))
           /\ Upserted(r, new).eng =
                IF pg[r] # NoRow /\ new.eng = NoEngine THEN pg[r].eng ELSE new.eng
           /\ pg[r] # NoRow /\ pg[r].owned => Upserted(r, new).owned
<1>1. CASE pg[r] = NoRow
      BY <1>1 DEF Upserted
<1>2. CASE pg[r] # NoRow
      <2>1. pg[r] \in Row
            BY <1>2 DEF StoreInv, StoreType
      <2> QED BY <2>1, <1>2, MergedRow DEF Upserted
<1> QED BY <1>1, <1>2

-----------------------------------------------------------------------------
(***************************************************************************)
(* What a request does when one part of it is over.                        *)
(***************************************************************************)

LEMMA AtMoves ==
    ASSUME JobsInv, NEW p \in Procs, NEW k \in Kinds \ {"put"},
           NEW label \in {"svc_read", "ensure"}, NEW rq \in Request,
           At(p, label, k, rq)
    PROVE  MovesOn(p)
<1> DEFINE j == [IdleJob EXCEPT !.pc = label, !.kind = k, !.req = rq,
                                !.run = job[p].run, !.seen = job[p].seen]
<1>1. job[p] \in Job
      BY DEF JobsInv
<1>2. j \in Job
      BY <1>1, IdleJobType DEF Job, IdleJob, PCs
<1>3. j.run = job[p].run /\ j.new = NoRow /\ j.pc = label /\ j.kind = k
      BY DEF IdleJob
<1>4. job' = [job EXCEPT ![p] = j]
      BY DEF At
<1> QED BY <1>2, <1>3, <1>4 DEF MovesOn

LEMMA NoRequestType ==
    /\ NoRequest \in Request
    /\ \A M \in SUBSET MetaKeys : [NoRequest EXCEPT !.meta = M] \in Request
BY DEF NoRequest, Request, KeepStatus, EngineRef, MetaKeys

LEMMA FinishMoves == ASSUME NEW p \in Procs, Finish(p) PROVE MovesOn(p)
BY IdleJobType DEF Finish, MovesOn

LEMMA StageMoves ==
    ASSUME JobsInv, NEW p \in Procs, NEW k \in Stages, StartStage(p, k)
    PROVE  MovesOn(p)
<1>1. k \in Kinds \ {"put"}
      BY DEF Stages, Kinds
<1>2. [NoRequest EXCEPT !.meta = {"history"}] \in Request
      BY NoRequestType DEF MetaKeys
<1>3. CASE k \in {"history", "bundle"}
      BY <1>1, <1>2, <1>3, AtMoves DEF StartStage, StartUpdate
<1>4. CASE k \notin {"history", "bundle"}
      BY <1>1, <1>4, NoRequestType, AtMoves DEF StartStage, StartEnsure
<1> QED BY <1>3, <1>4

LEMMA AdvanceMoves ==
    ASSUME JobsInv, NEW p \in Procs, job[p].kind \in Stages, Advance(p)
    PROVE  MovesOn(p)
<1>1. CASE Finish(p)
      BY <1>1, FinishMoves
<1>2. ASSUME NEW k \in StagesAfter[job[p].kind], StartStage(p, k)
      PROVE  MovesOn(p)
      <2>1. k \in Stages
            BY DEF StagesAfter, Stages
      <2> QED BY <1>2, <2>1, StageMoves
<1> QED BY <1>1, <1>2 DEF Advance

LEMMA UpdateFailedMoves ==
    ASSUME JobsInv, NEW p \in Procs, UpdateFailed(p) PROVE MovesOn(p)
BY AdvanceMoves, FinishMoves DEF UpdateFailed

LEMMA UpdateDoneMoves ==
    ASSUME JobsInv, NEW p \in Procs, UpdateDone(p) PROVE MovesOn(p)
<1>1. CASE Finish(p)
      BY <1>1, FinishMoves
<1>2. CASE job[p].kind = "create" /\ StartEnsure(p, "create")
      BY <1>2, NoRequestType, AtMoves DEF StartEnsure, Kinds
<1>3. ASSUME NEW k \in Stages \ {"bundle"}, StartStage(p, k)
      PROVE  MovesOn(p)
      BY <1>3, StageMoves
<1>4. CASE job[p].kind \in Stages /\ Advance(p)
      BY <1>4, AdvanceMoves
<1> QED BY <1>1, <1>2, <1>3, <1>4 DEF UpdateDone

-----------------------------------------------------------------------------
(***************************************************************************)
(* How the jobs keep their invariant.                                      *)
(***************************************************************************)

LEMMA JobsStep ==
    ASSUME JobsInv, Grows, NEW p \in Procs, NEW j \in Job,
           job' = [job EXCEPT ![p] = j], Good(j, issued', Live')
    PROVE  JobsInv'
<1>1. job' \in [Procs -> Job]
      BY DEF JobsInv
<1>2. ASSUME NEW q \in Procs PROVE Good(job'[q], issued', Live')
      <2>1. CASE q = p
            BY <2>1 DEF JobsInv
      <2>2. CASE q # p
            <3>1. job'[q] = job[q] /\ Good(job[q], issued, Live)
                  BY <2>2 DEF JobsInv
            <3> QED BY <3>1 DEF Good, Grows
      <2> QED BY <2>1, <2>2
<1> QED BY <1>1, <1>2 DEF JobsInv

LEMMA JobsMoveOn ==
    ASSUME JobsInv, Grows, NEW p \in Procs, job[p] # IdleJob, MovesOn(p)
    PROVE  JobsInv'
<1>1. PICK j \in Job :
        /\ job' = [job EXCEPT ![p] = j]
        /\ \/ j = IdleJob
           \/ /\ j.run = job[p].run
              /\ j.new = NoRow
              /\ j.pc \in {"svc_read", "ensure"}
              /\ j.kind # "put"
      BY DEF MovesOn
<1>2. job[p].run \in issued'
      BY DEF JobsInv, Good, Grows
<1>3. Good(j, issued', Live')
      BY <1>1, <1>2 DEF Good, IdleJob
<1> QED BY <1>1, <1>3, JobsStep

LEMMA JobsUnchanged ==
    ASSUME JobsInv, Grows, UNCHANGED job PROVE JobsInv'
BY DEF JobsInv, Good, Grows

\* What the store invariant says of one run.
LEMMA ReadRow ==
    ASSUME StoreInv, NEW r \in Runs, Read(r) # NoRow
    PROVE  Read(r) \in Row /\ Coherent(Read(r)) /\ r \in issued
BY DEF StoreInv, StoreType, RowsCoherent, IssuedInv, Read

LEMMA StoreUnchanged ==
    ASSUME StoreInv, UNCHANGED <<pg, cache, eidx, engRun, issued, deleted>>,
           started' \in 0 .. MaxRequests
    PROVE  StoreInv' /\ Grows
BY DEF StoreInv, StoreType, RowsCoherent, IssuedInv, UniqueEngine, Grows, Live

-----------------------------------------------------------------------------
(***************************************************************************)
(* The steps that write one row of Postgres.                               *)
(***************************************************************************)

\* A row may take r's place when it is coherent, keeps r's engine id, and is
\* the only one with its own.
Fits(r, row) ==
    /\ row \in Row
    /\ Coherent(row)
    /\ pg[r] # NoRow /\ pg[r].eng # NoEngine => row.eng # NoEngine
    /\ row.eng # NoEngine =>
           \A s \in Runs \ {r} : pg[s] # NoRow => pg[s].eng # row.eng

LEMMA WriteRow ==
    ASSUME StoreInv, NEW r \in Runs, NEW row, Fits(r, row),
           pg' = [pg EXCEPT ![r] = row], issued' = issued \cup {r},
           UNCHANGED <<cache, eidx, engRun, deleted>>,
           started' \in 0 .. MaxRequests
    PROVE  StoreInv' /\ Grows
<1> USE DEF Fits
<1>1. row # NoRow
      BY RunRowAssumption
<1>2. \A s \in Runs : pg'[s] = IF s = r THEN row ELSE pg[s]
      BY DEF StoreInv, StoreType
<1>3. StoreType'
      BY DEF StoreInv, StoreType
<1>4. RowsCoherent'
      BY <1>2 DEF StoreInv, RowsCoherent
<1>5. IssuedInv'
      BY <1>1, <1>2, <1>3 DEF StoreInv, IssuedInv, StoreType
<1>6. UniqueEngine'
      BY <1>2 DEF StoreInv, UniqueEngine
<1>7. Grows
      BY <1>1, <1>2 DEF Grows, Live
<1> QED BY <1>3, <1>4, <1>5, <1>6, <1>7 DEF StoreInv

\* What the upsert of a row leaves fits, when the unique index allows it.
LEMMA UpsertFits ==
    ASSUME StoreInv, NEW r \in Runs, NEW new \in Row, Coherent(new),
           ~EngineTaken(r, new)
    PROVE  Fits(r, Upserted(r, new))
<1>1. Upserted(r, new) \in Row /\ Coherent(Upserted(r, new))
      BY UpsertedRow
<1>2. Upserted(r, new).eng =
        IF pg[r] # NoRow /\ new.eng = NoEngine THEN pg[r].eng ELSE new.eng
      BY UpsertedRow
<1>3. CASE new.eng # NoEngine
      BY <1>1, <1>2, <1>3 DEF Fits, EngineTaken
<1>4. CASE new.eng = NoEngine
      BY <1>1, <1>2, <1>4 DEF Fits, StoreInv, UniqueEngine
<1> QED BY <1>3, <1>4

\* The row INSERT ... ON CONFLICT DO NOTHING leaves fits.
LEMMA StubFits ==
    ASSUME StoreInv, NEW r \in Runs
    PROVE  Fits(r, IF pg[r] = NoRow THEN StubRow ELSE pg[r])
<1>1. CASE pg[r] = NoRow
      BY <1>1, NewRows DEF Fits
<1>2. CASE pg[r] # NoRow
      BY <1>2 DEF Fits, StoreInv, StoreType, RowsCoherent, UniqueEngine
<1> QED BY <1>1, <1>2

-----------------------------------------------------------------------------
(***************************************************************************)
(* The steps that write Redis or the engine only.                          *)
(***************************************************************************)

LEMMA WriteRedis ==
    ASSUME StoreInv, UNCHANGED <<pg, issued, deleted, started>>,
           cache' \in [Runs -> Row \cup {NoRow}],
           \A r \in Runs : cache'[r] # NoRow =>
                              Coherent(cache'[r]) /\ r \in issued,
           eidx' \in [EngineIds -> Runs \cup {NoRun}],
           \A e \in EngineIds : eidx'[e] # NoRun => eidx'[e] \in issued,
           engRun' \in [EngineIds -> Runs \cup {NoRun}],
           \A e \in EngineIds : engRun'[e] # NoRun => engRun'[e] \in issued
    PROVE  StoreInv' /\ Grows
<1>1. StoreType'
      BY DEF StoreInv, StoreType
<1>2. RowsCoherent'
      BY DEF StoreInv, RowsCoherent
<1>3. IssuedInv'
      BY DEF StoreInv, IssuedInv
<1>4. UniqueEngine'
      BY DEF StoreInv, UniqueEngine
<1>5. Grows
      BY DEF Grows, Live
<1> QED BY <1>1, <1>2, <1>3, <1>4, <1>5 DEF StoreInv

-----------------------------------------------------------------------------
(***************************************************************************)
(* One lemma per action.                                                   *)
(***************************************************************************)

\* The request p is in flight: it has a run that was handed out.
LEMMA InFlight ==
    ASSUME IInv, NEW p \in Procs, job[p].pc # "idle"
    PROVE  /\ job[p] \in Job
           /\ job[p] # IdleJob
           /\ job[p].run \in Runs
           /\ job[p].run \in issued
           /\ Good(job[p], issued, Live)
BY DEF IInv, JobsInv, Good, IdleJob, StoreInv, StoreType

\* A copy of p's job with other locals is a job.
LEMMA StartedType ==
    ASSUME IInv, NEW p \in Procs, Begin(p)
    PROVE  started' \in 0 .. MaxRequests /\ job[p] \in Job
BY RunStoreAssumption DEF Begin, IInv, StoreInv, StoreType, JobsInv

LEMMA InitOK == Init => IInv
<1> SUFFICES ASSUME Init PROVE IInv
    OBVIOUS
<1>1. StoreInv
      BY RunStoreAssumption
         DEF Init, StoreInv, StoreType, RowsCoherent, IssuedInv, UniqueEngine
<1>2. JobsInv
      BY IdleJobType DEF Init, JobsInv, Good, IdleJob
<1> QED BY <1>1, <1>2 DEF IInv

LEMMA CreateInsertOK ==
    ASSUME IInv, NEW p \in Procs, NEW r \in Runs, CreateInsert(p, r)
    PROVE  IInv'
<1> DEFINE j == [IdleJob EXCEPT !.pc = "create_cache", !.kind = "create",
                                !.run = r]
<1>1. ~EngineTaken(r, FreshRow)
      BY NewRows DEF EngineTaken
<1>2. Fits(r, Upserted(r, FreshRow))
      BY <1>1, NewRows, UpsertFits DEF IInv
<1>3. StoreInv' /\ Grows
      BY <1>2, StartedType, WriteRow DEF CreateInsert, IInv
<1>4. j \in Job
      BY IdleJobType DEF Job, PCs, Kinds
<1>5. Good(j, issued', Live')
      BY DEF CreateInsert, Good, IdleJob
<1>6. JobsInv'
      BY <1>3, <1>4, <1>5, JobsStep DEF CreateInsert, IInv
<1> QED BY <1>3, <1>6 DEF IInv

LEMMA CreateCacheOK ==
    ASSUME IInv, NEW p \in Procs, CreateCache(p) PROVE IInv'
<1> DEFINE j == [job[p] EXCEPT !.pc = "create_engine"]
<1>1. job[p] \in Job /\ job[p].run \in Runs /\ job[p].run \in issued
      BY InFlight DEF CreateCache
<1>2. StoreInv' /\ Grows
      BY <1>1, NewRows, WriteRedis
         DEF CreateCache, IInv, StoreInv, StoreType, RowsCoherent, IssuedInv
<1>3. j \in Job /\ job' = [job EXCEPT ![p] = j]
      BY <1>1 DEF CreateCache, Goto, Job, PCs
<1>4. Good(j, issued', Live')
      BY <1>1, <1>2, InFlight DEF CreateCache, Good, Grows, Job
<1>5. JobsInv'
      BY <1>2, <1>3, <1>4, JobsStep DEF IInv
<1> QED BY <1>2, <1>5 DEF IInv

LEMMA EngineAcceptsOK ==
    ASSUME IInv, NEW p \in Procs, NEW e \in EngineIds, EngineAccepts(p, e)
    PROVE  IInv'
<1> DEFINE rq == [NoRequest EXCEPT !.eng = e, !.meta = {"mode"}]
<1>1. job[p] # IdleJob /\ job[p].run \in Runs /\ job[p].run \in issued
      BY InFlight DEF EngineAccepts
<1>2. StoreInv' /\ Grows
      BY <1>1, WriteRedis
         DEF EngineAccepts, IInv, StoreInv, StoreType, RowsCoherent, IssuedInv
<1>3. rq \in Request /\ "create" \in Kinds \ {"put"}
      BY NoRequestType DEF Request, EngineRef, MetaKeys, Kinds
<1>4. MovesOn(p)
      BY <1>3, AtMoves DEF EngineAccepts, StartUpdate, IInv
<1> QED BY <1>1, <1>2, <1>4, JobsMoveOn DEF IInv

LEMMA EngineRefusesOK ==
    ASSUME IInv, NEW p \in Procs, EngineRefuses(p) PROVE IInv'
<1> DEFINE rq == [NoRequest EXCEPT !.status = "failed",
                                   !.meta = {"engine_error"}]
<1>1. job[p] # IdleJob /\ job[p].run \in Runs /\ job[p].run \in issued
      BY InFlight DEF EngineRefuses
<1>2. engRun' \in [EngineIds -> Runs \cup {NoRun}]
      BY <1>1 DEF EngineRefuses, IInv, StoreInv, StoreType
<1>3. \A e \in EngineIds : engRun'[e] # NoRun => engRun'[e] \in issued
      BY <1>1 DEF EngineRefuses, IInv, StoreInv, StoreType, IssuedInv
<1>4. StoreInv' /\ Grows
      BY <1>2, <1>3, WriteRedis
         DEF EngineRefuses, IInv, StoreInv, StoreType, RowsCoherent, IssuedInv
<1>5. rq \in Request /\ "create_failed" \in Kinds \ {"put"}
      BY NoRequestType DEF Request, Status, MetaKeys, Kinds
<1>6. MovesOn(p)
      BY <1>5, AtMoves DEF EngineRefuses, StartUpdate, IInv
<1> QED BY <1>1, <1>4, <1>6, JobsMoveOn DEF IInv

\* The requests of clients and of the engine are requests.
LEMMA RequestTypes ==
    /\ PutRequests \subseteq Request
    /\ \A s \in CallbackStatuses, M \in SUBSET MetaKeys :
           [status |-> s, eng |-> KeepEngine, meta |-> M \cup {"callback"}]
               \in Request
<1>1. ASSUME NEW s \in PutStatuses, NEW e \in PutEngineIds
      PROVE  [status |-> s, eng |-> e, meta |-> {"client"}] \in Request
      BY RunStoreAssumption DEF Request, MetaKeys, Unknown, KeepStatus
<1>2. ASSUME NEW s \in CallbackStatuses, NEW M \in SUBSET MetaKeys
      PROVE  [status |-> s, eng |-> KeepEngine, meta |-> M \cup {"callback"}]
                 \in Request
      BY RunStoreAssumption DEF Request, MetaKeys
<1> QED BY <1>1, <1>2 DEF PutRequests

\* The first step of a request only takes note of a run the store knows.
LEMMA BeginOK ==
    ASSUME IInv, NEW p \in Procs, NEW j \in Job, Begin(p),
           job' = [job EXCEPT ![p] = j],
           UNCHANGED <<pg, cache, eidx, engRun, issued, deleted>>,
           j.run \in issued, j.new = NoRow,
           j.pc \notin {"repo_read", "upsert", "cache_write"},
           j.kind = "put" /\ j.req.status \in EngineStatuses => j.run \in Live
    PROVE  IInv'
<1>1. StoreInv' /\ Grows
      BY StartedType, StoreUnchanged DEF IInv
<1>2. Good(j, issued', Live')
      BY <1>1 DEF Good, Grows
<1>3. JobsInv'
      BY <1>1, <1>2, JobsStep DEF IInv
<1> QED BY <1>1, <1>3 DEF IInv

LEMMA PutBeginOK ==
    ASSUME IInv, NEW p \in Procs, NEW r \in Runs, NEW rq \in PutRequests,
           PutBegin(p, r, rq)
    PROVE  IInv'
<1> DEFINE j == [IdleJob EXCEPT !.pc = "svc_read", !.kind = "put",
                                !.run = r, !.req = rq]
<1>1. r \in issued
      BY ReadRow DEF PutBegin, IInv
<1>2. j \in Job
      BY IdleJobType, RequestTypes DEF Job, PCs, Kinds
<1>3. rq.status \in EngineStatuses => r \in Live
      <2> SUFFICES ASSUME rq.status \in EngineStatuses PROVE r \in Live
          OBVIOUS
      <2>1. CASE pg[r] # NoRow
            BY <2>1 DEF PutBegin, Read, Live
      <2>2. CASE pg[r] = NoRow
            BY <2>2, <1>1 DEF Live, IInv, StoreInv, IssuedInv
      <2> QED BY <2>1, <2>2
<1>4. j.run = r /\ j.req = rq /\ j.pc = "svc_read" /\ j.new = NoRow
      BY DEF IdleJob
<1> QED BY <1>1, <1>2, <1>3, <1>4, BeginOK DEF PutBegin

LEMMA CallbackBeginOK ==
    ASSUME IInv, NEW p \in Procs, NEW e \in EngineIds,
           NEW s \in CallbackStatuses, CallbackBegin(p, e, s)
    PROVE  IInv'
<1>1. PICK r \in {engRun[e], FindByEngine(e)} \ {NoRun} :
        /\ Read(r) # NoRow
        /\ job' = [job EXCEPT ![p] =
             [IdleJob EXCEPT !.pc = "svc_read", !.kind = "callback", !.run = r,
                !.seen = Read(r).eng,
                !.req = [status |-> s, eng |-> KeepEngine,
                         meta |-> Read(r).meta \cup {"callback"}]]]
      BY DEF CallbackBegin
<1>2. r \in Runs
      <2>1. engRun[e] \in Runs \cup {NoRun} /\ eidx[e] \in Runs \cup {NoRun}
            BY DEF IInv, StoreInv, StoreType
      <2>2. FindByEngine(e) \in Runs \cup {NoRun}
            BY <2>1 DEF FindByEngine
      <2> QED BY <2>1, <2>2
<1>3. Read(r) \in Row /\ r \in issued
      BY <1>1, <1>2, ReadRow DEF IInv
<1> DEFINE rq == [status |-> s, eng |-> KeepEngine,
                  meta |-> Read(r).meta \cup {"callback"}]
           j  == [IdleJob EXCEPT !.pc = "svc_read", !.kind = "callback",
                                 !.run = r, !.seen = Read(r).eng, !.req = rq]
<1>4. rq \in Request /\ Read(r).eng \in EngineRef
      BY <1>3, RequestTypes DEF Row
<1>5. j \in Job
      BY <1>2, <1>4, IdleJobType DEF Job, PCs, Kinds
<1>6. j.run = r /\ j.kind = "callback" /\ j.pc = "svc_read" /\ j.new = NoRow
      BY DEF IdleJob
<1> QED BY <1>1, <1>3, <1>5, <1>6, BeginOK DEF CallbackBegin

LEMMA DeleteBeginOK ==
    ASSUME IInv, NEW p \in Procs, NEW r \in Runs, DeleteBegin(p, r)
    PROVE  IInv'
<1> DEFINE j == [IdleJob EXCEPT !.pc = "del_cache", !.kind = "delete",
                                !.run = r, !.seen = Read(r).eng]
<1>1. Read(r) \in Row /\ r \in issued
      BY ReadRow DEF DeleteBegin, IInv
<1>2. Read(r).eng \in EngineRef
      BY <1>1 DEF Row
<1>3. j \in Job
      BY <1>2, IdleJobType DEF Job, PCs, Kinds
<1>4. j.run = r /\ j.kind = "delete" /\ j.pc = "del_cache" /\ j.new = NoRow
      BY DEF IdleJob
<1> QED BY <1>1, <1>3, <1>4, BeginOK DEF DeleteBegin

\* A step that changes no store, and in which p's request moves on.
LEMMA OnlyMovesOK ==
    ASSUME IInv, NEW p \in Procs, job[p].pc # "idle", MovesOn(p),
           UNCHANGED <<pg, cache, eidx, engRun, issued, deleted, started>>
    PROVE  IInv'
<1>1. StoreInv' /\ Grows
      BY StoreUnchanged DEF IInv, StoreInv, StoreType
<1>2. JobsInv'
      BY <1>1, InFlight, JobsMoveOn DEF IInv
<1> QED BY <1>1, <1>2 DEF IInv

LEMMA EndEarlyOK ==
    ASSUME IInv, NEW p \in Procs, EndEarly(p) PROVE IInv'
<1>1. MovesOn(p)
      BY AdvanceMoves, FinishMoves DEF EndEarly, IInv
<1> QED BY <1>1, OnlyMovesOK DEF EndEarly

LEMMA SvcReadOK ==
    ASSUME IInv, NEW p \in Procs, SvcRead(p) PROVE IInv'
<1> DEFINE row == Read(job[p].run)
           rq  == job[p].req
<1>1. CASE row = NoRow \/ rq.status = Unknown
      <2>1. MovesOn(p)
            BY <1>1, UpdateFailedMoves DEF SvcRead, IInv
      <2> QED BY <2>1, OnlyMovesOK DEF SvcRead
<1>2. CASE ~(row = NoRow \/ rq.status = Unknown)
      <2> DEFINE j == [job[p] EXCEPT !.pc = "repo_read", !.new = Apply(row, rq)]
      <2>1. job[p] \in Job /\ job[p].run \in Runs /\ job[p].run \in issued
            BY InFlight DEF SvcRead
      <2>2. row \in Row /\ Coherent(row)
            BY <1>2, <2>1, ReadRow DEF IInv
      <2>3. Apply(row, rq) \in Row /\ Coherent(Apply(row, rq))
            BY <1>2, <2>1, <2>2, ApplyRow DEF Job
      <2>4. Apply(row, rq) # NoRow
            BY <2>3, RunRowAssumption
      <2>5. StoreInv' /\ Grows
            BY StoreUnchanged DEF SvcRead, IInv, StoreInv, StoreType
      <2>6. j \in Job
            BY <2>1, <2>3 DEF Job, PCs
      <2>7. /\ j.run = job[p].run /\ j.kind = job[p].kind
            /\ j.req = job[p].req /\ j.new = Apply(row, rq)
            BY <2>1 DEF Job
      <2>8. Good(j, issued', Live')
            BY <2>1, <2>3, <2>4, <2>5, <2>7, InFlight DEF Good, Grows, SvcRead
      <2>9. job' = [job EXCEPT ![p] = j]
            BY <1>2, <2>1 DEF SvcRead
      <2>10. JobsInv'
            BY <2>5, <2>6, <2>8, <2>9, JobsStep DEF IInv
      <2> QED BY <2>5, <2>10 DEF IInv
<1> QED BY <1>1, <1>2

LEMMA RepoReadOK ==
    ASSUME IInv, NEW p \in Procs, RepoRead(p) PROVE IInv'
<1> DEFINE row == Read(job[p].run)
<1>1. CASE row = NoRow
      <2>1. MovesOn(p)
            BY <1>1, UpdateFailedMoves DEF RepoRead, IInv
      <2> QED BY <2>1, OnlyMovesOK DEF RepoRead
<1>2. CASE row # NoRow
      <2> DEFINE j == [job[p] EXCEPT !.pc = "upsert", !.old = row.eng]
      <2>1. job[p] \in Job /\ job[p].run \in Runs /\ job[p].run \in issued
            BY InFlight DEF RepoRead
      <2>2. row.eng \in EngineRef
            BY <1>2, <2>1, ReadRow DEF IInv, Row
      <2>3. StoreInv' /\ Grows
            BY StoreUnchanged DEF RepoRead, IInv, StoreInv, StoreType
      <2>4. j \in Job
            BY <2>1, <2>2 DEF Job, PCs
      <2>5. /\ j.run = job[p].run /\ j.kind = job[p].kind
            /\ j.req = job[p].req /\ j.new = job[p].new
            BY <2>1 DEF Job
      <2>6. Good(j, issued', Live')
            BY <2>1, <2>3, <2>5, InFlight DEF Good, Grows, RepoRead
      <2>7. job' = [job EXCEPT ![p] = j]
            BY <1>2, <2>1 DEF RepoRead
      <2>8. JobsInv'
            BY <2>3, <2>4, <2>6, <2>7, JobsStep DEF IInv
      <2> QED BY <2>3, <2>8 DEF IInv
<1> QED BY <1>1, <1>2

\* The row in p's hands when it comes to write it.
LEMMA InHand ==
    ASSUME IInv, NEW p \in Procs, job[p].pc \in {"upsert", "cache_write"}
    PROVE  /\ job[p].run \in Runs /\ job[p].run \in issued
           /\ job[p].new \in Row /\ Coherent(job[p].new)
<1>1. job[p] \in Job /\ job[p].run \in Runs /\ Good(job[p], issued, Live)
      BY InFlight
<1> QED BY <1>1, InFlight DEF Good, Job

LEMMA UpsertOK ==
    ASSUME IInv, NEW p \in Procs, Upsert(p) PROVE IInv'
<1> DEFINE r   == job[p].run
           new == job[p].new
<1>1. r \in Runs /\ r \in issued /\ new \in Row /\ Coherent(new)
      BY InHand DEF Upsert
<1>2. CASE EngineTaken(r, new)
      <2>1. MovesOn(p)
            BY <1>2, UpdateFailedMoves DEF Upsert, IInv
      <2>2. UNCHANGED pg
            BY <1>2 DEF Upsert
      <2> QED BY <2>1, <2>2, OnlyMovesOK DEF Upsert
<1>3. CASE ~EngineTaken(r, new)
      <2> DEFINE j == [job[p] EXCEPT !.pc = "cache_write"]
      <2>1. Fits(r, Upserted(r, new))
            BY <1>1, <1>3, UpsertFits DEF IInv
      <2>2. /\ pg' = [pg EXCEPT ![r] = Upserted(r, new)]
            /\ job' = [job EXCEPT ![p].pc = "cache_write"]
            BY <1>3 DEF Upsert, Goto
      <2>3. issued' = issued \cup {r} /\ started' \in 0 .. MaxRequests
            BY <1>1 DEF Upsert, IInv, StoreInv, StoreType
      <2>4. StoreInv' /\ Grows
            BY <1>1, <2>1, <2>2, <2>3, WriteRow DEF Upsert, IInv
      <2>5. job[p] \in Job /\ Good(job[p], issued, Live)
            BY InFlight DEF Upsert
      <2>6. j \in Job /\ job' = [job EXCEPT ![p] = j]
            BY <2>2, <2>5 DEF Job, PCs
      <2>7. /\ j.run = job[p].run /\ j.kind = job[p].kind
            /\ j.req = job[p].req /\ j.new = job[p].new
            BY <2>5 DEF Job
      <2>8. new # NoRow
            BY <1>1, RunRowAssumption
      <2>9. Good(j, issued', Live')
            BY <1>1, <2>4, <2>5, <2>7, <2>8 DEF Good, Grows
      <2>10. JobsInv'
            BY <2>4, <2>6, <2>9, JobsStep DEF IInv
      <2> QED BY <2>4, <2>10 DEF IInv
<1> QED BY <1>2, <1>3

\* A request moves on and Redis or the index changes to rows of issued runs.
LEMMA RedisMovesOK ==
    ASSUME IInv, NEW p \in Procs, job[p].pc # "idle", MovesOn(p),
           UNCHANGED <<pg, engRun, issued, deleted, started>>,
           cache' \in [Runs -> Row \cup {NoRow}],
           \A r \in Runs : cache'[r] # NoRow =>
                              Coherent(cache'[r]) /\ r \in issued,
           eidx' \in [EngineIds -> Runs \cup {NoRun}],
           \A e \in EngineIds : eidx'[e] # NoRun => eidx'[e] \in issued
    PROVE  IInv'
<1>1. StoreInv' /\ Grows
      BY WriteRedis DEF IInv, StoreInv, StoreType, IssuedInv
<1>2. JobsInv'
      BY <1>1, InFlight, JobsMoveOn DEF IInv
<1> QED BY <1>1, <1>2 DEF IInv

LEMMA CacheWriteOK ==
    ASSUME IInv, NEW p \in Procs, CacheWrite(p) PROVE IInv'
<1> DEFINE r   == job[p].run
           new == job[p].new
<1>1. r \in Runs /\ r \in issued /\ new \in Row /\ Coherent(new)
      BY InHand DEF CacheWrite
<1>2. MovesOn(p)
      BY UpdateDoneMoves, UpdateFailedMoves DEF CacheWrite, IInv
<1>3. cache' = [cache EXCEPT ![r] = new]
      BY DEF CacheWrite
<1>4. /\ cache' \in [Runs -> Row \cup {NoRow}]
      /\ \A s \in Runs : cache'[s] # NoRow =>
                             Coherent(cache'[s]) /\ s \in issued
      BY <1>1, <1>3 DEF IInv, StoreInv, StoreType, RowsCoherent, IssuedInv
<1>5. eidx' = eidx \/ eidx' = Reindexed(r, job[p].old, new.eng)
      BY DEF CacheWrite
<1>6. /\ eidx' \in [EngineIds -> Runs \cup {NoRun}]
      /\ \A e \in EngineIds : eidx'[e] # NoRun => eidx'[e] \in issued
      BY <1>1, <1>5 DEF Reindexed, IInv, StoreInv, StoreType, IssuedInv
<1> QED BY <1>2, <1>4, <1>6, RedisMovesOK DEF CacheWrite

LEMMA EnsureRowOK ==
    ASSUME IInv, NEW p \in Procs, EnsureRow(p) PROVE IInv'
<1> DEFINE r   == job[p].run
           row == IF pg[r] = NoRow THEN StubRow ELSE pg[r]
<1>1. r \in Runs /\ r \in issued /\ job[p] # IdleJob
      BY InFlight DEF EnsureRow
<1>2. Fits(r, row)
      BY <1>1, StubFits DEF IInv
<1>3. pg' = [pg EXCEPT ![r] = row]
      BY <1>1 DEF EnsureRow, IInv, StoreInv, StoreType
<1>4. issued' = issued \cup {r} /\ started' \in 0 .. MaxRequests
      BY <1>1 DEF EnsureRow, IInv, StoreInv, StoreType
<1>5. StoreInv' /\ Grows
      BY <1>1, <1>2, <1>3, <1>4, WriteRow DEF EnsureRow, IInv
<1>6. MovesOn(p)
      BY AdvanceMoves, FinishMoves DEF EnsureRow, IInv
<1>7. JobsInv'
      BY <1>1, <1>5, <1>6, JobsMoveOn DEF IInv
<1> QED BY <1>5, <1>7 DEF IInv

LEMMA DeleteCacheOK ==
    ASSUME IInv, NEW p \in Procs, DeleteCache(p) PROVE IInv'
<1>1. job[p] \in Job /\ job[p].run \in Runs /\ job[p].run \in issued
      BY InFlight DEF DeleteCache
<1>2. /\ cache' \in [Runs -> Row \cup {NoRow}]
      /\ \A s \in Runs : cache'[s] # NoRow =>
                             Coherent(cache'[s]) /\ s \in issued
      BY <1>1 DEF DeleteCache, IInv, StoreInv, StoreType, RowsCoherent, IssuedInv
<1>3. /\ eidx' \in [EngineIds -> Runs \cup {NoRun}]
      /\ \A e \in EngineIds : eidx'[e] # NoRun => eidx'[e] \in issued
      BY DEF DeleteCache, IInv, StoreInv, StoreType, IssuedInv
<1>4. CASE Finish(p)
      BY <1>2, <1>3, <1>4, FinishMoves, RedisMovesOK DEF DeleteCache
<1>5. CASE Goto(p, "del_row")
      <2> DEFINE j == [job[p] EXCEPT !.pc = "del_row"]
      <2>1. StoreInv' /\ Grows
            BY <1>2, <1>3, WriteRedis
               DEF DeleteCache, IInv, StoreInv, StoreType, IssuedInv
      <2>2. j \in Job /\ job' = [job EXCEPT ![p] = j]
            BY <1>1, <1>5 DEF Goto, Job, PCs
      <2>3. Good(j, issued', Live')
            BY <1>1, <2>1, InFlight DEF Good, Grows, Job, DeleteCache
      <2>4. JobsInv'
            BY <2>1, <2>2, <2>3, JobsStep DEF IInv
      <2> QED BY <2>1, <2>4 DEF IInv
<1> QED BY <1>4, <1>5 DEF DeleteCache

LEMMA DeleteRowOK ==
    ASSUME IInv, NEW p \in Procs, DeleteRow(p) PROVE IInv'
<1> DEFINE r == job[p].run
<1>1. r \in Runs /\ r \in issued /\ job[p] # IdleJob
      BY InFlight DEF DeleteRow
<1>2. \A s \in Runs : pg'[s] = IF s = r THEN NoRow ELSE pg[s]
      BY DEF DeleteRow, IInv, StoreInv, StoreType
<1>3. StoreType'
      BY <1>1 DEF DeleteRow, IInv, StoreInv, StoreType
<1>4. RowsCoherent' /\ UniqueEngine'
      BY <1>2 DEF DeleteRow, IInv, StoreInv, RowsCoherent, UniqueEngine
<1>5. IssuedInv'
      BY <1>1, <1>2 DEF DeleteRow, IInv, StoreInv, StoreType, IssuedInv
<1>6. Grows
      BY <1>1, <1>2 DEF DeleteRow, Grows, Live
<1>7. StoreInv'
      BY <1>3, <1>4, <1>5 DEF StoreInv
<1>8. JobsInv'
      BY <1>1, <1>6, FinishMoves, JobsMoveOn DEF DeleteRow, IInv
<1> QED BY <1>7, <1>8 DEF IInv

LEMMA CrashOK == ASSUME IInv, Crash PROVE IInv'
<1>1. StoreInv' /\ Grows
      BY StoreUnchanged DEF Crash, IInv, StoreInv, StoreType
<1>2. JobsInv'
      BY IdleJobType DEF Crash, JobsInv, Good, IdleJob
<1> QED BY <1>1, <1>2 DEF IInv

LEMMA ExpireOK ==
    ASSUME IInv, \/ \E r \in Runs : CacheExpire(r)
                 \/ \E e \in EngineIds : IndexExpire(e)
    PROVE  IInv'
<1>1. /\ cache' \in [Runs -> Row \cup {NoRow}]
      /\ \A s \in Runs : cache'[s] # NoRow =>
                             Coherent(cache'[s]) /\ s \in issued
      BY DEF CacheExpire, IndexExpire, IInv, StoreInv, StoreType, RowsCoherent,
             IssuedInv
<1>2. /\ eidx' \in [EngineIds -> Runs \cup {NoRun}]
      /\ \A e \in EngineIds : eidx'[e] # NoRun => eidx'[e] \in issued
      BY DEF CacheExpire, IndexExpire, IInv, StoreInv, StoreType, IssuedInv
<1>3. StoreInv' /\ Grows
      BY <1>1, <1>2, WriteRedis
         DEF CacheExpire, IndexExpire, IInv, StoreInv, StoreType, IssuedInv
<1>4. JobsInv'
      BY <1>3, JobsUnchanged DEF CacheExpire, IndexExpire, IInv
<1> QED BY <1>3, <1>4 DEF IInv

-----------------------------------------------------------------------------
(***************************************************************************)
(* The invariants.                                                         *)
(***************************************************************************)

LEMMA NextOK == IInv /\ [Next]_vars => IInv'
<1> SUFFICES ASSUME IInv, [Next]_vars PROVE IInv'
    OBVIOUS
<1>1. ASSUME NEW p \in Procs, Serve(p) PROVE IInv'
      BY <1>1, CreateInsertOK, DeleteBeginOK, PutBeginOK, CallbackBeginOK
         DEF Serve
<1>2. ASSUME NEW p \in Procs, Handle(p) PROVE IInv'
      BY <1>2, CreateCacheOK, EngineRefusesOK, EngineAcceptsOK, SvcReadOK,
         RepoReadOK, UpsertOK, CacheWriteOK, EnsureRowOK, DeleteCacheOK,
         DeleteRowOK, EndEarlyOK
         DEF Handle
<1>3. ASSUME Environment PROVE IInv'
      BY <1>3, CrashOK, ExpireOK DEF Environment
<1>4. ASSUME UNCHANGED vars PROVE IInv'
      <2>1. StoreInv' /\ Grows
            BY <1>4, StoreUnchanged DEF vars, IInv, StoreInv, StoreType
      <2>2. JobsInv'
            BY <1>4, <2>1, JobsUnchanged DEF vars, IInv
      <2> QED BY <2>1, <2>2 DEF IInv
<1> QED BY <1>1, <1>2, <1>3, <1>4 DEF Next

LEMMA Invariance == Spec => []IInv
<1>1. Init => IInv
      BY InitOK
<1>2. IInv /\ [Next]_vars => IInv'
      BY NextOK
<1> QED BY <1>1, <1>2, PTL DEF Spec

\* The store and the requests in flight keep their types, whatever the
\* interleaving, the failures and the restarts.
THEOREM TypeCorrect == Spec => []TypeOK
<1>1. IInv => TypeOK
      BY DEF IInv, StoreInv, StoreType, JobsInv, TypeOK
<1> QED BY <1>1, Invariance, PTL

\* No write of a stale copy separates a terminal status from its completion
\* time, in Postgres, in Redis or in the row a request is about to write.
THEOREM CoherenceHolds == Spec => []Coherence
<1>1. IInv => Coherence
      BY DEF IInv, StoreInv, RowsCoherent, JobsInv, Good, Coherence
<1> QED BY <1>1, Invariance, PTL

\* What the 409 guard of UpdateRun established is still true whenever the
\* request may write.
THEOREM GuardLasts == Spec => []LiveRunNeedsEngine
<1>1. IInv => LiveRunNeedsEngine
      <2> SUFFICES ASSUME IInv, NEW p \in Procs, job[p].kind = "put",
                          job[p].req.status \in EngineStatuses
                   PROVE  \/ job[p].run \in deleted
                          \/ pg[job[p].run] # NoRow
                             /\ pg[job[p].run].eng # NoEngine
          BY DEF LiveRunNeedsEngine
      <2>1. job[p].run \in Live
            BY DEF IInv, JobsInv, Good
      <2> QED BY <2>1 DEF Live
<1> QED BY <1>1, Invariance, PTL

\* Postgres before Redis on the way in, Redis before Postgres on the way out: a
\* run stays durable until a DELETE has answered.
THEOREM DurableHolds == Spec => []DurableUntilDeleted
<1>1. IInv => DurableUntilDeleted
      BY RunStoreAssumption
         DEF IInv, StoreInv, StoreType, IssuedInv, DurableUntilDeleted
<1> QED BY <1>1, Invariance, PTL

-----------------------------------------------------------------------------
(***************************************************************************)
(* RunStore implements RunTable.                                           *)
(***************************************************************************)

LEMMA SameRow ==
    /\ T!Row = Row
    /\ \A row : T!Coherent(row) <=> Coherent(row)
BY DEF T!Row, Row, T!EngineRef, EngineRef, T!Status, Status, T!MetaKeys,
       MetaKeys, T!Coherent, Coherent, T!Terminal, Terminal

\* A step that writes one fitting row, and keeps its owner, is a step of the
\* table.
LEMMA WriteRefines ==
    ASSUME StoreInv, NEW r \in Runs, NEW row, Fits(r, row),
           pg[r] # NoRow /\ pg[r].owned => row.owned,
           pg' = [pg EXCEPT ![r] = row]
    PROVE  T!Next
<1>1. row # NoRow
      BY RunRowAssumption DEF Fits
<1>2. pg'[r] = row
      BY DEF StoreInv, StoreType
<1>3. T!Acceptable(r, row)
      BY SameRow DEF Fits, T!Acceptable, T!EngineFree
<1>4. CASE pg[r] = NoRow
      BY <1>2, <1>3, <1>4 DEF T!Next, T!Insert, T!OnlyWrites
<1>5. CASE pg[r] # NoRow
      BY <1>2, <1>3, <1>5 DEF T!Next, T!Overwrite, T!OnlyWrites, Fits
<1> QED BY <1>4, <1>5

LEMMA StepRefines == IInv /\ [Next]_vars => [T!Next]_pg
<1> SUFFICES ASSUME IInv, [Next]_vars, pg' # pg PROVE T!Next
    OBVIOUS
<1>1. ASSUME NEW p \in Procs, NEW r \in Runs, CreateInsert(p, r) PROVE T!Next
      <2>1. ~EngineTaken(r, FreshRow)
            BY NewRows DEF EngineTaken
      <2>2. Fits(r, Upserted(r, FreshRow))
            BY <2>1, NewRows, UpsertFits DEF IInv
      <2>3. pg[r] # NoRow /\ pg[r].owned => Upserted(r, FreshRow).owned
            BY NewRows, UpsertedRow DEF IInv
      <2> QED BY <1>1, <2>2, <2>3, WriteRefines DEF CreateInsert, IInv
<1>2. ASSUME NEW p \in Procs, Upsert(p) PROVE T!Next
      <2> DEFINE r   == job[p].run
                 new == job[p].new
      <2>1. r \in Runs /\ new \in Row /\ Coherent(new)
            BY <1>2, InHand DEF Upsert
      <2>2. ~EngineTaken(r, new) /\ pg' = [pg EXCEPT ![r] = Upserted(r, new)]
            BY <1>2 DEF Upsert
      <2>3. Fits(r, Upserted(r, new))
            BY <2>1, <2>2, UpsertFits DEF IInv
      <2>4. pg[r] # NoRow /\ pg[r].owned => Upserted(r, new).owned
            BY <2>1, UpsertedRow DEF IInv
      <2> QED BY <2>1, <2>2, <2>3, <2>4, WriteRefines DEF IInv
<1>3. ASSUME NEW p \in Procs, EnsureRow(p) PROVE T!Next
      <2> DEFINE r   == job[p].run
                 row == IF pg[r] = NoRow THEN StubRow ELSE pg[r]
      <2>1. r \in Runs
            BY <1>3, InFlight DEF EnsureRow
      <2>2. Fits(r, row)
            BY <2>1, StubFits DEF IInv
      <2>3. pg' = [pg EXCEPT ![r] = row]
            BY <1>3, <2>1 DEF EnsureRow, IInv, StoreInv, StoreType
      <2>4. pg[r] # NoRow /\ pg[r].owned => row.owned
            OBVIOUS
      <2> QED BY <2>1, <2>2, <2>3, <2>4, WriteRefines DEF IInv
<1>4. ASSUME NEW p \in Procs, DeleteRow(p) PROVE T!Next
      <2>1. job[p].run \in Runs /\ pg' = [pg EXCEPT ![job[p].run] = NoRow]
            BY <1>4, InFlight DEF DeleteRow
      <2>2. pg[job[p].run] # NoRow
            BY <2>1 DEF IInv, StoreInv, StoreType
      <2> QED BY <2>1, <2>2 DEF T!Next, T!Remove, T!OnlyWrites
<1>5. ASSUME NEW p \in Procs, Serve(p) PROVE T!Next
      BY <1>1, <1>5 DEF Serve, DeleteBegin, PutBegin, CallbackBegin
<1>6. ASSUME NEW p \in Procs, Handle(p) PROVE T!Next
      BY <1>2, <1>3, <1>4, <1>6
         DEF Handle, CreateCache, EngineRefuses, EngineAccepts, SvcRead,
             RepoRead, CacheWrite, DeleteCache, EndEarly
<1>7. ~Environment /\ ~UNCHANGED vars
      BY DEF Environment, Crash, CacheExpire, IndexExpire, vars
<1> QED BY <1>5, <1>6, <1>7 DEF Next

\* The Postgres table of runs, as all handlers together write it, keeps what
\* migrations/0016 asks for.
THEOREM Refinement == Spec => RunTableSpec
<1>1. Init => T!Init
      BY DEF Init, T!Init
<1>2. IInv /\ [Next]_vars => [T!Next]_pg
      BY StepRefines
<1> QED BY <1>1, <1>2, Invariance, PTL DEF Spec, RunTableSpec, T!Spec
=============================================================================

-------------------------- MODULE RunResultsProofs --------------------------
(***************************************************************************)
(* Proofs about RunResults, for any number of goroutines, candidates and   *)
(* callbacks.                                                              *)
(***************************************************************************)
EXTENDS RunResults, FiniteSetTheorems, TLAPS

\* A job that is about to store the best candidate has one.
SoundJob == {j \in Job : j.pc = "best_row" => j.best # NoCand}

\* TypeOK without the bound on series.
Types ==
    /\ row \in BOOLEAN
    /\ summary \in Summary
    /\ cand \in [Cands \cup {Self} -> CandRow]
    /\ series \in Nat
    /\ s3best \in Yaml
    /\ s3own \subseteq Cands
    /\ outcome \in Batches
    /\ creating \in BOOLEAN
    /\ deleted \in BOOLEAN
    /\ accepted \in 0 .. MaxCallbacks
    /\ job \in [Procs -> SoundJob]

LEMMA IdleJobType == IdleJob \in SoundJob
BY DEF IdleJob, SoundJob, Job, NoCands, CandRow, PCs, Yaml

LEMMA NoCandsType == NoCands \in [Cands \cup {Self} -> CandRow]
BY DEF NoCands, CandRow

LEMMA TypesInit == Init => Types
<1> SUFFICES ASSUME Init PROVE Types
  OBVIOUS
<1>1. summary \in Summary
  BY DEF Init, NoSummary, Summary, Yaml
<1>2. job \in [Procs -> SoundJob] /\ cand \in [Cands \cup {Self} -> CandRow]
  BY IdleJobType, NoCandsType DEF Init
<1>3. s3best \in Yaml /\ accepted \in 0 .. MaxCallbacks
  BY RunResultsAssumption DEF Init, Yaml
<1> QED BY <1>1, <1>2, <1>3 DEF Init, Types

LEMMA JobType ==
    ASSUME Types, NEW p \in Procs, NEW j \in SoundJob, job' = [job EXCEPT ![p] = j]
    PROVE  job' \in [Procs -> SoundJob]
BY DEF Types

LEMMA GotoType ==
    ASSUME Types, NEW p \in Procs, NEW label \in PCs \ {"best_row"}, Goto(p, label)
    PROVE  job' \in [Procs -> SoundJob]
<1> DEFINE j == [job[p] EXCEPT !.pc = label]
<1>1. job[p] \in Job
  BY DEF Types, SoundJob
<1>2. j \in SoundJob
  BY <1>1 DEF SoundJob, Job
<1>3. job' = [job EXCEPT ![p] = j]
  BY DEF Goto
<1> QED BY <1>2, <1>3, JobType

LEMMA OuterType ==
    ASSUME Types, NEW p \in Procs, Outer(p)
    PROVE  job' \in [Procs -> SoundJob]
<1>1. [IdleJob EXCEPT !.pc = "upload"] \in SoundJob
  BY IdleJobType DEF SoundJob, Job, PCs
<1> QED BY <1>1, IdleJobType, JobType DEF Outer

LEMMA TypesNext == Types /\ [Next]_vars => Types'
<1> SUFFICES ASSUME Types, [Next]_vars PROVE Types'
  OBVIOUS
<1> USE RunResultsAssumption
<1>1. CASE CreateStores
  BY <1>1 DEF CreateStores, s3, Types, Summary, Yaml
<1>2. CASE CreateFails
  BY <1>2 DEF CreateFails, s3, db, Types
<1>3. CASE Delete
  BY <1>3, NoCandsType DEF Delete, s3, NoSummary, Types, Summary, Yaml
<1>4. CASE Crash
  BY <1>4, IdleJobType DEF Crash, db, s3, Types
<1>5. ASSUME NEW p \in Procs, Callback(p) PROVE Types'
  <2>1. job' \in [Procs -> SoundJob]
    <3> DEFINE J(best, top) == [IdleJob EXCEPT !.pc = "get_run", !.best = best, !.top = top,
                                               !.batch = Ids(best, top) # {}]
    <3>1. PICK best \in {outcome.best, NoCand}, top \in {outcome.top, {}} :
            \/ job' = [job EXCEPT ![p] = J(best, top)]
            \/ job' = [job EXCEPT ![p] = [J(best, top) EXCEPT !.pc = "ensure"]]
            \/ job' = job
      BY <1>5 DEF Callback
    <3>2. outcome \in [best : Cands \cup {NoCand}, top : SUBSET Cands]
      BY DEF Types
    <3>3. best \in Cands \cup {NoCand} /\ top \in SUBSET Cands
      BY <3>2
    <3>4. J(best, top) \in SoundJob /\ [J(best, top) EXCEPT !.pc = "ensure"] \in SoundJob
      <4>1. (Ids(best, top) # {}) \in BOOLEAN
        OBVIOUS
      <4>2. \A b \in BOOLEAN, pc \in {"get_run", "ensure"} :
              [IdleJob EXCEPT !.pc = pc, !.best = best, !.top = top, !.batch = b] \in SoundJob
        BY <3>3, IdleJobType DEF SoundJob, Job, PCs
      <4> QED BY <4>1, <4>2
    <3> QED BY <3>1, <3>4, JobType DEF Types
  <2> QED BY <1>5, <2>1 DEF Callback, db, s3, Types
<1>6. ASSUME NEW p \in Procs, Persist(p) PROVE Types'
  <2>1. CASE GetRun(p)
    <3>1. job' \in [Procs -> SoundJob]
      <4> DEFINE j == [job[p] EXCEPT !.pc = "export",
                                     !.best = IF @ = NoCand THEN outcome.best ELSE @,
                                     !.top = IF @ = {} THEN outcome.top ELSE @]
      <4>1. outcome \in [best : Cands \cup {NoCand}, top : SUBSET Cands] /\ job[p] \in Job
        BY DEF Types, SoundJob
      <4>2. j \in SoundJob
        BY <4>1 DEF SoundJob, Job, PCs
      <4>3. CASE job' = [job EXCEPT ![p] = j]
        BY <4>2, <4>3, JobType
      <4>4. CASE Goto(p, "export")
        BY <4>4, GotoType DEF PCs
      <4> QED BY <2>1, <4>3, <4>4 DEF GetRun
    <3> QED BY <2>1, <3>1 DEF GetRun, db, s3, env, Types
  <2>2. CASE Export(p)
    <3>1. job' \in [Procs -> SoundJob]
      <4>1. CASE Outer(p)
        BY <4>1, OuterType
      <4>2. CASE Goto(p, "series")
        BY <4>2, GotoType DEF PCs
      <4>3. ASSUME NEW y \in ParentYamls,
                   job' = [job EXCEPT ![p].pc = "series", ![p].exported = TRUE, ![p].yaml = y]
            PROVE  job' \in [Procs -> SoundJob]
        <5> DEFINE j == [job[p] EXCEPT !.pc = "series", !.exported = TRUE, !.yaml = y]
        <5>1. job[p] \in Job /\ y \in Yaml
          BY DEF Types, SoundJob, Yaml
        <5>2. j \in SoundJob
          BY <5>1 DEF SoundJob, Job, PCs
        <5>3. job' = [job EXCEPT ![p] = j]
          BY <4>3
        <5> QED BY <5>2, <5>3, JobType
      <4> QED BY <2>2, <4>1, <4>2, <4>3 DEF Export
    <3> QED BY <2>2, <3>1 DEF Export, db, s3, env, Types
  <2>3. CASE Series(p)
    <3>1. job' \in [Procs -> SoundJob]
      BY <2>3, GotoType DEF Series, PCs
    <3>2. row' \in BOOLEAN
      BY <2>3 DEF Series, Types
    <3>3. series' \in Nat
      BY <2>3 DEF Series, Types
    <3>4. UNCHANGED <<summary, cand, s3best, s3own, outcome, creating, deleted, accepted>>
      BY <2>3 DEF Series, s3, env
    <3> QED BY <3>1, <3>2, <3>3, <3>4 DEF Types
  <2>4. CASE StoreSummary(p)
    <3>1. job' \in [Procs -> SoundJob]
      BY <2>4, GotoType DEF StoreSummary, UpsertSummary, PCs
    <3>2. summary' \in Summary
      BY <2>4 DEF StoreSummary, UpsertSummary, Types, Summary, SoundJob, Job
    <3> QED BY <2>4, <3>1, <3>2 DEF StoreSummary, UpsertSummary, s3, env, Types
  <2>5. CASE EnsureRow(p)
    <3>1. job' \in [Procs -> SoundJob]
      <4>1. CASE Outer(p)
        BY <4>1, OuterType
      <4>2. ASSUME NEW pc \in {"each", "candidates"},
                   job' = [job EXCEPT ![p].todo = Ids(job[p].best, job[p].top), ![p].pc = pc]
            PROVE  job' \in [Procs -> SoundJob]
        <5> DEFINE j == [job[p] EXCEPT !.todo = Ids(job[p].best, job[p].top), !.pc = pc]
        <5>1. job[p] \in Job
          BY DEF Types, SoundJob
        <5>2. Ids(job[p].best, job[p].top) \in SUBSET Cands
          BY <5>1 DEF Job, Ids
        <5>3. j \in SoundJob
          BY <5>1, <5>2 DEF SoundJob, Job, PCs
        <5>4. job' = [job EXCEPT ![p] = j]
          BY <4>2
        <5> QED BY <5>3, <5>4, JobType
      <4> QED BY <2>5, <4>1, <4>2 DEF EnsureRow
    <3> QED BY <2>5, <3>1 DEF EnsureRow, s3, env, Types
  <2>6. CASE Each(p)
    <3>1. job' \in [Procs -> SoundJob]
      <4>1. job[p] \in Job
        BY DEF Types, SoundJob
      <4>2. PICK c \in job[p].todo :
              \/ c = job[p].best /\ job' = [job EXCEPT ![p].todo = @ \ {c}, ![p].pc = "best_row",
                                                       ![p].recs[c] = "best"]
              \/ \E rec \in {"own", "empty", "best"} :
                   job' = [job EXCEPT ![p].todo = @ \ {c}, ![p].recs[c] = rec]
              \/ job' = [job EXCEPT ![p].todo = @ \ {c}]
        BY <2>6 DEF Each
      <4>3. c \in Cands /\ job[p].pc = "each"
        BY <2>6, <4>1 DEF Each, Job
      <4>4. CASE c = job[p].best /\ job' = [job EXCEPT ![p].todo = @ \ {c}, ![p].pc = "best_row",
                                                       ![p].recs[c] = "best"]
        <5> DEFINE j == [job[p] EXCEPT !.todo = @ \ {c}, !.pc = "best_row", !.recs[c] = "best"]
        <5>1. j \in SoundJob
          BY <4>1, <4>3, <4>4, RunResultsAssumption DEF SoundJob, Job, PCs, CandRow
        <5>2. job' = [job EXCEPT ![p] = j]
          BY <4>4
        <5> QED BY <5>1, <5>2, JobType
      <4>5. ASSUME NEW rec \in {"own", "empty", "best"},
                   job' = [job EXCEPT ![p].todo = @ \ {c}, ![p].recs[c] = rec]
            PROVE  job' \in [Procs -> SoundJob]
        <5> DEFINE j == [job[p] EXCEPT !.todo = @ \ {c}, !.recs[c] = rec]
        <5>1. j \in SoundJob
          BY <4>1, <4>3 DEF SoundJob, Job, PCs, CandRow
        <5>2. job' = [job EXCEPT ![p] = j]
          BY <4>5
        <5> QED BY <5>1, <5>2, JobType
      <4>6. CASE job' = [job EXCEPT ![p].todo = @ \ {c}]
        <5> DEFINE j == [job[p] EXCEPT !.todo = @ \ {c}]
        <5>1. j \in SoundJob
          BY <4>1, <4>3 DEF SoundJob, Job, PCs
        <5>2. job' = [job EXCEPT ![p] = j]
          BY <4>6
        <5> QED BY <5>1, <5>2, JobType
      <4> QED BY <4>2, <4>4, <4>5, <4>6
    <3>2. s3best' \in Yaml /\ s3own' \subseteq Cands
      BY <2>6 DEF Each, Types, Yaml, SoundJob, Job, s3
    <3> QED BY <2>6, <3>1, <3>2 DEF Each, db, env, Types
  <2>7. CASE BestRow(p)
    <3>1. summary' \in Summary
      <4>1. job[p].best \in Yaml
        BY <2>7 DEF BestRow, Types, SoundJob, Job, Yaml
      <4> QED BY <2>7, <4>1 DEF BestRow, Types, Summary, UpsertScenario
    <3>2. job' \in [Procs -> SoundJob]
      BY <2>7, GotoType DEF BestRow, PCs
    <3> QED BY <2>7, <3>1, <3>2 DEF BestRow, s3, env, Types
  <2>8. CASE BatchCandidates(p)
    <3>1. job' \in [Procs -> SoundJob]
      BY <2>8, OuterType DEF BatchCandidates
    <3>2. cand' \in [Cands \cup {Self} -> CandRow]
      BY <2>8 DEF BatchCandidates, CreateMany, Types, SoundJob, Job
    <3> QED BY <2>8, <3>1, <3>2 DEF BatchCandidates, s3, env, Types
  <2>9. CASE OwnCandidates(p)
    <3>1. job' \in [Procs -> SoundJob]
      BY <2>9, OuterType DEF OwnCandidates
    <3>2. cand' \in [Cands \cup {Self} -> CandRow]
      BY <2>9 DEF OwnCandidates, CreateMany, Types, CandRow
    <3>3. s3own' \subseteq Cands
      BY <2>9 DEF OwnCandidates, Types
    <3> QED BY <2>9, <3>1, <3>2, <3>3 DEF OwnCandidates, env, Types
  <2>10. CASE Upload(p)
    <3>1. job' \in [Procs -> SoundJob]
      BY <2>10, IdleJobType, GotoType, JobType DEF Upload, Finish, PCs
    <3> QED BY <2>10, <3>1 DEF Upload, db, env, Types, Yaml
  <2>11. CASE UploadRow(p)
    <3>1. job' \in [Procs -> SoundJob]
      BY <2>11, IdleJobType, JobType DEF UploadRow, Finish
    <3>2. summary' \in Summary
      BY <2>11 DEF UploadRow, Types, UpsertScenario, Summary, Yaml
    <3> QED BY <2>11, <3>1, <3>2 DEF UploadRow, s3, env, Types
  <2> QED BY <1>6, <2>1, <2>2, <2>3, <2>4, <2>5, <2>6, <2>7, <2>8, <2>9, <2>10, <2>11 DEF Persist
<1>7. CASE UNCHANGED vars
  BY <1>7 DEF vars, db, s3, env, Types
<1> QED BY <1>1, <1>2, <1>3, <1>4, <1>5, <1>6, <1>7 DEF Next

-----------------------------------------------------------------------------
(***************************************************************************)
(* What a step does to the goroutines.                                     *)
(***************************************************************************)

\* Before the points are inserted.
EarlyPCs == {"get_run", "export", "series"}

OnlyJob(p) == \A q \in Procs \ {p} : job'[q] = job[q]

LEMMA GotoStep ==
    ASSUME Types, NEW p \in Procs, NEW label, Goto(p, label)
    PROVE  /\ OnlyJob(p)
           /\ job'[p].pc = label
           /\ job'[p].best = job[p].best /\ job'[p].top = job[p].top
           /\ job'[p].todo = job[p].todo /\ job'[p].recs = job[p].recs
<1>1. job'[p] = [job[p] EXCEPT !.pc = label] /\ OnlyJob(p)
  BY DEF Goto, Types, OnlyJob
<1>2. job[p] \in Job
  BY DEF Types, SoundJob
<1> QED BY <1>1, <1>2 DEF Job

\* The goroutine has no candidates at hand.
Fresh(p) ==
    /\ job'[p].best = NoCand /\ job'[p].top = {} /\ job'[p].todo = {} /\ job'[p].recs = NoCands

LEMMA OuterStep ==
    ASSUME Types, NEW p \in Procs, Outer(p)
    PROVE  OnlyJob(p) /\ Fresh(p) /\ job'[p].pc \in {"idle", "upload"}
<1>1. job'[p] \in {IdleJob, [IdleJob EXCEPT !.pc = "upload"]} /\ OnlyJob(p)
  BY DEF Outer, Types, OnlyJob
<1> QED BY <1>1 DEF IdleJob, Fresh

LEMMA FinishStep ==
    ASSUME Types, NEW p \in Procs, Finish(p)
    PROVE  OnlyJob(p) /\ Fresh(p) /\ job'[p].pc = "idle"
BY DEF Finish, Types, OnlyJob, IdleJob, Fresh

\* A callback's goroutine, unless it returns at once, has the ids the callback carried.
LEMMA CallbackStep ==
    ASSUME Types, NEW p \in Procs, Callback(p), job' # job
    PROVE  /\ OnlyJob(p)
           /\ job'[p].best \in {outcome.best, NoCand} /\ job'[p].top \in {outcome.top, {}}
           /\ job'[p].todo = {} /\ job'[p].recs = NoCands
           /\ job'[p].pc \in {"get_run", "ensure"}
<1> DEFINE J(best, top) == [IdleJob EXCEPT !.pc = "get_run", !.best = best, !.top = top,
                                           !.batch = Ids(best, top) # {}]
<1>1. PICK best \in {outcome.best, NoCand}, top \in {outcome.top, {}} :
        \/ job' = [job EXCEPT ![p] = J(best, top)]
        \/ job' = [job EXCEPT ![p] = [J(best, top) EXCEPT !.pc = "ensure"]]
  BY DEF Callback
<1>2. job'[p] \in {J(best, top), [J(best, top) EXCEPT !.pc = "ensure"]} /\ OnlyJob(p)
  BY <1>1 DEF Types, OnlyJob
<1> QED BY <1>2 DEF IdleJob

\* GetRun, Export and EnsureRow fill in what the goroutine goes by.
LEMMA FillStep ==
    ASSUME Types, NEW p \in Procs, GetRun(p) \/ Export(p) \/ EnsureRow(p)
    PROVE  /\ OnlyJob(p)
           /\ \/ Fresh(p) /\ job'[p].pc \in {"idle", "upload"}
              \/ /\ job'[p].best \in {job[p].best, outcome.best}
                 /\ job'[p].top \in {job[p].top, outcome.top}
                 /\ job'[p].todo \in {job[p].todo, Ids(job[p].best, job[p].top)}
                 /\ job'[p].recs = job[p].recs
                 /\ job'[p].pc \in {"export", "series", "each", "candidates"}
                 /\ job'[p].pc \in EarlyPCs => job[p].pc \in EarlyPCs
<1>1. job[p] \in Job
  BY DEF Types, SoundJob
<1>2. CASE GetRun(p)
  <2>1. CASE Goto(p, "export")
    BY <1>2, <2>1, GotoStep DEF GetRun, EarlyPCs
  <2> DEFINE j == [job[p] EXCEPT !.pc = "export",
                                 !.best = IF @ = NoCand THEN outcome.best ELSE @,
                                 !.top = IF @ = {} THEN outcome.top ELSE @]
  <2>2. CASE job' = [job EXCEPT ![p] = j]
    <3>1. job'[p] = j /\ OnlyJob(p) /\ job[p].pc \in EarlyPCs
      BY <1>2, <2>2 DEF Types, OnlyJob, GetRun, EarlyPCs
    <3> QED BY <3>1, <1>1 DEF Job
  <2> QED BY <1>2, <2>1, <2>2 DEF GetRun
<1>3. CASE Export(p)
  <2>1. CASE Goto(p, "series")
    BY <1>3, <2>1, GotoStep DEF Export, EarlyPCs
  <2>2. CASE Outer(p)
    BY <2>2, OuterStep
  <2>3. ASSUME NEW y \in ParentYamls,
               job' = [job EXCEPT ![p].pc = "series", ![p].exported = TRUE, ![p].yaml = y]
        PROVE  OnlyJob(p) /\ job'[p] = [job[p] EXCEPT !.pc = "series", !.exported = TRUE, !.yaml = y]
    BY <2>3 DEF Types, OnlyJob
  <2>4. ASSUME NEW y, OnlyJob(p), job'[p] = [job[p] EXCEPT !.pc = "series", !.exported = TRUE, !.yaml = y]
        PROVE  /\ job'[p].best = job[p].best /\ job'[p].top = job[p].top
               /\ job'[p].todo = job[p].todo /\ job'[p].recs = job[p].recs
               /\ job'[p].pc = "series"
    BY <2>4, <1>1 DEF Job
  <2> QED BY <1>3, <2>1, <2>2, <2>3, <2>4 DEF Export, EarlyPCs
<1>4. CASE EnsureRow(p)
  <2>1. CASE Outer(p)
    BY <2>1, OuterStep
  <2>2. ASSUME NEW pc \in {"each", "candidates"},
               job' = [job EXCEPT ![p].todo = Ids(job[p].best, job[p].top), ![p].pc = pc]
        PROVE  OnlyJob(p) /\ job'[p] = [job[p] EXCEPT !.todo = Ids(job[p].best, job[p].top), !.pc = pc]
    BY <2>2 DEF Types, OnlyJob
  <2>3. ASSUME NEW pc \in {"each", "candidates"}, OnlyJob(p),
               job'[p] = [job[p] EXCEPT !.todo = Ids(job[p].best, job[p].top), !.pc = pc]
        PROVE  /\ job'[p].best = job[p].best /\ job'[p].top = job[p].top
               /\ job'[p].todo = Ids(job[p].best, job[p].top) /\ job'[p].recs = job[p].recs
               /\ job'[p].pc = pc
    BY <2>3, <1>1 DEF Job
  <2> QED BY <1>4, <2>1, <2>2, <2>3 DEF EnsureRow, EarlyPCs
<1> QED BY <1>2, <1>3, <1>4

\* Each exports one candidate; the best one's upload comes to its row next.
LEMMA EachStep ==
    ASSUME Types, NEW p \in Procs, Each(p)
    PROVE  \E c \in job[p].todo :
             /\ OnlyJob(p)
             /\ job'[p].best = job[p].best /\ job'[p].top = job[p].top
             /\ job'[p].todo = job[p].todo \ {c}
             /\ job'[p].pc \in {"each", "best_row"}
             /\ \A d \in Cands : job'[p].recs[d] = "own" =>
                  job[p].recs[d] = "own" \/ (d = c /\ s3own' = s3own \cup {c})
             /\ \A d \in Cands : job'[p].recs[d] = "best" =>
                  job[p].recs[d] = "best" \/ (d = c /\ c = job[p].best)
             /\ s3own \subseteq s3own'
             /\ s3best' # s3best => s3best' = c
<1>1. job[p] \in Job /\ job[p].pc = "each"
  BY DEF Types, SoundJob, Each
<1>2. PICK c \in job[p].todo :
        \/ /\ s3best' = c \/ s3best' = s3best
           /\ job' = [job EXCEPT ![p].todo = @ \ {c}, ![p].pc = "best_row", ![p].recs[c] = "best"]
           /\ s3own' = s3own /\ c = job[p].best
        \/ /\ job' = [job EXCEPT ![p].todo = @ \ {c}, ![p].recs[c] = "best"]
           /\ s3best' = s3best /\ s3own' = s3own /\ c = job[p].best
        \/ /\ s3own' = s3own \cup {c}
           /\ job' = [job EXCEPT ![p].todo = @ \ {c}, ![p].recs[c] = "own"]
           /\ s3best' = s3best
        \/ /\ job' = [job EXCEPT ![p].todo = @ \ {c}, ![p].recs[c] = "empty"]
           /\ s3best' = s3best /\ s3own' = s3own
        \/ /\ job' = [job EXCEPT ![p].todo = @ \ {c}]
           /\ s3best' = s3best /\ s3own' = s3own
  BY DEF Each, s3
<1>3. CASE job' = [job EXCEPT ![p].todo = @ \ {c}]
  <2>1. job'[p] = [job[p] EXCEPT !.todo = @ \ {c}] /\ OnlyJob(p)
    BY <1>3 DEF Types, OnlyJob
  <2> QED BY <1>1, <1>2, <2>1 DEF Job
<1>4. ASSUME NEW rec \in {"own", "empty", "best"}, job' = [job EXCEPT ![p].todo = @ \ {c}, ![p].recs[c] = rec]
      PROVE  /\ OnlyJob(p) /\ job'[p].pc = "each"
             /\ job'[p].best = job[p].best /\ job'[p].top = job[p].top
             /\ job'[p].todo = job[p].todo \ {c}
             /\ job'[p].recs = [job[p].recs EXCEPT ![c] = rec]
  <2>1. job'[p] = [job[p] EXCEPT !.todo = @ \ {c}, !.recs[c] = rec] /\ OnlyJob(p)
    BY <1>4 DEF Types, OnlyJob
  <2> QED BY <1>1, <2>1 DEF Job
<1>5. CASE /\ s3best' = c \/ s3best' = s3best
           /\ job' = [job EXCEPT ![p].todo = @ \ {c}, ![p].pc = "best_row", ![p].recs[c] = "best"]
           /\ s3own' = s3own /\ c = job[p].best
  <2>1. /\ job'[p] = [job[p] EXCEPT !.todo = @ \ {c}, !.pc = "best_row", !.recs[c] = "best"]
        /\ OnlyJob(p)
    BY <1>5 DEF Types, OnlyJob
  <2>2. /\ job'[p].pc = "best_row"
        /\ job'[p].best = job[p].best /\ job'[p].top = job[p].top
        /\ job'[p].todo = job[p].todo \ {c}
        /\ job'[p].recs = [job[p].recs EXCEPT ![c] = "best"]
    BY <1>1, <2>1 DEF Job
  <2>3. \A d \in Cands : job'[p].recs[d] = IF d = c THEN "best" ELSE job[p].recs[d]
    BY <1>1, <2>2 DEF Job
  <2>4. s3own \subseteq s3own' /\ (s3best' # s3best => s3best' = c)
    BY <1>5
  <2>5. \A d \in Cands : job'[p].recs[d] = "own" => job[p].recs[d] = "own"
    BY <2>3
  <2>6. \A d \in Cands : job'[p].recs[d] = "best" =>
          job[p].recs[d] = "best" \/ (d = c /\ c = job[p].best)
    BY <1>5, <2>3
  <2> WITNESS c \in job[p].todo
  <2> QED BY <2>1, <2>2, <2>4, <2>5, <2>6
<1>6. c \in Cands /\ job[p].recs \in [Cands \cup {Self} -> CandRow]
  BY <1>1 DEF Job
<1> QED BY <1>1, <1>2, <1>3, <1>4, <1>5, <1>6

-----------------------------------------------------------------------------
(***************************************************************************)
(* Time series: no more batches than callbacks.                            *)
(***************************************************************************)

\* Goroutines that have yet to insert their points.
Due == {p \in Procs : job[p].pc \in EarlyPCs}

SeriesBound == IsFiniteSet(Due) /\ series + Cardinality(Due) <= accepted

LEMMA FewerDue ==
    ASSUME Types, SeriesBound, Due' \subseteq Due,
           series' \in Nat, series' <= series, accepted' = accepted
    PROVE  SeriesBound'
<1>1. IsFiniteSet(Due') /\ Cardinality(Due') <= Cardinality(Due)
  BY FS_Subset DEF SeriesBound
<1>2. Cardinality(Due) \in Nat /\ Cardinality(Due') \in Nat
  BY <1>1, FS_CardinalityType DEF SeriesBound
<1>3. series \in Nat /\ accepted \in Nat
  BY RunResultsAssumption DEF Types
<1> QED BY <1>1, <1>2, <1>3 DEF SeriesBound

LEMMA BoundInit == Init => SeriesBound
<1> SUFFICES ASSUME Init PROVE SeriesBound
  OBVIOUS
<1>1. Due = {}
  BY DEF Init, Due, EarlyPCs, IdleJob
<1> QED BY <1>1, FS_EmptySet DEF Init, SeriesBound

\* A step of a goroutine that is not Series.
LEMMA LaterStep ==
    ASSUME Types, NEW p \in Procs, Persist(p), ~Series(p)
    PROVE  /\ Due' \subseteq Due
           /\ UNCHANGED <<series, accepted>>
<1>1. OnlyJob(p) /\ (job'[p].pc \in EarlyPCs => job[p].pc \in EarlyPCs)
  <2>1. CASE GetRun(p) \/ Export(p) \/ EnsureRow(p)
    BY <2>1, FillStep DEF EarlyPCs
  <2>2. CASE StoreSummary(p) \/ BestRow(p)
    BY <2>2, GotoStep DEF StoreSummary, UpsertSummary, BestRow, EarlyPCs
  <2>3. CASE Each(p)
    BY <2>3, EachStep DEF EarlyPCs
  <2>4. CASE BatchCandidates(p) \/ OwnCandidates(p)
    BY <2>4, OuterStep DEF BatchCandidates, OwnCandidates, EarlyPCs
  <2>5. CASE Upload(p) \/ UploadRow(p)
    BY <2>5, GotoStep, FinishStep DEF Upload, UploadRow, EarlyPCs
  <2> QED BY <2>1, <2>2, <2>3, <2>4, <2>5 DEF Persist
<1>2. UNCHANGED <<series, accepted>>
  BY DEF Persist, GetRun, Export, StoreSummary, UpsertSummary, EnsureRow, Each, BestRow, BatchCandidates,
         OwnCandidates, Upload, UploadRow, db, env
<1> QED BY <1>1, <1>2 DEF Due, OnlyJob

LEMMA BoundNext == Types /\ SeriesBound /\ [Next]_vars => SeriesBound'
<1> SUFFICES ASSUME Types, SeriesBound, [Next]_vars PROVE SeriesBound'
  OBVIOUS
<1>1. Types'
  BY TypesNext
<1>2. Cardinality(Due) \in Nat /\ series \in Nat /\ accepted \in Nat
  BY FS_CardinalityType, RunResultsAssumption DEF SeriesBound, Types
<1>3. CASE CreateStores \/ CreateFails \/ Delete \/ Crash \/ UNCHANGED vars
  <2>1. series' <= series /\ accepted' = accepted
    BY <1>2, <1>3 DEF CreateStores, CreateFails, Delete, Crash, vars, db, env
  <2>2. Due' \subseteq Due
    BY <1>3 DEF CreateStores, CreateFails, Delete, Crash, vars, Due, EarlyPCs, IdleJob
  <2> QED BY <1>1, <2>1, <2>2, FewerDue DEF Types
<1>4. ASSUME NEW p \in Procs, Callback(p) PROVE SeriesBound'
  <2>1. p \notin Due /\ accepted' = accepted + 1 /\ series' = series
    BY <1>4 DEF Callback, Due, EarlyPCs, db
  <2>2. Due' \subseteq Due \cup {p}
    BY <1>4 DEF Callback, Due, Types
  <2>3. IsFiniteSet(Due \cup {p}) /\ Cardinality(Due \cup {p}) = Cardinality(Due) + 1
    BY <2>1, FS_AddElement DEF SeriesBound
  <2>4. IsFiniteSet(Due') /\ Cardinality(Due') <= Cardinality(Due) + 1
    BY <2>2, <2>3, FS_Subset
  <2>5. Cardinality(Due') \in Nat
    BY <2>4, FS_CardinalityType
  <2> QED BY <1>2, <2>1, <2>4, <2>5 DEF SeriesBound
<1>5. ASSUME NEW p \in Procs, Series(p) PROVE SeriesBound'
  <2>1. p \in Due /\ accepted' = accepted /\ series' \in {series, series + 1}
    BY <1>5 DEF Series, Due, EarlyPCs, env
  <2>2. Due' = Due \ {p}
    BY <1>5 DEF Series, Goto, Due, EarlyPCs, Types
  <2>3. IsFiniteSet(Due') /\ Cardinality(Due') = Cardinality(Due) - 1
    BY <2>1, <2>2, FS_RemoveElement DEF SeriesBound
  <2> QED BY <1>2, <2>1, <2>3 DEF SeriesBound
<1>6. ASSUME NEW p \in Procs, Persist(p), ~Series(p) PROVE SeriesBound'
  <2>1. Due' \subseteq Due /\ series' = series /\ accepted' = accepted
    BY <1>6, LaterStep
  <2> QED BY <1>1, <1>2, <2>1, FewerDue
<1> QED BY <1>3, <1>4, <1>5, <1>6 DEF Next

-----------------------------------------------------------------------------
(***************************************************************************)
(* Paths and the objects they name.                                        *)
(***************************************************************************)

\* An ordinary run has no candidates of a batch, and its path is stored after the upload.
UploadFirst ==
    Ordinary =>
        /\ summary.path => s3best = "parent"
        /\ \A p \in Procs :
             /\ job[p].best = NoCand /\ job[p].top = {} /\ job[p].todo = {}
             /\ job[p].pc = "upload_row" => s3best = "parent"

\* The best candidate a goroutine goes by is the one the engine found.
Resolved ==
    /\ OwnPathsResolve
    /\ \A p \in Procs : job[p].best \in {NoCand, outcome.best}

IInv == Types /\ SeriesBound /\ Resolved /\ UploadFirst

LEMMA OutcomeStays == [Next]_vars => outcome' = outcome
BY DEF Next, vars, CreateStores, CreateFails, Delete, Crash, Callback, Persist, env, GetRun, Export,
       Series, StoreSummary, EnsureRow, Each, BestRow, BatchCandidates, OwnCandidates, Upload, UploadRow

LEMMA PathsNext == Types /\ Resolved /\ [Next]_vars => Resolved'
<1> SUFFICES ASSUME Types, Resolved, [Next]_vars PROVE Resolved'
  OBVIOUS
<1>0. outcome' = outcome
  BY OutcomeStays
<1> USE <1>0, RunResultsAssumption DEF Resolved, OwnPathsResolve
<1>1. CASE CreateStores \/ CreateFails \/ UNCHANGED vars
  BY <1>1 DEF CreateStores, CreateFails, vars, s3, db
<1>2. CASE Delete \/ Crash
  BY <1>2 DEF Delete, Crash, s3, db, NoCands, IdleJob, Types
<1>3. ASSUME NEW p \in Procs, Callback(p) PROVE Resolved'
  <2>1. cand' = cand /\ s3own' = s3own
    BY <1>3 DEF Callback, db, s3
  <2>2. CASE job' = job
    BY <2>1, <2>2
  <2>3. CASE job' # job
    BY <1>3, <2>1, <2>3, CallbackStep DEF NoCands, OnlyJob
  <2> QED BY <2>2, <2>3
<1>4. ASSUME NEW p \in Procs, Persist(p) PROVE Resolved'
  <2>1. CASE GetRun(p) \/ Export(p) \/ EnsureRow(p)
    <3>1. cand' = cand /\ s3own' = s3own
      BY <2>1 DEF GetRun, Export, EnsureRow, db, s3
    <3> QED BY <2>1, <3>1, FillStep DEF Fresh, NoCands, OnlyJob
  <2>2. CASE Series(p) \/ StoreSummary(p) \/ BestRow(p)
    <3>1. PICK label : Goto(p, label)
      BY <2>2 DEF Series, StoreSummary, UpsertSummary, BestRow
    <3>2. cand' = cand /\ s3own' = s3own
      BY <2>2 DEF Series, StoreSummary, UpsertSummary, BestRow, s3
    <3> QED BY <3>1, <3>2, GotoStep DEF OnlyJob
  <2>3. CASE Each(p)
    <3>1. cand' = cand
      BY <2>3 DEF Each, db
    <3> QED BY <2>3, <3>1, EachStep DEF OnlyJob
  <2>4. CASE BatchCandidates(p)
    <3>1. s3own' = s3own /\ Outer(p)
      BY <2>4 DEF BatchCandidates, s3
    <3>2. \A c \in Cands : cand'[c] \in {cand[c], job[p].recs[c]}
      BY <2>4 DEF BatchCandidates, CreateMany
    <3> QED BY <3>1, <3>2, OuterStep DEF Fresh, NoCands, OnlyJob
  <2>5. CASE OwnCandidates(p)
    <3>1. s3own \subseteq s3own' /\ Outer(p)
      BY <2>5 DEF OwnCandidates
    <3>2. \A c \in Cands : /\ cand'[c] = "own" => cand[c] = "own" \/ c \in s3own'
                           /\ cand'[c] = "best" => cand[c] = "best"
      <4> DEFINE recs(C, up) == [c \in Cands \cup {Self} |->
                                   CASE c \in up           -> "own"
                                     [] c \in C \ up       -> "empty"
                                     [] c = Self /\ C = {} -> "best"
                                     [] OTHER              -> "absent"]
      <4>1. PICK C \in SUBSET Cands : \E up \in IF MayMiss THEN SUBSET C ELSE {C} :
              s3own' = s3own \cup up /\ (CreateMany(recs(C, up)) \/ cand' = cand)
        BY <2>5 DEF OwnCandidates
      <4>2. PICK up : s3own' = s3own \cup up /\ (CreateMany(recs(C, up)) \/ cand' = cand)
        BY <4>1
      <4>3. \A c \in Cands : (recs(C, up)[c] = "own" => c \in up) /\ recs(C, up)[c] # "best"
        OBVIOUS
      <4> HIDE DEF recs
      <4> QED BY <4>2, <4>3 DEF CreateMany
    <3>3. s3own \subseteq s3own' /\ OnlyJob(p) /\ Fresh(p)
      BY <3>1, OuterStep
    <3>4. \A c \in Cands : job'[p].recs[c] = "absent"
      BY <3>3 DEF Fresh, NoCands
    <3>5. \A c \in Cands : (cand'[c] = "own" => c \in s3own') /\ (cand'[c] = "best" => c = outcome.best)
      BY <3>2, <3>3
    <3>6. \A q \in Procs : job'[q].best \in {NoCand, outcome.best}
      BY <3>3 DEF Fresh, OnlyJob
    <3>7. \A q \in Procs, c \in Cands :
            /\ job'[q].recs[c] = "own" => c \in s3own'
            /\ job'[q].recs[c] = "best" => c = outcome.best
      BY <3>3, <3>4 DEF OnlyJob
    <3> QED BY <3>5, <3>6, <3>7
  <2>6. CASE Upload(p) \/ UploadRow(p)
    <3>1. cand' = cand /\ s3own' = s3own
      BY <2>6 DEF Upload, UploadRow, db, s3
    <3>2. Finish(p) \/ Goto(p, "upload_row")
      BY <2>6 DEF Upload, UploadRow
    <3> QED BY <3>1, <3>2, GotoStep, FinishStep DEF Fresh, NoCands, OnlyJob
  <2> QED BY <1>4, <2>1, <2>2, <2>3, <2>4, <2>5, <2>6 DEF Persist
<1> QED BY <1>1, <1>2, <1>3, <1>4 DEF Next

LEMMA UploadNext == Types /\ UploadFirst /\ [Next]_vars => UploadFirst'
<1> SUFFICES ASSUME Types, UploadFirst, [Next]_vars, Ordinary' PROVE UploadFirst'
  BY DEF UploadFirst
<1>1. outcome' = outcome
  BY OutcomeStays
<1>2. Ordinary /\ outcome.best = NoCand /\ outcome.top = {}
  <2>1. Ordinary
    BY <1>1 DEF Ordinary
  <2>2. outcome.top \subseteq Cands
    BY RunResultsAssumption DEF Types
  <2> QED BY <2>1, <2>2, RunResultsAssumption DEF Ordinary, Ids
<1> USE <1>2, RunResultsAssumption DEF UploadFirst
<1>3. CASE CreateStores \/ CreateFails \/ UNCHANGED vars
  BY <1>3 DEF CreateStores, CreateFails, vars, s3, db, Types, Summary
<1>4. CASE Delete \/ Crash
  BY <1>4 DEF Delete, Crash, s3, db, NoSummary, IdleJob, Types
<1>5. ASSUME NEW p \in Procs, Callback(p) PROVE UploadFirst'
  <2>1. summary' = summary /\ s3best' = s3best
    BY <1>5 DEF Callback, db, s3
  <2>2. CASE job' = job
    BY <2>1, <2>2
  <2>3. CASE job' # job
    BY <1>5, <2>1, <2>3, CallbackStep DEF OnlyJob
  <2> QED BY <2>2, <2>3
<1>6. ASSUME NEW p \in Procs, Persist(p) PROVE UploadFirst'
  <2>1. CASE GetRun(p) \/ Export(p) \/ EnsureRow(p)
    <3>1. UNCHANGED <<summary, s3best>>
      BY <2>1 DEF GetRun, Export, EnsureRow, db, s3
    <3>2. Ids(job[p].best, job[p].top) = {}
      BY DEF Ids
    <3> QED BY <2>1, <3>1, <3>2, FillStep DEF Fresh, OnlyJob
  <2>2. CASE Series(p) \/ StoreSummary(p)
    <3>1. PICK label : Goto(p, label) /\ label # "upload_row"
      BY <2>2 DEF Series, StoreSummary
    <3>2. summary'.path = summary.path /\ s3best' = s3best
      BY <2>2 DEF Series, StoreSummary, UpsertSummary, s3, Types, Summary
    <3> QED BY <3>1, <3>2, GotoStep DEF OnlyJob
  <2>3. CASE Each(p)
    BY <2>3 DEF Each
  <2>4. CASE BestRow(p)
    BY <2>4 DEF BestRow, Types, SoundJob
  <2>5. CASE BatchCandidates(p) \/ OwnCandidates(p)
    <3>1. Outer(p) /\ UNCHANGED <<summary, s3best>>
      BY <2>5 DEF BatchCandidates, OwnCandidates, s3
    <3> QED BY <3>1, OuterStep DEF Fresh, OnlyJob
  <2>6. CASE Upload(p)
    <3>1. CASE Goto(p, "upload_row") /\ s3best' = "parent" /\ summary' = summary
      BY <3>1, GotoStep DEF OnlyJob
    <3>2. CASE Finish(p) /\ s3best' = s3best /\ summary' = summary
      BY <3>2, FinishStep DEF Fresh, OnlyJob
    <3> QED BY <2>6, <3>1, <3>2 DEF Upload, db
  <2>7. CASE UploadRow(p)
    <3>1. s3best = "parent" /\ s3best' = "parent" /\ Finish(p)
      BY <2>7 DEF UploadRow, s3
    <3> QED BY <3>1, FinishStep DEF Fresh, OnlyJob
  <2> QED BY <1>6, <2>1, <2>2, <2>3, <2>4, <2>5, <2>6, <2>7 DEF Persist
<1> QED BY <1>3, <1>4, <1>5, <1>6 DEF Next

-----------------------------------------------------------------------------
(***************************************************************************)
(* The theorems.                                                           *)
(***************************************************************************)

LEMMA Inductive == Spec => []IInv
<1>1. Init => IInv
  <2> SUFFICES ASSUME Init PROVE Resolved /\ UploadFirst
    BY TypesInit, BoundInit DEF IInv
  <2> QED BY DEF Init, Resolved, OwnPathsResolve, UploadFirst, NoCands, IdleJob, NoSummary
<1>2. IInv /\ [Next]_vars => IInv'
  BY TypesNext, BoundNext, PathsNext, UploadNext DEF IInv
<1> QED BY <1>1, <1>2, PTL DEF Spec

\* Rows, objects and goroutines keep their types, and points are inserted once for each
\* callback at most.
THEOREM ResultsTypeCorrect == Spec => []TypeOK
<1>1. IInv => TypeOK
  <2> SUFFICES ASSUME IInv PROVE TypeOK
    OBVIOUS
  <2>1. Cardinality(Due) \in Nat /\ accepted \in 0 .. MaxCallbacks /\ series \in Nat
    BY FS_CardinalityType DEF IInv, SeriesBound, Types
  <2>2. series \in 0 .. MaxCallbacks
    BY <2>1, RunResultsAssumption DEF IInv, SeriesBound
  <2>3. job \in [Procs -> Job]
    BY DEF IInv, Types, SoundJob
  <2> QED BY <2>2, <2>3 DEF IInv, Types, TypeOK
<1> QED BY <1>1, Inductive, PTL

\* A candidate's row names simulation/{run}/candidates/{id}.yaml only after that object
\* was uploaded, and only the best candidate's row names best_scenario.yaml.
THEOREM OwnPaths == Spec => []OwnPathsResolve
BY Inductive, PTL DEF IInv, Resolved

\* uploadBestScenarioToS3 stores best_candidate_s3_path of an ordinary run after the
\* object.
THEOREM UploadBeforeSummaryPath == Spec => []SummaryPathAfterUpload
<1>1. IInv => SummaryPathAfterUpload
  BY DEF IInv, UploadFirst, SummaryPathAfterUpload
<1> QED BY <1>1, Inductive, PTL
=============================================================================

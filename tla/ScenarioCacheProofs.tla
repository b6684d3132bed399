------------------------- MODULE ScenarioCacheProofs -------------------------
(***************************************************************************)
(* Proofs about ScenarioCache, for any number of requests, diagrams, host  *)
(* sizings and scenarios.                                                  *)
(*                                                                         *)
(* Nothing locks the row, so what is true of it must be true of every copy *)
(* a request has read and of everything a request is about to store: an    *)
(* honest row can then only be replaced by an honest one.                  *)
(***************************************************************************)
EXTENDS ScenarioCache, TLAPS

\* A generated scenario comes with the hash of what it was generated from.
Honest(r) == r.source = "generated" => r.hash \in Sources /\ r.yaml = r.hash

Storing == {"s3", "select", "insert"}

\* What a request has read or is about to store is as good as what is stored.
SoundJob == {j \in Job :
    /\ j.cached # NoRow => Honest(j.cached)
    /\ j.pc \in {"cached", "host"} => j.kind # "put" /\ j.diagram \in Diagrams
    /\ j.kind = "put" /\ j.pc # "idle" => j.yaml \in Yaml
    /\ j.kind # "put" /\ j.pc \in Storing => j.hash \in Sources /\ j.yaml = j.hash}

IInv ==
    /\ TypeOK
    /\ row # NoRow => Honest(row)
    /\ job \in [Procs -> SoundJob]
    /\ ServedFresh

LEMMA IdleSound == Idle \in SoundJob
BY DEF Idle, SoundJob, Job, Kinds, Storing

LEMMA FinishOK ==
    ASSUME IInv, NEW p \in Procs, Finish(p)
    PROVE  job' \in [Procs -> SoundJob]
BY IdleSound DEF Finish, IInv

\* Request p goes on as j.
LEMMA JobOK ==
    ASSUME IInv, NEW p \in Procs, NEW j \in SoundJob, job' = [job EXCEPT ![p] = j]
    PROVE  job' \in [Procs -> SoundJob]
BY DEF IInv

\* An answer is well-formed, and fresh if it is a generated scenario.
LEMMA AnswersOK ==
    ASSUME IInv, NEW p \in Procs, NEW y \in Yaml, NEW s \in {"generated", "edited"},
           NEW from \in Sources \cup {NoHash},
           job[p].kind # "put" /\ s = "generated" => y = from,
           Answers(p, y, s, from)
    PROVE  /\ job' \in [Procs -> SoundJob]
           /\ answer' \in Answer
           /\ ServedFresh'
<1>1. job[p] \in Job
  BY DEF IInv, SoundJob
<1>2. answer' = [kind |-> job[p].kind, yaml |-> y, source |-> s, from |-> from]
  BY DEF Answers
<1>3. answer' \in Answer
  BY <1>1, <1>2 DEF Job, Answer
<1>4. ServedFresh'
  BY <1>2 DEF ServedFresh
<1> QED BY <1>3, <1>4, FinishOK DEF Answers

LEMMA InitOK == Init => IInv
<1> SUFFICES ASSUME Init PROVE IInv
  OBVIOUS
<1>1. job \in [Procs -> SoundJob] /\ job \in [Procs -> Job]
  BY IdleSound DEF Init, SoundJob
<1>2. TypeOK
  BY <1>1, ScenarioCacheAssumption DEF Init, TypeOK
<1>3. ServedFresh
  BY DEF Init, ServedFresh
<1> QED BY <1>1, <1>2, <1>3 DEF Init, IInv

LEMMA BeginOK ==
    ASSUME IInv, NEW p \in Procs, NEW k \in Kinds, NEW y \in PutYamls \cup {NoHash},
           NEW o \in BOOLEAN, Begin(p, k, y, o)
    PROVE  IInv'
<1> DEFINE j == [Idle EXCEPT !.pc = "load", !.kind = k, !.yaml = y, !.overwrite = o, !.force = o]
<1>1. y \in Yaml \cup {NoHash} /\ (k = "put" => y \in Yaml)
  BY ScenarioCacheAssumption DEF Begin
<1>2. j \in SoundJob
  BY <1>1 DEF Idle, SoundJob, Job, Storing
<1>3. job' \in [Procs -> SoundJob]
  BY <1>2, JobOK DEF Begin
<1>4. started' \in 0 .. MaxRequests
  BY ScenarioCacheAssumption DEF Begin, IInv, TypeOK
<1>5. UNCHANGED <<diagram, host, row, object>> /\ answer' = NoAnswer
  BY DEF Begin
<1> QED BY <1>3, <1>4, <1>5 DEF IInv, TypeOK, SoundJob, ServedFresh

\* A step that only moves a request on.
LEMMA MoveOK ==
    ASSUME IInv, job' \in [Procs -> SoundJob], UNCHANGED <<row, answer, started>>,
           diagram' \in Diagrams \cup {NoDiagram}, host' \in Hosts \cup {NoHost},
           object' \in Yaml \cup {NoHash}
    PROVE  IInv'
BY DEF IInv, TypeOK, SoundJob, ServedFresh

LEMMA LoadDiagramOK ==
    ASSUME IInv, NEW p \in Procs, LoadDiagram(p)
    PROVE  IInv'
<1>1. job[p] \in SoundJob /\ job[p] \in Job /\ job[p].pc = "load"
  BY DEF IInv, SoundJob, LoadDiagram, At
<1>2. diagram \in Diagrams \cup {NoDiagram}
  BY DEF IInv, TypeOK
<1>3. CASE job[p].kind = "put"
  <2> DEFINE h == IF diagram = NoDiagram THEN NoHash ELSE <<diagram, NoHost>>
             j == [job[p] EXCEPT !.pc = "s3", !.hash = h]
  <2>1. h \in Sources \cup {NoHash}
    BY <1>2 DEF Sources
  <2> HIDE DEF h
  <2>2. j \in SoundJob
    BY <1>1, <1>3, <2>1 DEF SoundJob, Job, Storing
  <2>3. job' = [job EXCEPT ![p] = j]
    BY <1>3 DEF LoadDiagram, h
  <2>4. job' \in [Procs -> SoundJob]
    BY <2>2, <2>3, JobOK
  <2> QED BY <2>4, MoveOK DEF LoadDiagram, IInv, TypeOK
<1>4. CASE job[p].kind # "put" /\ diagram = NoDiagram
  BY <1>4, FinishOK, MoveOK DEF LoadDiagram, IInv, TypeOK
<1>5. CASE job[p].kind # "put" /\ diagram # NoDiagram
  <2> DEFINE j == [job[p] EXCEPT !.pc = "cached", !.diagram = diagram]
  <2>1. j \in SoundJob
    BY <1>1, <1>2, <1>5 DEF SoundJob, Job, Storing
  <2>2. job' = [job EXCEPT ![p] = j]
    BY <1>5 DEF LoadDiagram
  <2>3. job' \in [Procs -> SoundJob]
    BY <2>1, <2>2, JobOK
  <2> QED BY <2>3, MoveOK DEF LoadDiagram, IInv, TypeOK
<1> QED BY <1>3, <1>4, <1>5

LEMMA ReadCachedOK ==
    ASSUME IInv, NEW p \in Procs, ReadCached(p)
    PROVE  IInv'
<1>1. /\ job[p] \in SoundJob /\ job[p] \in Job /\ job[p].pc = "cached"
      /\ job[p].kind # "put" /\ job[p].diagram \in Diagrams
  BY DEF IInv, SoundJob, ReadCached, At
<1>2. row \in Row \cup {NoRow} /\ (row # NoRow => Honest(row))
  BY DEF IInv, TypeOK
<1>3. UNCHANGED <<diagram, host, row, object, started>>
  BY DEF ReadCached
<1>4. CASE row # NoRow /\ Answers(p, row.yaml, "edited", <<job[p].diagram, NoHost>>)
  <2>1. row.yaml \in Yaml /\ <<job[p].diagram, NoHost>> \in Sources
    BY <1>1, <1>2, <1>4 DEF Row, Sources
  <2>2. job' \in [Procs -> SoundJob] /\ answer' \in Answer /\ ServedFresh'
    BY <1>4, <2>1, AnswersOK
  <2> QED BY <1>3, <2>2 DEF IInv, TypeOK, SoundJob
<1>5. CASE Finish(p) /\ answer' = answer
  BY <1>3, <1>5, FinishOK, MoveOK DEF IInv, TypeOK
<1>6. CASE answer' = answer /\ job' = [job EXCEPT ![p].pc = "host", ![p].cached = row,
                                        ![p].force = (row # NoRow \/ job[p].kind = "regenerate")]
  <2>1. (row # NoRow \/ job[p].kind = "regenerate") \in BOOLEAN
    OBVIOUS
  <2>2. \A b \in BOOLEAN : [job[p] EXCEPT !.pc = "host", !.cached = row, !.force = b] \in SoundJob
    BY <1>1, <1>2 DEF SoundJob, Job, Storing
  <2> DEFINE j == [job[p] EXCEPT !.pc = "host", !.cached = row,
                                 !.force = (row # NoRow \/ job[p].kind = "regenerate")]
  <2>3. j \in SoundJob
    BY <2>1, <2>2
  <2>4. job' = [job EXCEPT ![p] = j]
    BY <1>6, Zenon
  <2>5. job' \in [Procs -> SoundJob]
    BY <2>3, <2>4, JobOK
  <2> QED BY <1>3, <1>6, <2>5, MoveOK DEF IInv, TypeOK
<1> QED BY <1>4, <1>5, <1>6 DEF ReadCached, Edited

LEMMA GenerateOK ==
    ASSUME IInv, NEW p \in Procs, Generate(p)
    PROVE  IInv'
<1> DEFINE from == <<job[p].diagram, host>>
<1>1. /\ job[p] \in SoundJob /\ job[p] \in Job /\ job[p].pc = "host"
      /\ job[p].kind # "put" /\ job[p].diagram \in Diagrams
  BY DEF IInv, SoundJob, Generate, At
<1>2. from \in Sources
  BY <1>1 DEF IInv, TypeOK, Sources
<1>3. UNCHANGED <<diagram, host, row, object, started>>
  BY DEF Generate
<1> HIDE DEF from
<1>4. CASE /\ Usable(job[p].cached, from)
           /\ Answers(p, job[p].cached.yaml, job[p].cached.source, from)
  <2>1. job[p].cached \in Row /\ Honest(job[p].cached)
    BY <1>1, <1>4 DEF Usable, SoundJob, Job
  <2>2. job[p].cached.yaml \in Yaml /\ job[p].cached.source \in {"generated", "edited"}
    BY <2>1 DEF Row
  <2>3. job[p].cached.source = "generated" => job[p].cached.yaml = from
    BY <1>4, <2>1, ScenarioCacheAssumption DEF Usable, Honest
  <2>4. job' \in [Procs -> SoundJob] /\ answer' \in Answer /\ ServedFresh'
    BY <1>2, <1>4, <2>2, <2>3, AnswersOK
  <2> QED BY <1>3, <2>4 DEF IInv, TypeOK, SoundJob
<1>5. CASE /\ job' = [job EXCEPT ![p].pc = "s3", ![p].yaml = from, ![p].hash = from,
                                 ![p].diagram = NoDiagram, ![p].cached = NoRow]
           /\ answer' = answer
  <2> DEFINE j == [job[p] EXCEPT !.pc = "s3", !.yaml = from, !.hash = from,
                                 !.diagram = NoDiagram, !.cached = NoRow]
  <2>1. j \in SoundJob
    BY <1>1, <1>2 DEF SoundJob, Job, Storing, Yaml
  <2>2. job' = [job EXCEPT ![p] = j]
    BY <1>5
  <2>3. job' \in [Procs -> SoundJob]
    BY <2>1, <2>2, JobOK
  <2> QED BY <1>3, <1>5, <2>3, MoveOK DEF IInv, TypeOK
<1> QED BY <1>4, <1>5 DEF Generate, from

LEMMA PutS3OK ==
    ASSUME IInv, NEW p \in Procs, PutS3(p)
    PROVE  IInv'
<1>1. job[p] \in SoundJob /\ job[p] \in Job /\ job[p].pc = "s3"
  BY DEF IInv, SoundJob, PutS3, At
<1>2. object' \in Yaml \cup {NoHash}
  BY <1>1 DEF PutS3, IInv, TypeOK, Job
<1>3. [job[p] EXCEPT !.pc = "select", !.path = TRUE] \in SoundJob
  BY <1>1 DEF SoundJob, Job, Storing
<1>4. [job[p] EXCEPT !.pc = "select"] \in SoundJob
  BY <1>1 DEF SoundJob, Job, Storing
<1>5. \/ job' = [job EXCEPT ![p] = [job[p] EXCEPT !.pc = "select", !.path = TRUE]]
      \/ job' = [job EXCEPT ![p] = [job[p] EXCEPT !.pc = "select"]]
  BY DEF PutS3
<1>6. job' \in [Procs -> SoundJob]
  BY <1>3, <1>4, <1>5, JobOK
<1> QED BY <1>2, <1>6, MoveOK DEF PutS3, IInv, TypeOK

LEMMA SelectOK ==
    ASSUME IInv, NEW p \in Procs, Select(p)
    PROVE  IInv'
<1>1. job[p] \in SoundJob /\ job[p] \in Job /\ job[p].pc = "select"
  BY DEF IInv, SoundJob, Select, At
<1>2. row \in Row \cup {NoRow} /\ (row # NoRow => Honest(row))
  BY DEF IInv, TypeOK
<1>3. UNCHANGED <<diagram, host, row, object, started>>
  BY DEF Select
<1>4. CASE row # NoRow /\ row.yaml = job[p].yaml /\ Answers(p, row.yaml, row.source, job[p].hash)
  <2>1. row.yaml \in Yaml /\ row.source \in {"generated", "edited"}
    BY <1>2, <1>4 DEF Row
  <2>2. job[p].hash \in Sources \cup {NoHash} /\ (job[p].kind # "put" => row.yaml = job[p].hash)
    BY <1>1, <1>4 DEF SoundJob, Job, Storing
  <2>3. job' \in [Procs -> SoundJob] /\ answer' \in Answer /\ ServedFresh'
    BY <1>4, <2>1, <2>2, AnswersOK
  <2> QED BY <1>3, <2>3 DEF IInv, TypeOK, SoundJob
<1>5. CASE Finish(p) /\ answer' = answer
  BY <1>3, <1>5, FinishOK, MoveOK DEF IInv, TypeOK
<1>6. CASE job' = [job EXCEPT ![p].pc = "insert"] /\ answer' = answer
  <2> DEFINE j == [job[p] EXCEPT !.pc = "insert"]
  <2>1. j \in SoundJob
    BY <1>1 DEF SoundJob, Job, Storing
  <2>2. job' = [job EXCEPT ![p] = j]
    BY <1>6
  <2>3. job' \in [Procs -> SoundJob]
    BY <2>1, <2>2, JobOK
  <2> QED BY <1>3, <1>6, <2>3, MoveOK DEF IInv, TypeOK
<1> QED BY <1>4, <1>5, <1>6 DEF Select

\* What the upsert leaves is the row it is given, with the old hash only where that
\* row has none.
LEMMA StoredOK ==
    ASSUME row \in Row \cup {NoRow}, NEW new \in Row, Honest(new)
    PROVE  Stored(new) \in Row /\ Honest(Stored(new))
<1>1. CASE row = NoRow
  BY <1>1 DEF Stored
<1>2. CASE row # NoRow
  <2> DEFINE h == IF new.hash = NoHash THEN row.hash ELSE new.hash
  <2>1. h \in Sources \cup {NoHash} /\ (new.source = "generated" => h = new.hash)
    BY <1>2, ScenarioCacheAssumption DEF Row, Honest
  <2>2. (new.path \/ row.path) \in BOOLEAN
    OBVIOUS
  <2>3. Stored(new) = [new EXCEPT !.hash = h, !.path = (new.path \/ row.path)]
    BY <1>2 DEF Stored
  <2> HIDE DEF h
  <2>4. \A b \in BOOLEAN :
          LET r == [new EXCEPT !.hash = h, !.path = b] IN r \in Row /\ Honest(r)
    BY <2>1 DEF Row, Honest
  <2> QED BY <2>2, <2>3, <2>4
<1> QED BY <1>1, <1>2

LEMMA InsertOK ==
    ASSUME IInv, NEW p \in Procs, Insert(p)
    PROVE  IInv'
<1> DEFINE new == [yaml |-> job[p].yaml, source |-> Source(p),
                   hash |-> job[p].hash, path |-> job[p].path]
<1>1. job[p] \in SoundJob /\ job[p] \in Job /\ job[p].pc = "insert"
  BY DEF IInv, SoundJob, Insert, At
<1>2. /\ job[p].yaml \in Yaml /\ job[p].hash \in Sources \cup {NoHash}
      /\ job[p].kind # "put" => job[p].hash \in Sources /\ job[p].yaml = job[p].hash
      /\ Source(p) \in {"generated", "edited"} /\ (Source(p) = "generated" => job[p].kind # "put")
  BY <1>1 DEF SoundJob, Job, Storing, Source, Yaml
<1>3. new \in Row /\ Honest(new)
  BY <1>1, <1>2 DEF Row, Job, Honest
<1>4. row' = Stored(new) /\ UNCHANGED <<diagram, host, object, started>>
  BY DEF Insert
<1>5. row' \in Row /\ Honest(row')
  BY <1>3, <1>4, StoredOK DEF IInv, TypeOK
<1>6. job' \in [Procs -> SoundJob] /\ answer' \in Answer /\ ServedFresh'
  BY <1>2, AnswersOK DEF Insert
<1> QED BY <1>4, <1>5, <1>6 DEF IInv, TypeOK, SoundJob

LEMMA NextOK == IInv /\ [Next]_vars => IInv'
<1> SUFFICES ASSUME IInv, [Next]_vars PROVE IInv'
  OBVIOUS
<1>1. CASE ChangeDiagram \/ ChangeHost
  BY <1>1 DEF ChangeDiagram, ChangeHost, IInv, TypeOK, ServedFresh
<1>2. ASSUME NEW p \in Procs, Step(p) PROVE IInv'
  <2>1. CASE Fail(p)
    BY <2>1, FinishOK, MoveOK DEF Fail, IInv, TypeOK
  <2> QED BY <1>2, <2>1, BeginOK, LoadDiagramOK, ReadCachedOK, GenerateOK, PutS3OK, SelectOK,
             InsertOK DEF Step
<1>3. CASE UNCHANGED vars
  BY <1>3 DEF vars, IInv, TypeOK, ServedFresh
<1> QED BY <1>1, <1>2, <1>3 DEF Next

LEMMA Inductive == Spec => []IInv
BY InitOK, NextOK, PTL DEF Spec

-----------------------------------------------------------------------------
(***************************************************************************)
(* The theorems.                                                           *)
(***************************************************************************)

\* Rows, objects, answers and requests keep their types.
THEOREM ScenarioTypeCorrect == Spec => []TypeOK
BY Inductive, PTL DEF IInv

\* The upsert of a generated scenario, by whichever of the requests that race, leaves it
\* with the hash of its source (scenario_cache_repo.go).
THEOREM GeneratedHonest == Spec => []GeneratedIsHonest
<1>1. IInv => GeneratedIsHonest
  BY DEF IInv, Honest, GeneratedIsHonest
<1> QED BY <1>1, Inductive, PTL

\* GetScenarioForDiagramVersion serves a generated scenario of the source it has read.
THEOREM GeneratedFresh == Spec => []ServedFresh
BY Inductive, PTL DEF IInv
=============================================================================

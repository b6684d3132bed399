---------------------------- MODULE AmgApdProofs -----------------------------
(***************************************************************************)
(* Proofs about the AMG/APD part: the versions of a diagram                *)
(* (DiagramVersions), and the detectors and fixes (AntiPatterns, AutoFix). *)
(***************************************************************************)
EXTENDS DiagramVersions, AutoFix, FiniteSetTheorems, SequenceTheorems, WellFoundedInduction, TLAPS

(***************************************************************************)
(* Diagram versions, for any number of requests, versions and YAMLs.       *)
(*                                                                         *)
(* A number is read long before it is used, and in between others are      *)
(* given away.  What stays true of it: it is at most one more than the ids *)
(* given away, of which there are never fewer.  While nothing is deleted   *)
(* these have the numbers from 1 on, so that one which is still free is    *)
(* the next.                                                               *)
(***************************************************************************)

Given == Cardinality(issued)

\* The rows.  What NumbersContiguous says of the versions there, said of the ids
\* given away.
Rows ==
    /\ versions \in [Ids -> Version]
    /\ issued \subseteq Ids
    /\ current \in Present \cup {NoId}
    /\ deletes \in 0 .. MaxDeletes
    /\ Present \subseteq issued
    /\ \A i \in Present : versions[i].number <= Given
    /\ \A i, j \in Present : versions[i].number = versions[j].number => i = j
    /\ deletes = 0 => Present = issued /\ \A n \in 1 .. Given :
                                            \E i \in Present : versions[i].number = n

SoundJob == {j \in Job :
    /\ j.pc \in {"create", "previous", "insert"} => j.number \in 1 .. Given + 1
    /\ j.pc \in {"save", "previous", "insert", "merge", "write", "reread"} => j.yaml \in Yamls
    /\ j.pc \in {"point", "merge", "write", "reread"} => j.id \in Ids}

IInv == Rows /\ job \in [Procs -> SoundJob]

(***************************************************************************)
(* Numbers.                                                                *)
(***************************************************************************)

LEMMA GivenOK ==
    ASSUME Rows
    PROVE  /\ IsFiniteSet(issued) /\ Given \in Nat
           /\ Cardinality(Ids) \in Nat /\ Given <= Cardinality(Ids)
BY DiagramVersionsAssumption, FS_Subset, FS_CardinalityType DEF Rows, Given

LEMMA GiveOK ==
    ASSUME Rows, NEW i \in Ids \ issued
    PROVE  /\ Cardinality(issued \cup {i}) = Given + 1
           /\ Given + 1 <= Cardinality(Ids)
<1>1. Cardinality(issued \cup {i}) = Given + 1
  BY GivenOK, FS_AddElement DEF Given
<1>2. issued \cup {i} \in SUBSET Ids
  BY DEF Rows
<1>3. Cardinality(issued \cup {i}) <= Cardinality(Ids)
  BY <1>2, DiagramVersionsAssumption, FS_Subset
<1> QED BY <1>1, <1>3

LEMMA HighestOK ==
    ASSUME Rows, NEW S \in SUBSET Present, S # {}
    PROVE  Highest(S) \in S
<1> DEFINE below == {Given - versions[i].number : i \in S}
<1>1. \A i \in S : versions[i].number \in Nat /\ Given - versions[i].number \in Nat
  BY GivenOK, DiagramVersionsAssumption DEF Rows, Present, Version
<1>2. below \subseteq Nat /\ below # {}
  BY <1>1
<1>3. PICK x \in below : \A y \in below : ~(<<y, x>> \in OpToRel(<, Nat))
  BY <1>2, NatLessThanWellFounded, WFMin
<1>4. PICK i \in S : x = Given - versions[i].number
  BY <1>3
<1>5. \A j \in S : ~(Given - versions[j].number < Given - versions[i].number)
  BY <1>1, <1>2, <1>3, <1>4 DEF OpToRel
<1>6. \A j \in S : versions[j].number <= versions[i].number
  BY <1>1, <1>5, GivenOK
<1> QED BY <1>6 DEF Highest

LEMMA NextNumberOK ==
    ASSUME Rows
    PROVE  NextNumber \in 1 .. Given + 1
<1>1. CASE Present = {}
  BY <1>1, GivenOK DEF NextNumber
<1>2. CASE Present # {}
  <2>1. Highest(Present) \in Present
    BY <1>2, HighestOK
  <2>2. versions[Highest(Present)].number \in 1 .. Given
    BY <2>1, GivenOK DEF Rows, Present, Version
  <2> QED BY <1>2, <2>2, GivenOK DEF NextNumber
<1> QED BY <1>1, <1>2

(***************************************************************************)
(* Rows.                                                                   *)
(***************************************************************************)

\* A version is added under a number that is free.
LEMMA InsertOK ==
    ASSUME Rows, NEW i \in Ids \ issued, NEW n \in 1 .. Given + 1, Free(n),
           NEW s \in Sources, NEW y \in Yamls \cup {NoYaml}, NEW c \in SUBSET Yamls,
           Stored(i, [number |-> n, source |-> s, yaml |-> y, canvas |-> c]),
           issued' = issued \cup {i}, current' \in {current, i}, deletes' = deletes
    PROVE  Rows' /\ Given' = Given + 1
<1>1. Given' = Given + 1 /\ Given + 1 <= Cardinality(Ids) /\ Given \in Nat
  BY GiveOK, GivenOK DEF Given
<1>2. versions' \in [Ids -> Version]
  BY <1>1, GivenOK DEF Rows, Stored, Version
<1>3. /\ versions'[i].number = n /\ n # 0
      /\ \A j \in Ids \ {i} : versions'[j] = versions[j]
  BY DEF Rows, Stored
<1>4. Present' = Present \cup {i} /\ i \notin Present
  BY <1>3 DEF Present, Rows
<1>5. \A j \in Present : versions'[j].number = versions[j].number
  BY <1>3, <1>4 DEF Present
<1>6. \A j, k \in Present' : versions'[j].number = versions'[k].number => j = k
  BY <1>3, <1>4, <1>5 DEF Rows, Free
<1>7. \A j \in Present' : versions'[j].number <= Given'
  <2>1. \A j \in Present : versions[j].number \in Nat
    BY DiagramVersionsAssumption, GivenOK DEF Rows, Present, Version
  <2> QED BY <1>1, <1>3, <1>4, <1>5, <2>1 DEF Rows
<1>8. ASSUME deletes' = 0
      PROVE  Present' = issued' /\ \A m \in 1 .. Given' :
                                      \E j \in Present' : versions'[j].number = m
  <2>1. Present = issued /\ \A m \in 1 .. Given : \E j \in Present : versions[j].number = m
    BY <1>8 DEF Rows
  <2>2. n = Given + 1
    BY <1>1, <2>1 DEF Free
  <2>3. ASSUME NEW m \in 1 .. Given + 1
        PROVE  \E j \in Present' : versions'[j].number = m
    <3>1. CASE m = Given + 1
      BY <1>3, <1>4, <2>2, <3>1
    <3>2. CASE m # Given + 1
      <4>1. m \in 1 .. Given
        BY <1>1, <3>2
      <4> QED BY <1>4, <1>5, <2>1, <4>1
    <3> QED BY <3>1, <3>2
  <2> QED BY <1>1, <1>4, <2>1, <2>3
<1>9. current' \in Present' \cup {NoId} /\ issued' \subseteq Ids
  BY <1>4 DEF Rows
<1> QED BY <1>1, <1>2, <1>4, <1>6, <1>7, <1>8, <1>9 DEF Rows

\* A version keeps its number and gets another content.
LEMMA ReplaceOK ==
    ASSUME Rows, NEW i \in Present, NEW v \in Version, v.number = versions[i].number,
           Stored(i, v), UNCHANGED <<issued, current, deletes>>
    PROVE  Rows' /\ Given' = Given
<1>1. i \in Ids
  BY DEF Present
<1>2. versions' \in [Ids -> Version]
  BY <1>1 DEF Rows, Stored
<1>3. \A j \in Ids : versions'[j].number = versions[j].number
  BY <1>1 DEF Rows, Stored
<1>4. Present' = Present /\ Given' = Given /\ Present \subseteq Ids
  BY <1>3 DEF Present, Given
<1>5. /\ \A j \in Present : versions'[j].number <= Given
      /\ \A j, k \in Present : versions'[j].number = versions'[k].number => j = k
  BY <1>3, <1>4 DEF Rows
<1>6. deletes = 0 => Present = issued /\ \A n \in 1 .. Given :
                                           \E j \in Present : versions'[j].number = n
  BY <1>3, <1>4 DEF Rows
<1> QED BY <1>2, <1>4, <1>5, <1>6 DEF Rows

LEMMA DeleteOK ==
    ASSUME Rows, DeleteVersion
    PROVE  Rows' /\ Given' = Given
<1>1. PICK i \in Present : /\ Stored(i, NoVersion)
                           /\ current' = IF current = i THEN NoId ELSE current
  BY DEF DeleteVersion
<1>2. i \in Ids /\ issued' = issued /\ deletes' = deletes + 1 /\ deletes < MaxDeletes
  BY DEF DeleteVersion, Present
<1>3. NoVersion \in Version
  BY GivenOK DEF NoVersion, Version, Sources
<1>4. versions' \in [Ids -> Version]
  BY <1>1, <1>2, <1>3 DEF Rows, Stored
<1>5. versions'[i].number = 0 /\ \A j \in Ids \ {i} : versions'[j] = versions[j]
  BY <1>1, <1>2 DEF Rows, Stored, NoVersion
<1>6. Present' = Present \ {i}
  BY <1>2, <1>5 DEF Present
<1>7. \A j \in Present' : versions'[j] = versions[j]
  BY <1>5, <1>6 DEF Present
<1>8. current' \in Present' \cup {NoId}
  BY <1>1, <1>6 DEF Rows
<1>9. deletes' \in 0 .. MaxDeletes /\ deletes' # 0
  BY <1>2, DiagramVersionsAssumption DEF Rows
<1> QED BY <1>2, <1>4, <1>6, <1>7, <1>8, <1>9 DEF Rows, Given

(***************************************************************************)
(* Requests.                                                               *)
(***************************************************************************)

LEMMA IdleSound == IInv => Idle \in SoundJob
BY GivenOK DEF IInv, Idle, SoundJob, Job

LEMMA FinishOK ==
    ASSUME IInv, NEW p \in Procs, Finish(p)
    PROVE  job' \in [Procs -> SoundJob]
BY IdleSound DEF Finish, IInv

\* Request p goes on as j.
LEMMA JobOK ==
    ASSUME IInv, NEW p \in Procs, NEW j \in SoundJob, job' = [job EXCEPT ![p] = j]
    PROVE  job' \in [Procs -> SoundJob]
BY DEF IInv

\* A sound job stays sound: ids are never taken back.
LEMMA RowsOK ==
    ASSUME IInv, Rows', Given' \in {Given, Given + 1}, job' \in [Procs -> SoundJob]
    PROVE  IInv'
<1>1. 1 .. Given + 1 \subseteq 1 .. Given' + 1
  BY GivenOK DEF IInv
<1>2. SoundJob \subseteq SoundJob'
  BY <1>1 DEF SoundJob
<1> QED BY <1>2 DEF IInv

LEMMA MoveOK ==
    ASSUME IInv, UNCHANGED <<versions, issued, current, deletes>>,
           job' \in [Procs -> SoundJob]
    PROVE  IInv'
<1>1. Rows' /\ Given' = Given
  BY DEF IInv, Rows, Given, Present
<1> QED BY <1>1, RowsOK

LEMMA EndStep ==
    ASSUME IInv, NEW p \in Procs, Finish(p), UNCHANGED <<versions, issued, current, deletes>>
    PROVE  IInv'
BY FinishOK, MoveOK

LEMMA GotoStep ==
    ASSUME IInv, NEW p \in Procs, NEW pc \in {"latest_any", "write", "save"},
           pc # "latest_any" => job[p].pc \in {"merge", "reread"},
           Goto(p, pc), UNCHANGED <<versions, issued, current, deletes>>
    PROVE  IInv'
<1> DEFINE j == [job[p] EXCEPT !.pc = pc]
<1>1. job[p] \in SoundJob
  BY DEF IInv
<1>2. j \in SoundJob
  BY <1>1 DEF SoundJob, Job
<1>3. job' = [job EXCEPT ![p] = j]
  BY DEF Goto
<1>4. job' \in [Procs -> SoundJob]
  BY <1>2, <1>3, JobOK
<1> QED BY <1>4, MoveOK

LEMMA InitOK == Init => IInv
<1> SUFFICES ASSUME Init PROVE IInv
  OBVIOUS
<1>1. Given = 0
  BY FS_EmptySet DEF Init, Given
<1>2. Cardinality(Ids) \in Nat
  BY DiagramVersionsAssumption, FS_CardinalityType
<1>3. NoVersion \in Version
  BY <1>2 DEF NoVersion, Version, Sources
<1>4. Present = {}
  BY DEF Init, Present, NoVersion
<1>5. Rows
  BY <1>1, <1>3, <1>4, DiagramVersionsAssumption DEF Init, Rows
<1>6. Idle \in SoundJob
  BY <1>2 DEF Idle, SoundJob, Job
<1> QED BY <1>5, <1>6 DEF Init, IInv

LEMMA CreateBeginOK ==
    ASSUME IInv, NEW p \in Procs, CreateBegin(p)
    PROVE  IInv'
<1> DEFINE n == NextNumber
           j == [job[p] EXCEPT !.pc = "create", !.number = n]
<1>1. n \in 1 .. Given + 1 /\ n \in 0 .. Cardinality(Ids) + 1
  BY NextNumberOK, GivenOK DEF IInv
<1>2. job' = [job EXCEPT ![p] = j]
  BY DEF CreateBegin
<1> HIDE DEF n
<1>3. job[p] \in SoundJob
  BY DEF IInv
<1>4. j \in SoundJob
  BY <1>1, <1>3 DEF SoundJob, Job
<1>5. job' \in [Procs -> SoundJob]
  BY <1>2, <1>4, JobOK
<1> QED BY <1>5, MoveOK DEF CreateBegin

LEMMA CreateCommitOK ==
    ASSUME IInv, NEW p \in Procs, CreateCommit(p)
    PROVE  IInv'
<1>1. job[p] \in SoundJob /\ job[p].pc = "create" /\ deletes' = deletes
  BY DEF IInv, CreateCommit, At
<1>2. job' \in [Procs -> SoundJob]
  BY FinishOK DEF CreateCommit
<1>3. CASE \E i \in Ids \ issued, y \in Yamls \cup {NoYaml}, s \in Sources :
             /\ Free(job[p].number)
             /\ Stored(i, [number |-> job[p].number, source |-> s,
                           yaml |-> y, canvas |-> Shown(y)])
             /\ issued' = issued \cup {i}
             /\ current' = i
  <2>1. PICK i \in Ids \ issued, y \in Yamls \cup {NoYaml}, s \in Sources :
             /\ Free(job[p].number)
             /\ Stored(i, [number |-> job[p].number, source |-> s,
                           yaml |-> y, canvas |-> Shown(y)])
             /\ issued' = issued \cup {i}
             /\ current' = i
    BY <1>3
  <2>2. job[p].number \in 1 .. Given + 1
    BY <1>1 DEF SoundJob
  <2>3. Shown(y) \in SUBSET Yamls
    BY DEF Shown
  <2>4. Rows' /\ Given' = Given + 1
    BY <1>1, <2>1, <2>2, <2>3, InsertOK DEF IInv
  <2> QED BY <1>2, <2>4, RowsOK
<1>4. CASE UNCHANGED <<versions, issued, current>>
  BY <1>1, <1>2, <1>4, MoveOK
<1> QED BY <1>3, <1>4 DEF CreateCommit

LEMMA UpdateVersionInPlaceOK ==
    ASSUME IInv, NEW p \in Procs, UpdateVersionInPlace(p)
    PROVE  IInv'
<1>1. PICK i \in Present, y \in Yamls \cup {NoYaml}, s \in Sources :
        Stored(i, [versions[i] EXCEPT !.yaml = y, !.canvas = Shown(y), !.source = s])
  BY DEF UpdateVersionInPlace
<1> DEFINE v == [versions[i] EXCEPT !.yaml = y, !.canvas = Shown(y), !.source = s]
<1>2. versions[i] \in Version /\ Shown(y) \in SUBSET Yamls
  BY DEF IInv, Rows, Present, Shown
<1>3. v \in Version /\ v.number = versions[i].number
  BY <1>2 DEF Version
<1>4. UNCHANGED <<issued, current, deletes, job>>
  BY DEF UpdateVersionInPlace
<1>5. Rows' /\ Given' = Given
  BY <1>1, <1>3, <1>4, ReplaceOK DEF IInv
<1> QED BY <1>4, <1>5, RowsOK DEF IInv

LEMMA SaveBeginOK ==
    ASSUME IInv, NEW p \in Procs, NEW y \in Yamls, NEW m \in BOOLEAN, SaveBegin(p, y, m)
    PROVE  IInv'
<1> DEFINE n == NextNumber
           j == [Idle EXCEPT !.pc = "previous", !.yaml = y, !.merge = m, !.number = n]
<1>1. n \in 1 .. Given + 1 /\ n \in 0 .. Cardinality(Ids) + 1
  BY NextNumberOK, GivenOK DEF IInv
<1>2. job' = [job EXCEPT ![p] = j]
  BY DEF SaveBegin
<1> HIDE DEF n
<1>3. j \in SoundJob
  BY <1>1, IdleSound DEF SoundJob, Job, Idle
<1>4. job' \in [Procs -> SoundJob]
  BY <1>2, <1>3, JobOK
<1> QED BY <1>4, MoveOK DEF SaveBegin

LEMMA SavePreviousOK ==
    ASSUME IInv, NEW p \in Procs, SavePrevious(p)
    PROVE  IInv'
<1> DEFINE c == IF job[p].merge /\ Present # {} THEN versions[Highest(Present)].canvas ELSE {}
           j == [job[p] EXCEPT !.pc = "insert", !.base = c]
<1>1. job[p] \in SoundJob /\ job[p].pc = "previous"
  BY DEF IInv, SavePrevious, At
<1>2. c \in SUBSET Yamls
  <2>1. CASE Present = {}
    BY <2>1
  <2>2. CASE Present # {}
    <3>1. Highest(Present) \in Present
      BY <2>2, HighestOK DEF IInv
    <3>2. versions[Highest(Present)] \in Version
      BY <3>1 DEF IInv, Rows, Present
    <3> QED BY <3>2 DEF Version
  <2> QED BY <2>1, <2>2
<1>3. job' = [job EXCEPT ![p] = j]
  BY DEF SavePrevious
<1> HIDE DEF c
<1>4. j \in SoundJob
  BY <1>1, <1>2 DEF SoundJob, Job
<1>5. job' \in [Procs -> SoundJob]
  BY <1>3, <1>4, JobOK
<1> QED BY <1>5, MoveOK DEF SavePrevious

LEMMA SaveInsertOK ==
    ASSUME IInv, NEW p \in Procs, SaveInsert(p)
    PROVE  IInv'
<1>1. job[p] \in SoundJob /\ job[p].pc = "insert" /\ UNCHANGED <<current, deletes>>
  BY DEF IInv, SaveInsert, At
<1>2. CASE \E i \in Ids \ issued :
             /\ Free(job[p].number)
             /\ Stored(i, [number |-> job[p].number, source |-> "amg_apd",
                           yaml |-> job[p].yaml,
                           canvas |-> job[p].base \cup {job[p].yaml}])
             /\ issued' = issued \cup {i}
             /\ job' = [job EXCEPT ![p] = [Idle EXCEPT !.pc = "point", !.id = i]]
  <2>1. PICK i \in Ids \ issued :
             /\ Free(job[p].number)
             /\ Stored(i, [number |-> job[p].number, source |-> "amg_apd",
                           yaml |-> job[p].yaml,
                           canvas |-> job[p].base \cup {job[p].yaml}])
             /\ issued' = issued \cup {i}
             /\ job' = [job EXCEPT ![p] = [Idle EXCEPT !.pc = "point", !.id = i]]
    BY <1>2
  <2>2. /\ job[p].number \in 1 .. Given + 1 /\ job[p].yaml \in Yamls
        /\ job[p].base \cup {job[p].yaml} \in SUBSET Yamls
    BY <1>1 DEF SoundJob, Job
  <2>3. Rows' /\ Given' = Given + 1
    BY <1>1, <2>1, <2>2, InsertOK DEF IInv, Sources
  <2>4. [Idle EXCEPT !.pc = "point", !.id = i] \in SoundJob
    BY IdleSound DEF SoundJob, Job, Idle
  <2>5. job' \in [Procs -> SoundJob]
    BY <2>1, <2>4, JobOK
  <2> QED BY <2>3, <2>5, RowsOK
<1>3. CASE Finish(p) /\ UNCHANGED <<versions, issued>>
  BY <1>1, <1>3, EndStep
<1> QED BY <1>2, <1>3 DEF SaveInsert

LEMMA SavePointOK ==
    ASSUME IInv, NEW p \in Procs, SavePoint(p)
    PROVE  IInv'
<1>1. job' \in [Procs -> SoundJob] /\ UNCHANGED <<versions, issued, deletes>>
  BY FinishOK DEF SavePoint
<1>2. current' \in Present \cup {NoId} /\ Present' = Present
  BY DEF SavePoint, IInv, Rows, Present
<1>3. Rows' /\ Given' = Given
  BY <1>1, <1>2 DEF IInv, Rows, Given
<1> QED BY <1>1, <1>3, RowsOK

\* An analysis of a version in place begins.
LEMMA AnalyseOK ==
    ASSUME IInv, NEW p \in Procs, NEW i \in Ids, NEW y \in Yamls, NEW m \in BOOLEAN,
           NEW k \in BOOLEAN, NEW s \in BOOLEAN, Analyse(p, i, y, m, k, s),
           UNCHANGED <<versions, issued, current, deletes>>
    PROVE  IInv'
<1> DEFINE j == [Idle EXCEPT !.pc = "merge", !.id = i, !.yaml = y, !.merge = m,
                             !.keep = k, !.then_save = s]
<1>1. j \in SoundJob
  BY IdleSound DEF SoundJob, Job, Idle
<1>2. job' = [job EXCEPT ![p] = j]
  BY DEF Analyse
<1>3. job' \in [Procs -> SoundJob]
  BY <1>1, <1>2, JobOK
<1> QED BY <1>3, MoveOK

LEMMA ReadableOK ==
    ASSUME IInv, NEW i \in Readable
    PROVE  i \in Ids /\ versions[i].yaml \in Yamls
<1>1. i \in Ids /\ versions[i] \in Version /\ versions[i].yaml # NoYaml
  BY DEF Readable, Present, IInv, Rows
<1> QED BY <1>1 DEF Version

LEMMA UpdateVersionAnalysisOK ==
    ASSUME IInv, NEW p \in Procs, UpdateVersionAnalysis(p)
    PROVE  IInv'
<1>1. PICK i \in Readable, y \in Yamls : Analyse(p, i, y, y = versions[i].yaml, FALSE, FALSE)
  BY DEF UpdateVersionAnalysis
<1>2. (y = versions[i].yaml) \in BOOLEAN /\ FALSE \in BOOLEAN
  OBVIOUS
<1> QED BY <1>1, <1>2, ReadableOK, AnalyseOK DEF UpdateVersionAnalysis

LEMMA GetLatestForProjectOK ==
    ASSUME IInv, NEW p \in Procs, GetLatestForProject(p)
    PROVE  IInv'
<1> DEFINE amg == {i \in Present : versions[i].source = "amg_apd"}
<1>1. UNCHANGED <<versions, issued, current, deletes>>
  BY DEF GetLatestForProject
<1>2. CASE Goto(p, "latest_any")
  BY <1>1, <1>2, GotoStep
<1>3. CASE /\ Highest(amg) \in Readable
           /\ Analyse(p, Highest(amg), versions[Highest(amg)].yaml, TRUE, TRUE, FALSE)
  BY <1>1, <1>3, ReadableOK, AnalyseOK
<1> QED BY <1>2, <1>3 DEF GetLatestForProject

LEMMA LatestAnyOK ==
    ASSUME IInv, NEW p \in Procs, LatestAny(p)
    PROVE  IInv'
<1>1. UNCHANGED <<versions, issued, current, deletes>>
  BY DEF LatestAny
<1>2. CASE Finish(p)
  BY <1>1, <1>2, EndStep
<1>3. CASE /\ Readable # {}
           /\ Analyse(p, Highest(Readable), versions[Highest(Readable)].yaml,
                      TRUE, FALSE, TRUE)
  <2>1. Readable \in SUBSET Present
    BY DEF Readable
  <2>2. Highest(Readable) \in Readable
    BY <1>3, <2>1, HighestOK DEF IInv
  <2> QED BY <1>1, <1>3, <2>2, ReadableOK, AnalyseOK
<1> QED BY <1>2, <1>3 DEF LatestAny

LEMMA ReadCanvasOK ==
    ASSUME IInv, NEW p \in Procs, ReadCanvas(p)
    PROVE  IInv'
<1>1. /\ job[p] \in SoundJob /\ job[p].pc = "merge"
      /\ UNCHANGED <<versions, issued, current, deletes>>
  BY DEF IInv, ReadCanvas, At
<1>2. CASE Goto(p, "write")
  BY <1>1, <1>2, GotoStep
<1>3. CASE job' = [job EXCEPT ![p].pc = "write", ![p].base = versions[job[p].id].canvas]
  <2> DEFINE c == versions[job[p].id].canvas
             j == [job[p] EXCEPT !.pc = "write", !.base = c]
  <2>1. versions[job[p].id] \in Version
    BY <1>1 DEF IInv, Rows, SoundJob
  <2>2. c \in SUBSET Yamls
    BY <2>1 DEF Version
  <2>3. job' = [job EXCEPT ![p] = j]
    BY <1>3
  <2> HIDE DEF c
  <2>4. j \in SoundJob
    BY <1>1, <2>2 DEF SoundJob, Job
  <2>5. job' \in [Procs -> SoundJob]
    BY <2>3, <2>4, JobOK
  <2> QED BY <1>1, <2>5, MoveOK
<1> QED BY <1>2, <1>3 DEF ReadCanvas

LEMMA WriteAnalysisOK ==
    ASSUME IInv, NEW p \in Procs, WriteAnalysis(p)
    PROVE  IInv'
<1> DEFINE v == versions[job[p].id]
           y == IF job[p].keep THEN v.yaml ELSE job[p].yaml
           s == IF job[p].keep \/ v.number = 1 THEN v.source ELSE "amg_apd"
           c == job[p].base \cup {job[p].yaml}
           w == [v EXCEPT !.canvas = c, !.yaml = y, !.source = s]
<1>1. /\ job[p] \in SoundJob /\ job[p].pc = "write"
      /\ UNCHANGED <<issued, current, deletes>>
  BY DEF IInv, WriteAnalysis, At
<1>2. CASE /\ job[p].id \in Present /\ Stored(job[p].id, w)
           /\ IF job[p].then_save THEN Goto(p, "reread") ELSE Finish(p)
  <2>1. v \in Version
    BY <1>2 DEF IInv, Rows, Present
  <2>2. c \in SUBSET Yamls /\ job[p].yaml \in Yamls
    BY <1>1 DEF SoundJob, Job
  <2>3. y \in Yamls \cup {NoYaml} /\ s \in Sources
    BY <2>1, <2>2 DEF Version, Sources
  <2> HIDE DEF y, s, c
  <2>4. w \in Version /\ w.number = v.number
    BY <2>1, <2>2, <2>3 DEF Version
  <2>5. Rows' /\ Given' = Given
    BY <1>1, <1>2, <2>4, ReplaceOK DEF IInv
  <2>6. job' \in [Procs -> SoundJob]
    <3>1. CASE Finish(p)
      BY <3>1, FinishOK
    <3>2. CASE Goto(p, "reread")
      <4> DEFINE j == [job[p] EXCEPT !.pc = "reread"]
      <4>1. j \in SoundJob
        BY <1>1 DEF SoundJob, Job
      <4>2. job' = [job EXCEPT ![p] = j]
        BY <3>2 DEF Goto
      <4> QED BY <4>1, <4>2, JobOK
    <3> QED BY <1>2, <3>1, <3>2
  <2> QED BY <2>5, <2>6, RowsOK
<1>3. CASE Finish(p) /\ UNCHANGED versions
  BY <1>1, <1>3, EndStep
<1> QED BY <1>2, <1>3 DEF WriteAnalysis

LEMMA RereadOK ==
    ASSUME IInv, NEW p \in Procs, Reread(p)
    PROVE  IInv'
BY EndStep, GotoStep DEF Reread, At

LEMMA StepOK ==
    ASSUME IInv, NEW p \in Procs, Step(p)
    PROVE  IInv'
BY CreateBeginOK, CreateCommitOK, UpdateVersionInPlaceOK, SaveBeginOK, SavePreviousOK,
   SaveInsertOK, SavePointOK, UpdateVersionAnalysisOK, GetLatestForProjectOK, LatestAnyOK,
   ReadCanvasOK, WriteAnalysisOK, RereadOK, EndStep
   DEF Step, Fail

LEMMA NextOK == IInv /\ [Next]_vars => IInv'
<1> SUFFICES ASSUME IInv, [Next]_vars PROVE IInv'
  OBVIOUS
<1>1. CASE DeleteVersion
  <2>1. Rows' /\ Given' = Given /\ job' \in [Procs -> SoundJob]
    BY <1>1, DeleteOK DEF IInv, DeleteVersion
  <2> QED BY <2>1, RowsOK
<1>2. CASE \E p \in Procs : Step(p)
  BY <1>2, StepOK
<1>3. CASE UNCHANGED vars
  BY <1>3, MoveOK DEF vars, IInv
<1> QED BY <1>1, <1>2, <1>3 DEF Next

THEOREM Invariant == Spec => []IInv
BY InitOK, NextOK, PTL DEF Spec

-----------------------------------------------------------------------------
(***************************************************************************)
(* The results.                                                            *)
(***************************************************************************)

\* Every value of the state stays in its type: the project's current version is
\* always one that is there, and no number exceeds the ids there are to give.
THEOREM VersionsTypeCorrect == Spec => []TypeOK
<1>1. IInv => TypeOK
  BY DEF IInv, Rows, TypeOK, SoundJob
<1> QED BY <1>1, Invariant, PTL

\* Two parts of the server number versions without knowing of each other, and all
\* the same no number is given twice and, while nothing is deleted, none is left
\* out.
THEOREM NumbersWithoutGap == Spec => []NumbersContiguous
<1>1. IInv => NumbersContiguous
  <2> SUFFICES ASSUME IInv PROVE NumbersContiguous
    OBVIOUS
  <2>1. ASSUME deletes = 0
        PROVE  {versions[i].number : i \in Present} = 1 .. Cardinality(Present)
    <3>1. /\ Present = issued /\ Cardinality(Present) = Given
          /\ \A n \in 1 .. Given : \E i \in Present : versions[i].number = n
      BY <2>1 DEF IInv, Rows, Given
    <3>2. \A i \in Present : versions[i].number \in 1 .. Given
      BY GivenOK DEF IInv, Rows, Present, Version
    <3> QED BY <3>1, <3>2
  <2> QED BY <2>1 DEF IInv, Rows, NumbersContiguous
<1> QED BY <1>1, Invariant, PTL

\* Whoever read the number, and whenever: if it is still free it is the next.
LEMMA FreeIsNext ==
    ASSUME Rows, deletes = 0, NEW n \in 1 .. Given + 1, Free(n), NEW j \in Present
    PROVE  versions[j].number < n
<1>1. Given \in Nat /\ versions[j].number \in Nat /\ versions[j].number <= Given
  BY GivenOK, DiagramVersionsAssumption DEF Rows, Present, Version
<1>2. n \notin 1 .. Given
  BY DEF Rows, Free
<1> QED BY <1>1, <1>2

\* A step that adds a row has been given a free number.
LEMMA AddedWithFree ==
    ASSUME IInv, NEW p \in Procs, Step(p), NEW i \in Present' \ Present
    PROVE  /\ versions'[i].number \in 1 .. Given + 1 /\ Free(versions'[i].number)
           /\ deletes' = deletes
<1>1. i \in Ids /\ versions[i].number = 0 /\ versions'[i].number # 0
  BY DEF Present
<1>2. versions \in [Ids -> Version] /\ job[p] \in SoundJob
  BY DEF IInv, Rows
<1>3. ASSUME NEW k \in Present, NEW v, v.number = versions[k].number, Stored(k, v)
      PROVE  FALSE
  BY <1>1, <1>2, <1>3 DEF Stored, Present
<1>4. CASE CreateCommit(p)
  <2>1. job[p].number \in 1 .. Given + 1 /\ deletes' = deletes
    BY <1>2, <1>4 DEF CreateCommit, At, SoundJob
  <2>2. PICK k \in Ids \ issued : /\ Free(job[p].number)
                                  /\ \E v : v.number = job[p].number /\ Stored(k, v)
    BY <1>1, <1>4 DEF CreateCommit
  <2>3. versions'[i].number = job[p].number
    BY <1>1, <1>2, <2>2 DEF Stored
  <2> QED BY <2>1, <2>2, <2>3
<1>5. CASE SaveInsert(p)
  <2>1. job[p].number \in 1 .. Given + 1 /\ deletes' = deletes
    BY <1>2, <1>5 DEF SaveInsert, At, SoundJob
  <2>2. PICK k \in Ids \ issued : /\ Free(job[p].number)
                                  /\ \E v : v.number = job[p].number /\ Stored(k, v)
    BY <1>1, <1>5 DEF SaveInsert
  <2>3. versions'[i].number = job[p].number
    BY <1>1, <1>2, <2>2 DEF Stored
  <2> QED BY <2>1, <2>2, <2>3
<1>6. CASE UpdateVersionInPlace(p)
  <2>1. PICK k \in Present, y \in Yamls \cup {NoYaml}, s \in Sources :
          Stored(k, [versions[k] EXCEPT !.yaml = y, !.canvas = Shown(y), !.source = s])
    BY <1>6 DEF UpdateVersionInPlace
  <2>2. k \in Ids
    BY DEF Present
  <2>3. [versions[k] EXCEPT !.yaml = y, !.canvas = Shown(y), !.source = s].number = versions[k].number
    BY <1>2, <2>2 DEF Version
  <2> QED BY <1>3, <2>1, <2>3
<1>7. CASE WriteAnalysis(p)
  <2> DEFINE j == job[p]
             v == versions[j.id]
             w == [v EXCEPT !.canvas = j.base \cup {j.yaml},
                            !.yaml   = IF j.keep THEN @ ELSE j.yaml,
                            !.source = IF j.keep \/ v.number = 1 THEN @ ELSE "amg_apd"]
  <2>1. j.id \in Present /\ Stored(j.id, w)
    BY <1>1, <1>7 DEF WriteAnalysis
  <2>2. w.number = v.number
    <3>1. v \in Version
      BY <1>2, <2>1 DEF Present
    <3> QED BY <3>1 DEF Version
  <2> HIDE DEF w
  <2> QED BY <1>3, <2>1, <2>2
<1>8. CASE UNCHANGED versions
  BY <1>1, <1>8
<1>9. \/ CreateCommit(p) \/ SaveInsert(p) \/ UpdateVersionInPlace(p) \/ WriteAnalysis(p)
      \/ UNCHANGED versions
  BY DEF Step, CreateBegin, SaveBegin, SavePrevious, SavePoint, UpdateVersionAnalysis,
         GetLatestForProject, LatestAny, ReadCanvas, Reread, Fail
<1> QED BY <1>4, <1>5, <1>6, <1>7, <1>8, <1>9

\* A number may be used long after it was read, by an analysis that locks nothing: while
\* nothing is deleted the version last stored has the highest number all the same.
THEOREM NewestHasHighest == Spec => NewestIsHighest
<1> DEFINE Higher == deletes' = 0 => \A i \in Present' \ Present, j \in Present :
                                        versions[j].number < versions'[i].number
<1>1. IInv /\ [Next]_vars => [Higher]_vars
  <2> SUFFICES ASSUME IInv, Next, deletes' = 0,
                      NEW i \in Present' \ Present, NEW j \in Present
               PROVE  versions[j].number < versions'[i].number
    OBVIOUS
  <2>1. CASE DeleteVersion
    <3>1. deletes \in Nat /\ deletes' = deletes + 1
      BY <2>1, DiagramVersionsAssumption DEF IInv, Rows, DeleteVersion
    <3> QED BY <3>1
  <2>2. ASSUME NEW p \in Procs, Step(p)
        PROVE  versions[j].number < versions'[i].number
    BY <2>2, AddedWithFree, FreeIsNext DEF IInv
  <2> QED BY <2>1, <2>2 DEF Next
<1> QED BY <1>1, Invariant, PTL DEF Spec, NewestIsHighest

-----------------------------------------------------------------------------
(***************************************************************************)
(* Detectors and fixes, for any words and links.                           *)
(***************************************************************************)

\* Induction, with a set in the place of a predicate.
LEMMA SetInduction ==
    ASSUME NEW S, 0 \in S, \A n \in Nat : n \in S => n + 1 \in S
    PROVE  \A n \in Nat : n \in S
<1> DEFINE bad == Nat \ S
<1>1. SUFFICES ASSUME bad # {} PROVE FALSE
  OBVIOUS
<1>2. PICK x \in bad : \A y \in bad : ~(<<y, x>> \in OpToRel(<, Nat))
  BY <1>1, NatLessThanWellFounded, WFMin
<1>3. x \in Nat /\ x # 0 /\ x \notin S
  OBVIOUS
<1>4. x - 1 \in Nat /\ x - 1 < x
  BY <1>3
<1>5. x - 1 \in S
  BY <1>2, <1>4 DEF OpToRel
<1> QED BY <1>3, <1>4, <1>5

\* A set of natural numbers that is not empty has a least one.
LEMMA LeastOK ==
    ASSUME NEW S, S \subseteq Nat, S # {}
    PROVE  Min(S) \in S /\ \A y \in S : Min(S) <= y
<1>1. PICK x \in S : \A y \in S : ~(<<y, x>> \in OpToRel(<, Nat))
  BY NatLessThanWellFounded, WFMin
<1>2. ASSUME NEW y \in S PROVE x <= y
  <2>1. y \in Nat /\ x \in Nat
    OBVIOUS
  <2>2. ~(y < x)
    BY <1>1, <2>1 DEF OpToRel
  <2> QED BY <2>1, <2>2
<1>3. \E z \in S : \A y \in S : z <= y
  BY <1>2
<1> QED BY <1>3 DEF Min

\* The values of a recursive function of m .. n, each made of the one before.
IsStep(step, m, n, S) == step \in [S \X (m + 1 .. n) -> S]

\* f starts from base, and step makes each value from the one before it.
IsRun(f, m, n, S, base, step) ==
    /\ f \in [m .. n -> S] /\ f[m] = base
    /\ \A i \in m + 1 .. n : f[i] = step[<<f[i - 1], i>>]

\* Steps that stay in a set make such a function.
LEMMA Iteration ==
    ASSUME NEW m \in Nat, NEW n \in Nat, m <= n, NEW S, NEW base \in S,
           NEW step, IsStep(step, m, n, S)
    PROVE  \E f : IsRun(f, m, n, S, base, step)
<1> DEFINE Solves(f, k) == f \in [m .. m + k -> S] /\ f[m] = base
                           /\ \A i \in m + 1 .. m + k : f[i] = step[<<f[i - 1], i>>]
           S0 == {k \in Nat : m + k <= n => \E f : Solves(f, k)}
<1>1. 0 \in S0
  <2> DEFINE f == [i \in m .. m + 0 |-> base]
  <2>1. Solves(f, 0)
    OBVIOUS
  <2> QED BY <2>1
<1>2. ASSUME NEW k \in Nat, k \in S0 PROVE k + 1 \in S0
  <2>1. SUFFICES ASSUME m + (k + 1) <= n PROVE \E f : Solves(f, k + 1)
    BY DEF S0
  <2>2. PICK f : Solves(f, k)
    BY <1>2, <2>1
  <2>3. f[m + k] \in S /\ m + k + 1 \in m + 1 .. n /\ step \in [S \X (m + 1 .. n) -> S]
    BY <2>1, <2>2 DEF IsStep
  <2> DEFINE new == step[<<f[m + k], m + k + 1>>]
             g == [i \in m .. m + (k + 1) |-> IF i = m + k + 1 THEN new ELSE f[i]]
  <2>4. new \in S
    BY <2>3
  <2> HIDE DEF new
  <2>5. g \in [m .. m + (k + 1) -> S]
    BY <2>2, <2>4
  <2>6. g[m] = base
    BY <2>2
  <2>7. ASSUME NEW i \in m + 1 .. m + (k + 1) PROVE g[i] = step[<<g[i - 1], i>>]
    <3>1. i - 1 \in m .. m + k /\ g[i - 1] = f[i - 1]
      OBVIOUS
    <3>2. CASE i = m + k + 1
      <4>1. g[i] = new /\ i - 1 = m + k
        BY <3>2
      <4> QED BY <3>1, <3>2, <4>1 DEF new
    <3>3. CASE i # m + k + 1
      <4>1. i \in m + 1 .. m + k /\ g[i] = f[i]
        BY <3>3
      <4> QED BY <2>2, <3>1, <4>1
    <3> QED BY <3>2, <3>3
  <2> HIDE DEF g
  <2> QED BY <2>5, <2>6, <2>7
<1>3. n - m \in Nat
  OBVIOUS
<1> HIDE DEF S0
<1>4. n - m \in S0
  BY <1>1, <1>2, <1>3, SetInduction
<1>5. m + (n - m) = n
  OBVIOUS
<1>6. PICK f : Solves(f, n - m)
  BY <1>4, <1>5 DEF S0
<1>7. IsRun(f, m, n, S, base, step)
  BY <1>5, <1>6 DEF IsRun
<1> QED BY <1>7

\* What each step keeps holds of all of them.
LEMMA Stays ==
    ASSUME NEW m \in Nat, NEW n \in Nat, m <= n, NEW S, NEW f, f[m] \in S,
           \A i \in m + 1 .. n : f[i - 1] \in S => f[i] \in S
    PROVE  \A i \in m .. n : f[i] \in S
<1> DEFINE S0 == {k \in Nat : m + k <= n => f[m + k] \in S}
<1>1. 0 \in S0
  OBVIOUS
<1>2. ASSUME NEW k \in Nat, k \in S0 PROVE k + 1 \in S0
  <2>1. SUFFICES ASSUME m + (k + 1) <= n PROVE f[m + (k + 1)] \in S
    OBVIOUS
  <2>2. m + (k + 1) \in m + 1 .. n /\ m + (k + 1) - 1 = m + k /\ f[m + k] \in S
    BY <1>2, <2>1
  <2> QED BY <2>2
<1>3. \A k \in Nat : k \in S0
  <2> HIDE DEF S0
  <2> QED BY <1>1, <1>2, SetInduction
<1> QED
  <2> TAKE i \in m .. n
  <2>1. i - m \in Nat /\ m + (i - m) = i
    OBVIOUS
  <2>2. i - m \in S0
    BY <1>3, <2>1
  <2> QED BY <2>1, <2>2

-----------------------------------------------------------------------------

\* FlattenSeq joins the sequences one after another.
LEMMA FlattenRecursion ==
    ASSUME NEW S, NEW seqs \in Seq(Seq(S)), Len(seqs) # 0
    PROVE  \E f \in [1 .. Len(seqs) -> Seq(S)] :
             /\ FlattenSeq(seqs) = f[Len(seqs)]
             /\ f[1] = seqs[1]
             /\ \A i \in 2 .. Len(seqs) : f[i] = f[i - 1] \o seqs[i]
<1> DEFINE n == Len(seqs)
           X == Seq(S)
           Solves(f) == f = [i \in 1 .. n |-> IF i = 1 THEN seqs[i] ELSE f[i - 1] \o seqs[i]]
           step == [p \in X \X (1 + 1 .. n) |-> p[1] \o seqs[p[2]]]
<1>1. n \in Nat /\ 1 <= n /\ seqs[1] \in X /\ \A i \in 1 .. n : seqs[i] \in X
  OBVIOUS
<1>2. IsStep(step, 1, n, X)
  BY <1>1 DEF IsStep
<1>3. PICK f : IsRun(f, 1, n, X, seqs[1], step)
  <2> HIDE DEF step, n, X
  <2>1. 1 \in Nat
    OBVIOUS
  <2> QED BY <1>1, <1>2, <2>1, Iteration
<1>4. /\ f \in [1 .. n -> X] /\ f[1] = seqs[1]
      /\ \A i \in 1 + 1 .. n : f[i] = step[<<f[i - 1], i>>]
  BY <1>3 DEF IsRun
<1>5. \A i \in 2 .. n : f[i] = f[i - 1] \o seqs[i]
  <2> TAKE i \in 2 .. n
  <2>1. i \in 1 + 1 .. n /\ i - 1 \in 1 .. n
    BY <1>1
  <2>2. f[i - 1] \in X
    <3> HIDE DEF X, n
    <3> QED BY <1>4, <2>1
  <2> QED BY <1>4, <2>1, <2>2
<1>6. Solves(f)
  <2>1. \A i \in 1 .. n : i = 1 \/ i \in 2 .. n
    OBVIOUS
  <2> HIDE DEF n, X
  <2> QED BY <1>4, <1>5, <2>1
<1> DEFINE kept == CHOOSE g : Solves(g)
<1>7. Solves(kept)
  <2> HIDE DEF Solves
  <2> QED BY <1>6
<1>8. FlattenSeq(seqs) = kept[n]
  BY DEF FlattenSeq
<1> HIDE DEF kept
<1>9. kept[1] = seqs[1] /\ \A i \in 2 .. n : kept[i] = kept[i - 1] \o seqs[i]
  <2>1. \A i \in 1 .. n : kept[i] = IF i = 1 THEN seqs[i] ELSE kept[i - 1] \o seqs[i]
    BY <1>7
  <2>2. ASSUME NEW i \in 2 .. n PROVE kept[i] = kept[i - 1] \o seqs[i]
    <3>1. i \in 1 .. n /\ i # 1
      OBVIOUS
    <3> QED BY <2>1, <3>1
  <2>3. kept[1] = seqs[1]
    BY <1>1, <2>1
  <2> QED BY <2>2, <2>3
<1>10. \A i \in 1 .. n : kept[i] \in X
  <2>1. kept[1] \in X
    BY <1>1, <1>9
  <2>2. ASSUME NEW i \in 1 + 1 .. n, kept[i - 1] \in X PROVE kept[i] \in X
    <3>1. i \in 2 .. n /\ i \in 1 .. n
      OBVIOUS
    <3>2. seqs[i] \in X /\ kept[i] = kept[i - 1] \o seqs[i]
      BY <1>1, <1>9, <3>1
    <3> QED BY <2>2, <3>2
  <2> HIDE DEF n, X, Solves
  <2> QED BY <1>1, <2>1, <2>2, Stays
<1>11. kept \in [1 .. n -> X]
  <2>1. kept = [i \in 1 .. n |-> IF i = 1 THEN seqs[i] ELSE kept[i - 1] \o seqs[i]]
    BY <1>7
  <2>2. DOMAIN kept = 1 .. n /\ kept = [i \in DOMAIN kept |-> kept[i]]
    <3> HIDE DEF n, X
    <3> QED BY <2>1
  <2> HIDE DEF n, X, Solves
  <2> QED BY <1>10, <2>2
<1> QED BY <1>8, <1>9, <1>11

\* A sequence of sequences, one after another: it begins with the first of them, and has
\* the members of all.
LEMMA FlattenOK ==
    ASSUME NEW S, NEW seqs \in Seq(Seq(S))
    PROVE  /\ FlattenSeq(seqs) \in Seq(S)
           /\ Range(FlattenSeq(seqs)) = UNION {Range(seqs[i]) : i \in DOMAIN seqs}
<1>1. CASE Len(seqs) = 0
  <2>1. seqs = <<>> /\ FlattenSeq(seqs) = <<>>
    BY <1>1 DEF FlattenSeq
  <2>2. DOMAIN seqs = {}
    BY <1>1
  <2>4. FlattenSeq(seqs) \in Seq(S)
    BY <2>1, EmptySeq
  <2>3. Range(FlattenSeq(seqs)) = {}
    BY <2>1 DEF Range
  <2> QED BY <2>2, <2>3, <2>4
<1>2. CASE Len(seqs) # 0
  <2> DEFINE n == Len(seqs)
  <2>1. PICK f \in [1 .. n -> Seq(S)] :
             /\ FlattenSeq(seqs) = f[n]
             /\ f[1] = seqs[1]
             /\ \A i \in 2 .. n : f[i] = f[i - 1] \o seqs[i]
    BY <1>2, FlattenRecursion
  <2>2. n \in Nat /\ 1 <= n /\ DOMAIN seqs = 1 .. n /\ \A i \in 1 .. n : seqs[i] \in Seq(S)
    BY <1>2
  <2> HIDE DEF n
  <2> DEFINE S0 == {i \in 1 .. n : Range(f[i]) = UNION {Range(seqs[j]) : j \in 1 .. i}}
             g == [i \in 1 .. n |-> i]
  <2>3. g[1] \in S0
    BY <2>1, <2>2 DEF Range
  <2>4. ASSUME NEW i \in 1 + 1 .. n, g[i - 1] \in S0 PROVE g[i] \in S0
    <3>1. i - 1 \in 1 .. n /\ i \in 1 .. n /\ g[i - 1] = i - 1 /\ g[i] = i
      BY <2>2
    <3>2. f[i] = f[i - 1] \o seqs[i] /\ f[i - 1] \in Seq(S) /\ seqs[i] \in Seq(S)
      <4>1. i \in 2 .. n
        OBVIOUS
      <4> QED BY <2>1, <2>2, <3>1, <4>1
    <3>3. Range(f[i]) = Range(f[i - 1]) \cup Range(seqs[i])
      <4> HIDE DEF g, S0
      <4> DEFINE a == f[i - 1]
                 b == seqs[i]
      <4>1. a \in Seq(S) /\ b \in Seq(S) /\ f[i] = a \o b
        BY <3>2
      <4> HIDE DEF a, b
      <4>2. Range(a \o b) = Range(a) \cup Range(b)
        <5>1. Len(a \o b) = Len(a) + Len(b) /\ \A k \in 1 .. Len(a) + Len(b) :
                  (a \o b)[k] = IF k <= Len(a) THEN a[k] ELSE b[k - Len(a)]
          BY <4>1, ConcatProperties
        <5>2. DOMAIN (a \o b) = 1 .. Len(a) + Len(b) /\ DOMAIN a = 1 .. Len(a) /\ DOMAIN b = 1 .. Len(b)
              /\ Len(a) \in Nat /\ Len(b) \in Nat
          BY <4>1
        <5>3. ASSUME NEW k \in DOMAIN b PROVE k + Len(a) \in DOMAIN (a \o b) /\ (a \o b)[k + Len(a)] = b[k]
          BY <5>1, <5>2
        <5>4. ASSUME NEW k \in DOMAIN a PROVE k \in DOMAIN (a \o b) /\ (a \o b)[k] = a[k]
          BY <5>1, <5>2
        <5>5. ASSUME NEW k \in DOMAIN (a \o b) PROVE (a \o b)[k] \in Range(a) \cup Range(b)
          <6>1. CASE k <= Len(a)
            BY <5>1, <5>2, <6>1 DEF Range
          <6>2. CASE k > Len(a)
            <7>1. k - Len(a) \in DOMAIN b
              BY <5>2, <6>2
            <7> QED BY <5>1, <5>2, <6>2, <7>1 DEF Range
          <6> QED BY <5>2, <6>1, <6>2
        <5> DEFINE c == a \o b
        <5> HIDE DEF c
        <5>6. Range(a) \subseteq Range(c)
          BY <5>4 DEF Range, c
        <5>7. Range(b) \subseteq Range(c)
          BY <5>3 DEF Range, c
        <5>8. Range(c) \subseteq Range(a) \cup Range(b)
          BY <5>5 DEF Range, c
        <5> QED BY <5>6, <5>7, <5>8 DEF c
      <4> QED BY <4>1, <4>2 DEF a, b
    <3>4. 1 .. i = (1 .. i - 1) \cup {i}
      BY <3>1
    <3>5. Range(f[i - 1]) = UNION {Range(seqs[j]) : j \in 1 .. i - 1}
      BY <2>4, <3>1
    <3>6. Range(f[i]) = UNION {Range(seqs[j]) : j \in 1 .. i}
      BY <3>3, <3>4, <3>5
    <3> QED BY <3>1, <3>6
  <2>5. g[n] \in S0
    <3> HIDE DEF g, S0
    <3>1. \A i \in 1 + 1 .. n : g[i - 1] \in S0 => g[i] \in S0
      BY <2>4
    <3>2. 1 \in Nat
      OBVIOUS
    <3>3. \A i \in 1 .. n : g[i] \in S0
      BY <2>2, <2>3, <3>1, <3>2, Stays
    <3> QED BY <2>2, <3>3
  <2> QED BY <2>1, <2>2, <2>5
<1> QED BY <1>1, <1>2

\* The members of a sequence that are in a set, in a sequence.
LEMMA OnlyOK ==
    ASSUME NEW S, NEW seq \in Seq(S), NEW T
    PROVE  Only(seq, T) \in Seq(S \cap T) /\ Range(Only(seq, T)) = Range(seq) \cap T
<1> DEFINE seqs == [i \in DOMAIN seq |-> IF seq[i] \in T THEN <<seq[i]>> ELSE <<>>]
<1>1. ASSUME NEW i \in DOMAIN seq
      PROVE  (IF seq[i] \in T THEN <<seq[i]>> ELSE <<>>) \in Seq(S \cap T)
  <2>1. seq[i] \in S
    OBVIOUS
  <2>2. CASE seq[i] \in T
    <3>1. seq[i] \in S \cap T
      BY <2>1, <2>2
    <3> QED BY <2>2, <3>1
  <2>3. CASE seq[i] \notin T
    BY <2>3
  <2> QED BY <2>2, <2>3
<1>2. seqs \in Seq(Seq(S \cap T)) /\ DOMAIN seqs = DOMAIN seq
  <2>1. DOMAIN seq = 1 .. Len(seq) /\ Len(seq) \in Nat
    OBVIOUS
  <2> DEFINE X == Seq(S \cap T)
  <2>2. \A i \in 1 .. Len(seq) : (IF seq[i] \in T THEN <<seq[i]>> ELSE <<>>) \in X
    BY <1>1, <2>1
  <2> HIDE DEF X
  <2>3. seqs \in Seq(X)
    BY <2>1, <2>2, IsASeq
  <2> QED BY <2>1, <2>3 DEF X
<1>3. Only(seq, T) = FlattenSeq(seqs)
  BY DEF Only
<1>4. \A i \in DOMAIN seq : Range(seqs[i]) = {seq[i]} \cap T
  BY DEF Range
<1> HIDE DEF seqs
<1>5. /\ FlattenSeq(seqs) \in Seq(S \cap T)
      /\ Range(FlattenSeq(seqs)) = UNION {Range(seqs[i]) : i \in DOMAIN seqs}
  BY <1>2, FlattenOK
<1>6. UNION {Range(seqs[i]) : i \in DOMAIN seqs} = Range(seq) \cap T
  BY <1>2, <1>4 DEF Range
<1> QED BY <1>3, <1>5, <1>6

\* Joining two sequences joins what they hold.
LEMMA ConcatRange ==
    ASSUME NEW S, NEW a \in Seq(S), NEW b \in Seq(S)
    PROVE  Range(a \o b) = Range(a) \cup Range(b)
<1>1. Len(a \o b) = Len(a) + Len(b) /\ \A k \in 1 .. Len(a) + Len(b) :
          (a \o b)[k] = IF k <= Len(a) THEN a[k] ELSE b[k - Len(a)]
  BY ConcatProperties
<1>2. DOMAIN (a \o b) = 1 .. Len(a) + Len(b) /\ DOMAIN a = 1 .. Len(a) /\ DOMAIN b = 1 .. Len(b)
      /\ Len(a) \in Nat /\ Len(b) \in Nat
  OBVIOUS
<1>3. ASSUME NEW k \in DOMAIN b PROVE k + Len(a) \in DOMAIN (a \o b) /\ (a \o b)[k + Len(a)] = b[k]
  BY <1>1, <1>2
<1>4. ASSUME NEW k \in DOMAIN a PROVE k \in DOMAIN (a \o b) /\ (a \o b)[k] = a[k]
  BY <1>1, <1>2
<1>5. ASSUME NEW k \in DOMAIN (a \o b) PROVE (a \o b)[k] \in Range(a) \cup Range(b)
  <2>1. CASE k <= Len(a)
    BY <1>1, <1>2, <2>1 DEF Range
  <2>2. CASE k > Len(a)
    <3>1. k - Len(a) \in DOMAIN b
      BY <1>2, <2>2
    <3> QED BY <1>1, <1>2, <2>2, <3>1 DEF Range
  <2> QED BY <1>2, <2>1, <2>2
<1>6. Range(a \o b) \subseteq Range(a) \cup Range(b)
  BY <1>5 DEF Range
<1>7. Range(a) \subseteq Range(a \o b)
  BY <1>4 DEF Range
<1>8. Range(b) \subseteq Range(a \o b)
  BY <1>3 DEF Range
<1> QED BY <1>6, <1>7, <1>8

\* The first of the sequences is where it was, and the others follow.
LEMMA FlattenHead ==
    ASSUME NEW S, NEW seqs \in Seq(Seq(S)), Len(seqs) # 0
    PROVE  LET flat == FlattenSeq(seqs) IN
           /\ \A k \in DOMAIN seqs[1] : k \in DOMAIN flat /\ flat[k] = seqs[1][k]
           /\ \A k \in DOMAIN flat \ DOMAIN seqs[1] :
                \E j \in 2 .. Len(seqs) : flat[k] \in Range(seqs[j])
<1> DEFINE n == Len(seqs)
           first == seqs[1]
           Begins(i, x) == /\ \A k \in DOMAIN first : k \in DOMAIN x /\ x[k] = first[k]
                           /\ \A k \in DOMAIN x \ DOMAIN first : \E j \in 2 .. i : x[k] \in Range(seqs[j])
<1>1. PICK f \in [1 .. n -> Seq(S)] :
           /\ FlattenSeq(seqs) = f[n]
           /\ f[1] = seqs[1]
           /\ \A i \in 2 .. n : f[i] = f[i - 1] \o seqs[i]
  BY FlattenRecursion
<1>2. n \in Nat /\ 1 <= n /\ first \in Seq(S) /\ \A i \in 1 .. n : seqs[i] \in Seq(S)
  OBVIOUS
<1> HIDE DEF n
<1> DEFINE S0 == {i \in 1 .. n : Begins(i, f[i])}
           g == [i \in 1 .. n |-> i]
<1>3. g[1] \in S0
  <2>1. Begins(1, f[1])
    BY <1>1
  <2> HIDE DEF Begins
  <2> QED BY <1>2, <2>1
<1>4. ASSUME NEW i \in 1 + 1 .. n, g[i - 1] \in S0 PROVE g[i] \in S0
  <2>1. i - 1 \in 1 .. n /\ i \in 1 .. n /\ i \in 2 .. n /\ g[i - 1] = i - 1 /\ g[i] = i
    BY <1>2
  <2>2. Begins(i - 1, f[i - 1])
    BY <1>4, <2>1
  <2> DEFINE a == f[i - 1]
             b == seqs[i]
  <2>3. f[i] = a \o b
    BY <1>1, <2>1
  <2>4. a \in Seq(S) /\ b \in Seq(S)
    BY <1>1, <1>2, <2>1
  <2>5. 2 .. i = (2 .. i - 1) \cup {i}
    BY <2>1
  <2>6. Begins(i, f[i])
    <3> HIDE DEF a
    <3>1. Begins(i - 1, a)
      BY <2>2 DEF a
    <3>2. DOMAIN a = 1 .. Len(a) /\ DOMAIN b = 1 .. Len(b) /\ Len(a) \in Nat /\ Len(b) \in Nat
      BY <2>4
    <3>3. DOMAIN f[i] = 1 .. Len(a) + Len(b)
          /\ \A k \in 1 .. Len(a) + Len(b) : f[i][k] = IF k <= Len(a) THEN a[k] ELSE b[k - Len(a)]
      <4> HIDE DEF b
      <4>1. DOMAIN (a \o b) = 1 .. Len(a) + Len(b)
            /\ \A k \in 1 .. Len(a) + Len(b) : (a \o b)[k] = IF k <= Len(a) THEN a[k] ELSE b[k - Len(a)]
        BY <2>4, ConcatProperties
      <4> QED BY <2>3, <4>1
    <3>4. ASSUME NEW k \in DOMAIN first PROVE k \in DOMAIN f[i] /\ f[i][k] = first[k]
      <4> HIDE DEF first
      <4>1. k \in DOMAIN a /\ a[k] = first[k]
        BY <3>1
      <4> HIDE DEF b
      <4>2. k \in 1 .. Len(a)
        BY <3>2, <4>1
      <4>3. k \in 1 .. Len(a) + Len(b) /\ k <= Len(a)
        BY <3>2, <4>2
      <4>4. k \in DOMAIN f[i] /\ f[i][k] = a[k]
        BY <3>3, <4>3
      <4> QED BY <4>1, <4>4
    <3>5. ASSUME NEW k \in DOMAIN f[i] \ DOMAIN first
          PROVE  \E j \in 2 .. i : f[i][k] \in Range(seqs[j])
      <4>1. CASE k \in DOMAIN a
        <5> HIDE DEF first, b
        <5>1. f[i][k] = a[k]
          BY <3>2, <3>3, <4>1
        <5> QED BY <2>5, <3>1, <4>1, <5>1
      <4>2. CASE k \notin DOMAIN a
        <5>1. k - Len(a) \in DOMAIN b /\ f[i][k] = b[k - Len(a)]
          <6> HIDE DEF b
          <6> QED BY <3>2, <3>3, <4>2
        <5>2. f[i][k] \in Range(seqs[i])
          BY <5>1 DEF Range
        <5> QED BY <2>1, <5>2
      <4> QED BY <4>1, <4>2
    <3> QED BY <3>4, <3>5
  <2> HIDE DEF Begins
  <2> QED BY <2>1, <2>6
<1>5. g[n] \in S0
  <2> HIDE DEF g, S0
  <2>1. \A i \in 1 + 1 .. n : g[i - 1] \in S0 => g[i] \in S0
    BY <1>4
  <2>2. 1 \in Nat
    OBVIOUS
  <2>3. \A i \in 1 .. n : g[i] \in S0
    BY <1>2, <1>3, <2>1, <2>2, Stays
  <2> QED BY <1>2, <2>3
<1>6. Begins(n, f[n])
  <2> HIDE DEF Begins
  <2> QED BY <1>2, <1>5
<1> QED BY <1>1, <1>6 DEF n

\* Distinct keeps every member of a sequence.
LEMMA DistinctOK ==
    ASSUME NEW S, NEW seq \in Seq(S)
    PROVE  Distinct(seq) \in Seq(S) /\ Range(Distinct(seq)) = Range(seq)
<1> DEFINE places == [i \in DOMAIN seq |-> i]
           first == {i \in DOMAIN seq : \A j \in 1 .. i - 1 : seq[j] # seq[i]}
           at == Only(places, first)
<1>1. DOMAIN seq = 1 .. Len(seq) /\ Len(seq) \in Nat /\ \A i \in DOMAIN seq : seq[i] \in S
  OBVIOUS
<1>2. places \in Seq(DOMAIN seq) /\ Range(places) = DOMAIN seq
  BY <1>1 DEF Range
<1>3. at \in Seq(DOMAIN seq \cap first) /\ Range(at) = DOMAIN seq \cap first
  <2> HIDE DEF places, first
  <2> QED BY <1>2, OnlyOK
<1>4. Distinct(seq) = [k \in DOMAIN at |-> seq[at[k]]]
  BY DEF Distinct
<1> HIDE DEF at
<1>5. DOMAIN at = 1 .. Len(at) /\ Len(at) \in Nat /\ \A k \in DOMAIN at : at[k] \in first
  <2> HIDE DEF first
  <2> QED BY <1>3
<1>6. \A k \in 1 .. Len(at) : seq[at[k]] \in S
  BY <1>1, <1>5
<1>7. Distinct(seq) \in Seq(S) /\ DOMAIN Distinct(seq) = DOMAIN at
  BY <1>4, <1>5, <1>6
<1>8. ASSUME NEW i \in DOMAIN seq PROVE \E k \in DOMAIN at : seq[at[k]] = seq[i]
  <2> DEFINE same == {j \in DOMAIN seq : seq[j] = seq[i]}
  <2>1. same \subseteq Nat /\ same # {}
    BY <1>1
  <2>2. Min(same) \in same /\ \A y \in same : Min(same) <= y
    <3> HIDE DEF same
    <3> QED BY <2>1, LeastOK
  <2>3. PICK m \in same : \A y \in same : m <= y
    BY <2>2
  <2>4. m \in first
    BY <1>1, <2>3
  <2>5. m \in Range(at)
    BY <1>3, <2>4
  <2> QED BY <2>3, <2>5 DEF Range
<1>9. Range(Distinct(seq)) = {seq[at[k]] : k \in DOMAIN at}
  BY <1>4 DEF Range
<1>10. {seq[at[k]] : k \in DOMAIN at} = {seq[i] : i \in DOMAIN seq}
  BY <1>5, <1>8
<1> QED BY <1>7, <1>9, <1>10 DEF Range

\* The sequences with each member of a finite set once.
LEMMA SetToSeqsOK ==
    ASSUME NEW S, IsFiniteSet(S), NEW order \in SetToSeqs(S)
    PROVE  /\ order \in Seq(S) /\ Range(order) = S
           /\ \A i, j \in DOMAIN order : order[i] = order[j] => i = j
<1> DEFINE n == Cardinality(S)
<1>1. n \in Nat
  BY FS_CardinalityType
<1>2. order \in [1 .. n -> S] /\ \A i, j \in 1 .. n : i # j => order[i] # order[j]
  BY DEF SetToSeqs
<1> HIDE DEF n
<1>3. order \in Seq(S) /\ DOMAIN order = 1 .. n
  BY <1>1, <1>2
<1>4. ASSUME NEW y \in S, y \notin Range(order) PROVE FALSE
  <2>1. order \in [1 .. n -> S \ {y}]
    BY <1>2, <1>4 DEF Range
  <2>2. IsFiniteSet(S \ {y}) /\ Cardinality(S \ {y}) = n - 1
    BY FS_RemoveElement DEF n
  <2>3. IsFiniteSet(1 .. n) /\ Cardinality(1 .. n) = n
    BY <1>1, FS_Interval
  <2>4. \E i, j \in 1 .. n : i # j /\ order[i] = order[j]
    <3> DEFINE A == 1 .. n
               B == S \ {y}
    <3>1. IsFiniteSet(A) /\ IsFiniteSet(B) /\ Cardinality(B) < Cardinality(A) /\ order \in [A -> B]
      BY <1>1, <2>1, <2>2, <2>3
    <3> HIDE DEF A, B
    <3>2. \E i, j \in A : i # j /\ order[i] = order[j]
      BY <3>1, FS_PigeonHole
    <3> QED BY <3>2 DEF A
  <2> QED BY <1>2, <2>4
<1>5. Range(order) = S
  BY <1>2, <1>4 DEF Range
<1> QED BY <1>2, <1>3, <1>5

(***************************************************************************)
(* What calls reach, and the invariant of Tarjan's search.                 *)
(***************************************************************************)

\* A finite graph: of each service the services it calls, in order.
IsCalls(calls) == calls \in [DOMAIN calls -> Seq(DOMAIN calls)] /\ IsFiniteSet(DOMAIN calls)

\* No call leaves T.
Closed(calls, T) == \A x \in T : Range(calls[x]) \subseteq T

\* What is in each closed set that x is in.
Reached(calls, x) ==
    {y \in DOMAIN calls : \A T \in SUBSET DOMAIN calls : x \in T /\ Closed(calls, T) => y \in T}

\* The services that x reaches and that reach x.
Component(calls, x) == {y \in DOMAIN calls : y \in Reached(calls, x) /\ x \in Reached(calls, y)}

\* Reaching is reflexive and transitive, calls reach, and a set that no call leaves holds
\* all that its members reach.
LEMMA ReachedOK ==
    ASSUME NEW calls, IsCalls(calls)
    PROVE  /\ \A x \in DOMAIN calls : x \in Reached(calls, x)
           /\ \A x, y, z \in DOMAIN calls :
                y \in Reached(calls, x) /\ z \in Reached(calls, y) => z \in Reached(calls, x)
           /\ \A x \in DOMAIN calls : \A k \in DOMAIN calls[x] :
                calls[x][k] \in DOMAIN calls /\ calls[x][k] \in Reached(calls, x)
           /\ \A x \in DOMAIN calls : \A T \in SUBSET DOMAIN calls :
                x \in T /\ Closed(calls, T) => Reached(calls, x) \subseteq T
<1>1. \A x \in DOMAIN calls : x \in Reached(calls, x)
  BY DEF Reached
<1>2. \A x, y, z \in DOMAIN calls :
        y \in Reached(calls, x) /\ z \in Reached(calls, y) => z \in Reached(calls, x)
  BY DEF Reached
<1>3. \A x \in DOMAIN calls : \A k \in DOMAIN calls[x] :
        calls[x][k] \in DOMAIN calls /\ calls[x][k] \in Reached(calls, x)
  <2> TAKE x \in DOMAIN calls
  <2> TAKE k \in DOMAIN calls[x]
  <2>1. calls[x] \in Seq(DOMAIN calls)
    BY DEF IsCalls
  <2>2. calls[x][k] \in DOMAIN calls
    BY <2>1
  <2>3. calls[x][k] \in Range(calls[x])
    BY DEF Range
  <2> QED BY <2>2, <2>3 DEF Reached, Closed
<1>4. \A x \in DOMAIN calls : \A T \in SUBSET DOMAIN calls :
        x \in T /\ Closed(calls, T) => Reached(calls, x) \subseteq T
  BY DEF Reached
<1> QED BY <1>1, <1>2, <1>3, <1>4

\* Components are equal or have no member in common.
LEMMA ComponentsOK ==
    ASSUME NEW calls, IsCalls(calls)
    PROVE  \A x, y \in DOMAIN calls :
             /\ x \in Component(calls, x)
             /\ y \in Component(calls, x) => Component(calls, y) = Component(calls, x)
<1>1. /\ \A x \in DOMAIN calls : x \in Reached(calls, x)
      /\ \A x, y, z \in DOMAIN calls :
           y \in Reached(calls, x) /\ z \in Reached(calls, y) => z \in Reached(calls, x)
  BY ReachedOK
<1> QED BY <1>1 DEF Component

-----------------------------------------------------------------------------

\* The services met have different numbers, counted from one.
Counted(M, id) ==
    /\ id \in [M -> Nat]
    /\ \A x, y \in M : id[x] = id[y] => x = y
    /\ \A x \in M : 1 <= id[x] /\ id[x] <= Cardinality(M)

\* Calls before `at' have been followed, all of them unless dfs is at the service; what they
\* name has been met, but for what is about to be.
Followed(calls, M, at, P, pending) ==
    /\ at \in [M -> Nat]
    /\ \A x \in M : 1 <= at[x] /\ at[x] <= Len(calls[x]) + 1 /\ (x \notin P => at[x] = Len(calls[x]) + 1)
    /\ \A x \in M : \A k \in 1 .. at[x] - 1 : calls[x][k] \in M \cup pending

\* Each service on the stack reaches one before it, or itself, that dfs is at; and is reached
\* from all of those.
Joined(calls, id, K, P) ==
    /\ \A x \in K : \E y \in P : id[y] <= id[x] /\ y \in Reached(calls, x)
    /\ \A y \in P : \A x \in K : id[y] <= id[x] => x \in Reached(calls, y)

\* low of a service dfs is at is the number of one that it reaches.
LowReached(calls, id, low, K, P) ==
    \A v \in P : low[v] <= id[v] /\ \E z \in K : low[v] = id[z] /\ z \in Reached(calls, v)

\* A call between two services on the stack has lowered low of the last service, not after
\* the first of them, that dfs is at.
LowLeast(calls, id, low, at, K, P) ==
    \A x \in K : \A k \in 1 .. at[x] - 1 : calls[x][k] \in K =>
      \E u \in P : /\ id[u] <= id[x] /\ low[u] <= id[calls[x][k]]
                   /\ \A v \in P : id[v] <= id[x] => id[v] <= id[u]

\* Services met and no longer on the stack call only such services.
Finished(calls, M, K) ==
    \A x \in M \ K : \A k \in DOMAIN calls[x] : calls[x][k] \in M \ K

\* The invariant of the search: M has been met, K is on the stack, P on the path, and the
\* calls in `pending' are about to be followed.
Searching(calls, M, id, low, at, K, P, pending) ==
    /\ M \subseteq DOMAIN calls /\ IsFiniteSet(M) /\ K \subseteq M /\ P \subseteq K
    /\ low \in [M -> Nat]
    /\ Counted(M, id)
    /\ Followed(calls, M, at, P, pending)
    /\ Joined(calls, id, K, P)
    /\ LowReached(calls, id, low, K, P)
    /\ LowLeast(calls, id, low, at, K, P)
    /\ Finished(calls, M, K)

\* dfs(w) begins.
LEMMA EnterKeeps ==
    ASSUME NEW calls, IsCalls(calls), NEW M, NEW id, NEW low, NEW at, NEW K, NEW P, NEW pending,
           Searching(calls, M, id, low, at, K, P, pending),
           NEW w \in DOMAIN calls \ M, pending \subseteq {w}, \A y \in P : w \in Reached(calls, y)
    PROVE  LET k == Cardinality(M) + 1
           IN Searching(calls, M \cup {w}, Put(id, w, k), Put(low, w, k), Put(at, w, 1),
                        K \cup {w}, P \cup {w}, {})
<1> DEFINE k == Cardinality(M) + 1
           M1 == M \cup {w}
           id1 == Put(id, w, k)
           low1 == Put(low, w, k)
           at1 == Put(at, w, 1)
           K1 == K \cup {w}
           P1 == P \cup {w}
<1>1. /\ M \subseteq DOMAIN calls /\ IsFiniteSet(M) /\ K \subseteq M /\ P \subseteq K
      /\ low \in [M -> Nat] /\ id \in [M -> Nat] /\ at \in [M -> Nat]
  BY DEF Searching, Counted, Followed
<1>2. Cardinality(M) \in Nat /\ IsFiniteSet(M1) /\ Cardinality(M1) = k /\ k \in Nat
  BY <1>1, FS_CardinalityType, FS_AddElement
<1> HIDE DEF k
<1>3. id1 \in [M1 -> Nat] /\ id1[w] = k /\ \A x \in M : id1[x] = id[x]
  BY <1>1, <1>2 DEF Put
<1>4. low1 \in [M1 -> Nat] /\ low1[w] = k /\ \A x \in M : low1[x] = low[x]
  BY <1>1, <1>2 DEF Put
<1>5. at1 \in [M1 -> Nat] /\ at1[w] = 1 /\ \A x \in M : at1[x] = at[x]
  BY <1>1 DEF Put
<1> HIDE DEF id1, low1, at1
<1>6. \A x \in M : id[x] \in Nat /\ id[x] < k
  BY <1>1, <1>2 DEF Searching, Counted, k
<1>7. Counted(M1, id1)
  <2>1. \A x, y \in M1 : id1[x] = id1[y] => x = y
    BY <1>2, <1>3, <1>6 DEF Searching, Counted
  <2>2. \A x \in M1 : 1 <= id1[x] /\ id1[x] <= Cardinality(M1)
    <3>1. 1 <= k
      BY <1>2 DEF k
    <3>2. \A x \in M : 1 <= id[x] /\ id[x] <= k
      BY <1>2, <1>6 DEF Searching, Counted
    <3> QED BY <1>2, <1>3, <3>1, <3>2
  <2> QED BY <1>3, <2>1, <2>2 DEF Counted
<1>8. Followed(calls, M1, at1, P1, {})
  <2>1. Len(calls[w]) \in Nat
    BY DEF IsCalls
  <2>2. \A x \in M1 : 1 <= at1[x] /\ at1[x] <= Len(calls[x]) + 1
                      /\ (x \notin P1 => at1[x] = Len(calls[x]) + 1)
    BY <1>5, <2>1 DEF Searching, Followed
  <2>3. ASSUME NEW x \in M1, NEW i \in 1 .. at1[x] - 1 PROVE calls[x][i] \in M1 \cup {}
    <3>1. x \in M
      BY <1>5
    <3> QED BY <1>5, <3>1 DEF Searching, Followed
  <2> QED BY <1>5, <2>2, <2>3 DEF Followed
<1>9. Joined(calls, id1, K1, P1)
  <2>1. w \in Reached(calls, w)
    BY ReachedOK
  <2>2. ASSUME NEW x \in K1 PROVE \E y \in P1 : id1[y] <= id1[x] /\ y \in Reached(calls, x)
    <3>1. CASE x = w
      BY <1>2, <1>3, <2>1, <3>1
    <3>2. CASE x \in K
      <4>1. PICK y \in P : id[y] <= id[x] /\ y \in Reached(calls, x)
        BY <3>2 DEF Searching, Joined
      <4>2. id1[y] = id[y] /\ id1[x] = id[x]
        BY <1>1, <1>3, <3>2
      <4> QED BY <4>1, <4>2
    <3> QED BY <3>1, <3>2
  <2>3. ASSUME NEW y \in P1, NEW x \in K1, id1[y] <= id1[x] PROVE x \in Reached(calls, y)
    <3>1. CASE x = w
      BY <2>1, <3>1
    <3>2. CASE x \in K /\ y = w
      BY <1>1, <1>2, <1>3, <1>6, <2>3, <3>2
    <3>3. CASE x \in K /\ y \in P
      <4>1. id1[y] = id[y] /\ id1[x] = id[x]
        BY <1>1, <1>3, <3>3
      <4> QED BY <2>3, <3>3, <4>1 DEF Searching, Joined
    <3> QED BY <3>1, <3>2, <3>3
  <2> QED BY <2>2, <2>3 DEF Joined
<1>10. LowReached(calls, id1, low1, K1, P1)
  <2>1. w \in Reached(calls, w)
    BY ReachedOK
  <2>2. ASSUME NEW v \in P1
        PROVE  low1[v] <= id1[v] /\ \E z \in K1 : low1[v] = id1[z] /\ z \in Reached(calls, v)
    <3>1. CASE v = w
      BY <1>2, <1>3, <1>4, <2>1, <3>1
    <3>2. CASE v \in P
      <4>1. low[v] <= id[v] /\ id1[v] = id[v] /\ low1[v] = low[v]
        BY <1>1, <1>3, <1>4, <3>2 DEF Searching, LowReached
      <4>2. PICK z \in K : low[v] = id[z] /\ z \in Reached(calls, v)
        BY <3>2 DEF Searching, LowReached
      <4>3. id1[z] = id[z]
        BY <1>1, <1>3
      <4> QED BY <4>1, <4>2, <4>3
    <3> QED BY <3>1, <3>2
  <2> QED BY <2>2 DEF LowReached
<1>11. LowLeast(calls, id1, low1, at1, K1, P1)
  <2>1. ASSUME NEW x \in K1, NEW i \in 1 .. at1[x] - 1, calls[x][i] \in K1
        PROVE  \E u \in P1 : /\ id1[u] <= id1[x] /\ low1[u] <= id1[calls[x][i]]
                             /\ \A v \in P1 : id1[v] <= id1[x] => id1[v] <= id1[u]
    <3>1. x \in K /\ x \in M /\ i \in 1 .. at[x] - 1 /\ id1[x] = id[x]
      BY <1>1, <1>3, <1>5
    <3>2. \E u \in P : /\ id[u] <= id[x] /\ low[u] <= id1[calls[x][i]]
                       /\ \A v \in P : id[v] <= id[x] => id[v] <= id[u]
      <4>1. CASE calls[x][i] \in K
        <5>1. id1[calls[x][i]] = id[calls[x][i]]
          BY <1>1, <1>3, <4>1
        <5> QED BY <3>1, <4>1, <5>1 DEF Searching, LowLeast
      <4>2. CASE calls[x][i] = w
        <5> DEFINE before == {y \in P : id[y] <= id[x]}
                   ids == {id[y] : y \in before}
        <5>1. PICK y \in before : TRUE
          BY <3>1 DEF Searching, Joined
        <5>2. PICK u \in before : \A v \in before : id[v] <= id[u]
          <6> DEFINE left == {k - n : n \in ids}
          <6>1. ids \subseteq Nat /\ ids # {} /\ \A n \in ids : n < k
            BY <1>1, <1>6, <5>1
          <6>2. left \subseteq Nat /\ left # {}
            <7> HIDE DEF ids
            <7>1. ASSUME NEW n \in ids PROVE k - n \in Nat
              BY <1>2, <6>1
            <7> QED BY <6>1, <7>1
          <6>3. PICK l \in left : \A m \in left : l <= m
            <7> HIDE DEF left
            <7> QED BY <6>2, LeastOK
          <6>4. PICK n \in ids : l = k - n
            OBVIOUS
          <6>5. \A m \in ids : m <= n
            <7> HIDE DEF ids
            <7>1. ASSUME NEW m \in ids PROVE m <= n
              <8>1. k - m \in left /\ m \in Nat /\ n \in Nat
                BY <6>1, <6>4
              <8>2. l <= k - m
                BY <6>3, <8>1
              <8> QED BY <1>2, <6>4, <8>1, <8>2
            <7> QED BY <7>1
          <6> QED BY <6>4, <6>5
        <5>3. low[u] <= id[u] /\ id[u] < k /\ id[u] \in Nat /\ low[u] \in Nat
          BY <1>1, <1>6 DEF Searching, LowReached
        <5>4. low[u] <= id1[calls[x][i]]
          BY <1>2, <1>3, <4>2, <5>3
        <5> QED BY <5>2, <5>4
      <4> QED BY <2>1, <4>1, <4>2
    <3>3. PICK u \in P : /\ id[u] <= id[x] /\ low[u] <= id1[calls[x][i]]
                         /\ \A v \in P : id[v] <= id[x] => id[v] <= id[u]
      BY <3>2
    <3>4. u \in M /\ id1[u] = id[u] /\ low1[u] = low[u]
      BY <1>1, <1>3, <1>4
    <3>5. ASSUME NEW v \in P1, id1[v] <= id1[x] PROVE id1[v] <= id1[u]
      <4>1. v # w
        BY <1>2, <1>3, <1>6, <3>1, <3>5
      <4>2. v \in P /\ id1[v] = id[v]
        BY <1>1, <1>3, <4>1
      <4> QED BY <3>1, <3>3, <3>4, <3>5, <4>2
    <3> QED BY <3>1, <3>3, <3>4, <3>5
  <2> QED BY <2>1 DEF LowLeast
<1>12. Finished(calls, M1, K1)
  <2>1. ASSUME NEW x \in M1 \ K1, NEW i \in DOMAIN calls[x] PROVE calls[x][i] \in M1 \ K1
    <3>1. x \in M \ K
      OBVIOUS
    <3>2. calls[x][i] \in M \ K
      BY <3>1 DEF Searching, Finished
    <3> QED BY <3>2
  <2> QED BY <2>1 DEF Finished
<1>13. M1 \subseteq DOMAIN calls /\ K1 \subseteq M1 /\ P1 \subseteq K1
  BY <1>1
<1> HIDE DEF M1, K1, P1
<1>14. Searching(calls, M1, id1, low1, at1, K1, P1, {})
  BY <1>2, <1>4, <1>7, <1>8, <1>9, <1>10, <1>11, <1>12, <1>13 DEF Searching
<1> QED BY <1>14 DEF k, M1, id1, low1, at1, K1, P1

\* The call dfs is at has been followed.
LEMMA MeetKeeps ==
    ASSUME NEW calls, IsCalls(calls), NEW M, NEW id, NEW low, NEW at, NEW K, NEW P,
           Searching(calls, M, id, low, at, K, P, {}),
           NEW v \in P, \A y \in P : id[y] <= id[v], at[v] <= Len(calls[v])
    PROVE  LET w == calls[v][at[v]]
           IN Searching(calls, M, id,
                        IF w \in K /\ id[w] < low[v] THEN [low EXCEPT ![v] = id[w]] ELSE low,
                        [at EXCEPT ![v] = @ + 1], K, P, {w})
<1> DEFINE w == calls[v][at[v]]
           low1 == IF w \in K /\ id[w] < low[v] THEN [low EXCEPT ![v] = id[w]] ELSE low
           at1 == [at EXCEPT ![v] = @ + 1]
<1>1. /\ M \subseteq DOMAIN calls /\ IsFiniteSet(M) /\ K \subseteq M /\ P \subseteq K
      /\ low \in [M -> Nat] /\ id \in [M -> Nat] /\ at \in [M -> Nat]
  BY DEF Searching, Counted, Followed
<1>2. v \in M /\ v \in K /\ 1 <= at[v] /\ Len(calls[v]) \in Nat /\ at[v] \in Nat
  BY <1>1 DEF Searching, Followed, IsCalls
<1>3. at[v] \in DOMAIN calls[v] /\ w \in DOMAIN calls /\ w \in Reached(calls, v)
  <2>1. at[v] \in DOMAIN calls[v]
    <3>1. DOMAIN calls[v] = 1 .. Len(calls[v])
      BY <1>1, <1>2 DEF IsCalls
    <3> QED BY <1>2, <3>1
  <2> QED BY <1>1, <1>2, <2>1, ReachedOK
<1> HIDE DEF w
<1>4. low1 \in [M -> Nat] /\ low1[v] <= low[v] /\ (w \in K => low1[v] <= id[w])
      /\ (low1[v] = low[v] \/ (w \in K /\ low1[v] = id[w])) /\ \A x \in M : x # v => low1[x] = low[x]
  BY <1>1, <1>2
<1>5. at1 \in [M -> Nat] /\ at1[v] = at[v] + 1 /\ \A x \in M : x # v => at1[x] = at[x]
  BY <1>1, <1>2
<1> HIDE DEF low1, at1
<1>6. Followed(calls, M, at1, P, {w})
  <2>1. \A x \in M : 1 <= at1[x] /\ at1[x] <= Len(calls[x]) + 1
                     /\ (x \notin P => at1[x] = Len(calls[x]) + 1)
    BY <1>2, <1>5 DEF Searching, Followed
  <2>2. ASSUME NEW x \in M, NEW i \in 1 .. at1[x] - 1 PROVE calls[x][i] \in M \cup {w}
    <3>1. CASE x = v /\ i = at[v]
      BY <3>1 DEF w
    <3>2. CASE ~(x = v /\ i = at[v])
      <4>1. i \in 1 .. at[x] - 1
        BY <1>1, <1>2, <1>5, <3>2
      <4> QED BY <4>1 DEF Searching, Followed
    <3> QED BY <3>1, <3>2
  <2> QED BY <1>5, <2>1, <2>2 DEF Followed
<1>7. LowReached(calls, id, low1, K, P)
  <2>1. ASSUME NEW x \in P
        PROVE  low1[x] <= id[x] /\ \E z \in K : low1[x] = id[z] /\ z \in Reached(calls, x)
    <3>1. x \in M /\ low[x] <= id[x] /\ \E z \in K : low[x] = id[z] /\ z \in Reached(calls, x)
      BY <1>1 DEF Searching, LowReached
    <3>2. CASE low1[x] = low[x]
      BY <3>1, <3>2
    <3>3. CASE x = v /\ w \in K /\ low1[v] = id[w]
      <4>1. low1[v] <= id[v]
        BY <1>1, <1>2, <1>4, <3>1, <3>3
      <4> QED BY <1>3, <3>3, <4>1
    <3> QED BY <1>4, <3>1, <3>2, <3>3
  <2> QED BY <2>1 DEF LowReached
<1>8. LowLeast(calls, id, low1, at1, K, P)
  <2>1. ASSUME NEW x \in K, NEW i \in 1 .. at1[x] - 1, calls[x][i] \in K
        PROVE  \E u \in P : /\ id[u] <= id[x] /\ low1[u] <= id[calls[x][i]]
                            /\ \A y \in P : id[y] <= id[x] => id[y] <= id[u]
    <3>1. CASE x = v /\ i = at[v]
      <4>1. calls[x][i] = w
        BY <3>1 DEF w
      <4>2. low1[v] <= id[calls[x][i]]
        BY <1>4, <2>1, <4>1
      <4>3. id[v] <= id[v]
        BY <1>1, <1>2
      <4> QED BY <3>1, <4>2, <4>3
    <3>2. CASE ~(x = v /\ i = at[v])
      <4>1. i \in 1 .. at[x] - 1
        BY <1>1, <1>2, <1>5, <3>2
      <4>2. PICK u \in P : /\ id[u] <= id[x] /\ low[u] <= id[calls[x][i]]
                           /\ \A y \in P : id[y] <= id[x] => id[y] <= id[u]
        BY <2>1, <4>1 DEF Searching, LowLeast
      <4>3. low1[u] <= low[u] /\ low1[u] \in Nat /\ low[u] \in Nat /\ id[calls[x][i]] \in Nat
        <5>1. u \in M /\ calls[x][i] \in M
          BY <1>1, <2>1
        <5>2. low1[u] \in Nat /\ low[u] \in Nat /\ id[calls[x][i]] \in Nat
          BY <1>1, <1>4, <5>1
        <5>3. low1[u] = low[u] \/ low1[u] <= low[u]
          BY <1>4, <5>1
        <5> QED BY <5>2, <5>3
      <4>4. low1[u] <= id[calls[x][i]]
        BY <4>2, <4>3
      <4> QED BY <4>2, <4>4
    <3> QED BY <3>1, <3>2
  <2> QED BY <2>1 DEF LowLeast
<1>9. Searching(calls, M, id, low1, at1, K, P, {w})
  BY <1>1, <1>4, <1>6, <1>7, <1>8 DEF Searching
<1> QED BY <1>9 DEF w, low1, at1

\* dfs is at v last, and has followed its calls.
Returning(calls, M, id, low, at, K, P, v) ==
    /\ Searching(calls, M, id, low, at, K, P, {})
    /\ v \in P /\ \A y \in P : id[y] <= id[v]
    /\ at[v] = Len(calls[v]) + 1

\* dfs(v) returns, and the component of v is not complete: v reaches a service that dfs is at.
LEMMA LeaveKeeps ==
    ASSUME NEW calls, IsCalls(calls), NEW M, NEW id, NEW low, NEW at, NEW K, NEW P,
           NEW v, Returning(calls, M, id, low, at, K, P, v), low[v] # id[v]
    PROVE  /\ P \ {v} # {}
           /\ \A u \in P \ {v} : (\A y \in P \ {v} : id[y] <= id[u]) =>
                Searching(calls, M, id, IF low[v] < low[u] THEN [low EXCEPT ![u] = low[v]] ELSE low,
                          at, K, P \ {v}, {})
<1> DEFINE P1 == P \ {v}
<1> USE DEF Returning
<1>1. /\ M \subseteq DOMAIN calls /\ IsFiniteSet(M) /\ K \subseteq M /\ P \subseteq K
      /\ low \in [M -> Nat] /\ id \in [M -> Nat] /\ at \in [M -> Nat]
  BY DEF Searching, Counted, Followed
<1>2. /\ \A x \in DOMAIN calls : x \in Reached(calls, x)
      /\ \A x, y, z \in DOMAIN calls :
           y \in Reached(calls, x) /\ z \in Reached(calls, y) => z \in Reached(calls, x)
  BY ReachedOK
<1>3. PICK z \in K : low[v] = id[z] /\ z \in Reached(calls, v)
  BY DEF Searching, LowReached
<1>4. low[v] <= id[v]
  BY DEF Searching, LowReached
<1>5. id[z] < id[v] /\ v \in M /\ z \in M
  BY <1>1, <1>3, <1>4
<1>6. PICK y \in P : id[y] <= id[z] /\ y \in Reached(calls, z)
  BY DEF Searching, Joined
<1>7. y \in P1 /\ y \in Reached(calls, v) /\ id[y] < id[v]
  <2>1. id[y] < id[v] /\ y \in M
    BY <1>1, <1>5, <1>6
  <2> QED BY <1>1, <1>2, <1>3, <1>5, <1>6, <2>1
<1>8. ASSUME NEW u \in P1, \A p \in P1 : id[p] <= id[u]
      PROVE  Searching(calls, M, id, IF low[v] < low[u] THEN [low EXCEPT ![u] = low[v]] ELSE low,
                       at, K, P1, {})
  <2> DEFINE low1 == IF low[v] < low[u] THEN [low EXCEPT ![u] = low[v]] ELSE low
  <2>1. u \in M /\ u \in K /\ u \in P /\ u # v /\ id[u] \in Nat /\ id[v] \in Nat /\ id[u] < id[v]
    <3>1. u \in M /\ u # v /\ v \in M
      BY <1>1
    <3>2. id[u] <= id[v] /\ id[u] # id[v]
      BY <3>1 DEF Searching, Counted
    <3> QED BY <1>1, <3>1, <3>2
  <2>2. /\ low1 \in [M -> Nat] /\ low1[u] <= low[v] /\ low1[u] <= low[u]
        /\ low1[u] = low[u] \/ low1[u] = low[v]
        /\ \A x \in M : x # u => low1[x] = low[x]
    BY <1>1, <2>1
  <2> HIDE DEF low1
  <2>3. Followed(calls, M, at, P1, {})
    BY DEF Searching, Followed
  <2>4. Joined(calls, id, K, P1)
    <3>1. ASSUME NEW x \in K PROVE \E p \in P1 : id[p] <= id[x] /\ p \in Reached(calls, x)
      <4>1. PICK p \in P : id[p] <= id[x] /\ p \in Reached(calls, x)
        BY DEF Searching, Joined
      <4>2. CASE p = v
        <5>1. y \in Reached(calls, x)
          <6>1. x \in DOMAIN calls /\ v \in DOMAIN calls /\ y \in DOMAIN calls
            BY <1>1
          <6> QED BY <1>2, <1>7, <4>1, <4>2, <6>1
        <5>2. id[y] <= id[x]
          <6>1. x \in M /\ y \in M /\ v \in M
            BY <1>1
          <6> QED BY <1>1, <1>7, <4>1, <4>2, <6>1
        <5> QED BY <1>7, <5>1, <5>2
      <4> QED BY <4>1, <4>2
    <3>2. \A p \in P1 : \A x \in K : id[p] <= id[x] => x \in Reached(calls, p)
      BY DEF Searching, Joined
    <3> QED BY <3>1, <3>2 DEF Joined
  <2>5. LowReached(calls, id, low1, K, P1)
    <3>1. ASSUME NEW p \in P1
          PROVE  low1[p] <= id[p] /\ \E n \in K : low1[p] = id[n] /\ n \in Reached(calls, p)
      <4>1. p \in M /\ low[p] <= id[p] /\ \E n \in K : low[p] = id[n] /\ n \in Reached(calls, p)
        BY <1>1 DEF Searching, LowReached
      <4>2. CASE low1[p] = low[p]
        BY <4>1, <4>2
      <4>3. CASE p = u /\ low1[u] = low[v]
        <5>1. low1[u] <= id[u]
          BY <1>1, <2>1, <2>2, <4>1, <4>3
        <5>2. v \in Reached(calls, u)
          BY <1>1, <2>1 DEF Searching, Joined
        <5>3. z \in Reached(calls, u)
          <6>1. u \in DOMAIN calls /\ v \in DOMAIN calls /\ z \in DOMAIN calls
            BY <1>1, <1>5, <2>1
          <6> QED BY <1>2, <1>3, <5>2, <6>1
        <5> QED BY <1>3, <4>3, <5>1, <5>3
      <4> QED BY <2>2, <4>1, <4>2, <4>3
    <3> QED BY <3>1 DEF LowReached
  <2>6. LowLeast(calls, id, low1, at, K, P1)
    <3>1. ASSUME NEW x \in K, NEW i \in 1 .. at[x] - 1, calls[x][i] \in K
          PROVE  \E n \in P1 : /\ id[n] <= id[x] /\ low1[n] <= id[calls[x][i]]
                               /\ \A p \in P1 : id[p] <= id[x] => id[p] <= id[n]
      <4>1. PICK n \in P : /\ id[n] <= id[x] /\ low[n] <= id[calls[x][i]]
                           /\ \A p \in P : id[p] <= id[x] => id[p] <= id[n]
        BY <3>1 DEF Searching, LowLeast
      <4>2. id[calls[x][i]] \in Nat /\ x \in M /\ n \in M
        BY <1>1, <3>1
      <4>3. CASE n = v
        <5>1. low1[u] <= id[calls[x][i]]
          <6>1. low1[u] \in Nat /\ low[v] \in Nat /\ low1[u] <= low[v] /\ low[v] <= id[calls[x][i]]
            BY <1>1, <2>1, <2>2, <4>1, <4>2, <4>3
          <6> QED BY <4>2, <6>1
        <5>2. id[u] <= id[x]
          BY <1>1, <2>1, <4>1, <4>2, <4>3
        <5> QED BY <1>8, <5>1, <5>2
      <4>4. CASE n # v
        <5>1. low1[n] = low[n] \/ low1[n] <= low[n]
          BY <2>2, <4>2
        <5>2. low1[n] <= id[calls[x][i]]
          <6>1. low1[n] \in Nat /\ low[n] \in Nat
            BY <1>1, <2>2, <4>2
          <6> QED BY <4>1, <4>2, <5>1, <6>1
        <5> QED BY <4>1, <4>4, <5>2
      <4> QED BY <4>3, <4>4
    <3> QED BY <3>1 DEF LowLeast
  <2>7. Searching(calls, M, id, low1, at, K, P1, {})
    <3>1. P1 \subseteq K /\ Counted(M, id) /\ Finished(calls, M, K)
      BY <1>1 DEF Searching
    <3> HIDE DEF P1
    <3> QED BY <1>1, <2>2, <2>3, <2>4, <2>5, <2>6, <3>1 DEF Searching
  <2> QED BY <2>7 DEF low1
<1> QED BY <1>7, <1>8

\* Services with numbers below n, and with the others.
Below(K, id, n) == {x \in K : id[x] < n}
\* What is on the stack from the number n on.
From(K, id, n) == {x \in K : n <= id[x]}

\* The stack has lost the component of v, and finished services are whole components.
Popped(calls, M, id, low, at, K, P, v) ==
    /\ Searching(calls, M, id, low, at, Below(K, id, id[v]), P \ {v}, {})
    /\ \A u \in P \ {v} : low[u] < low[v]
    /\ From(K, id, id[v]) = Component(calls, v)
    /\ \A x \in M \ K : Component(calls, x) \subseteq M \ K

\* dfs(v) returns, and what the stack has from v on is the component of v.
LEMMA PopKeeps ==
    ASSUME NEW calls, IsCalls(calls), NEW M, NEW id, NEW low, NEW at, NEW K, NEW P,
           NEW v, Returning(calls, M, id, low, at, K, P, v), low[v] = id[v]
    PROVE  Popped(calls, M, id, low, at, K, P, v)
<1> DEFINE P1 == P \ {v}
           K1 == {x \in K : id[x] < id[v]}
           C == {x \in K : id[v] <= id[x]}
<1> USE DEF Returning
<1>1. /\ M \subseteq DOMAIN calls /\ IsFiniteSet(M) /\ K \subseteq M /\ P \subseteq K
      /\ low \in [M -> Nat] /\ id \in [M -> Nat] /\ at \in [M -> Nat]
  BY DEF Searching, Counted, Followed
<1>2. /\ \A x \in DOMAIN calls : x \in Reached(calls, x)
      /\ \A x, y, z \in DOMAIN calls :
           y \in Reached(calls, x) /\ z \in Reached(calls, y) => z \in Reached(calls, x)
  BY ReachedOK
<1>3. \A u \in P1 : u \in M /\ id[u] < id[v] /\ low[u] < low[v]
  <2> TAKE u \in P1
  <2>1. u \in M /\ v \in M /\ u # v
    BY <1>1
  <2>2. id[u] <= id[v] /\ id[u] # id[v] /\ low[u] <= id[u]
    BY <2>1 DEF Searching, Counted, LowReached
  <2> QED BY <1>1, <2>1, <2>2
<1>4. C \subseteq K /\ K1 = K \ C /\ v \in C /\ P1 \subseteq K1
  BY <1>1, <1>3
\* Calls from C lead to C or to finished services.
<1>5. ASSUME NEW x \in C, NEW i \in DOMAIN calls[x] PROVE calls[x][i] \in C \cup (M \ K)
  <2>1. x \in M /\ x \in K /\ x \in DOMAIN calls
    BY <1>1
  <2>2. DOMAIN calls[x] = 1 .. Len(calls[x]) /\ Len(calls[x]) \in Nat
    BY <2>1 DEF IsCalls
  <2>3. at[x] = Len(calls[x]) + 1
    <3>1. CASE x \notin P
      BY <2>1, <3>1 DEF Searching, Followed
    <3>2. CASE x \in P
      <4>1. id[x] = id[v]
        BY <1>1, <2>1, <3>2
      <4>2. x = v
        BY <1>1, <2>1, <4>1 DEF Searching, Counted
      <4> QED BY <4>2
    <3> QED BY <3>1, <3>2
  <2>4. i \in 1 .. at[x] - 1
    BY <2>2, <2>3
  <2>5. calls[x][i] \in M
    BY <2>1, <2>4 DEF Searching, Followed
  <2>6. CASE calls[x][i] \in K
    <3>1. PICK u \in P : /\ id[u] <= id[x] /\ low[u] <= id[calls[x][i]]
                         /\ \A y \in P : id[y] <= id[x] => id[y] <= id[u]
      BY <2>1, <2>4, <2>6 DEF Searching, LowLeast
    <3>2. u = v
      <4>1. id[v] <= id[u] /\ id[u] <= id[v] /\ u \in M /\ v \in M
        BY <1>1, <3>1
      <4>2. id[u] = id[v]
        BY <1>1, <4>1
      <4> QED BY <4>1, <4>2 DEF Searching, Counted
    <3> QED BY <2>6, <3>1, <3>2
  <2> QED BY <2>5, <2>6
<1>6. Closed(calls, M \ K)
  BY DEF Searching, Finished, Closed, Range
<1>7. Closed(calls, C \cup (M \ K))
  <2>1. ASSUME NEW x \in C \cup (M \ K), NEW y \in Range(calls[x]) PROVE y \in C \cup (M \ K)
    <3>1. CASE x \in C
      <4> HIDE DEF C
      <4> QED BY <1>5, <3>1 DEF Range
    <3>2. CASE x \in M \ K
      BY <1>6, <3>2 DEF Closed
    <3> QED BY <3>1, <3>2
  <2> QED BY <2>1 DEF Closed
<1>8. \A x \in M \ K : Reached(calls, x) \subseteq M \ K
  <2>1. M \ K \in SUBSET DOMAIN calls
    BY <1>1
  <2> QED BY <1>6, <2>1, ReachedOK
<1>9. Reached(calls, v) \subseteq C \cup (M \ K)
  <2>1. C \cup (M \ K) \in SUBSET DOMAIN calls /\ v \in C \cup (M \ K) /\ v \in DOMAIN calls
    BY <1>1, <1>4
  <2> HIDE DEF C
  <2> QED BY <1>7, <2>1, ReachedOK
<1>10. \A x \in M \ K : Component(calls, x) \subseteq M \ K
  BY <1>8 DEF Component
<1>11. C = Component(calls, v)
  <2>1. ASSUME NEW x \in C PROVE x \in Component(calls, v)
    <3>1. x \in K /\ x \in M /\ v \in M /\ x \in DOMAIN calls /\ v \in DOMAIN calls /\ id[v] <= id[x]
      BY <1>1
    <3>2. x \in Reached(calls, v)
      BY <3>1 DEF Searching, Joined
    <3>3. PICK y \in P : id[y] <= id[x] /\ y \in Reached(calls, x)
      BY <3>1 DEF Searching, Joined
    <3>4. v \in Reached(calls, y) /\ y \in DOMAIN calls
      BY <1>1 DEF Searching, Joined
    <3>5. v \in Reached(calls, x)
      BY <1>2, <3>1, <3>3, <3>4
    <3> QED BY <3>1, <3>2, <3>5 DEF Component
  <2>2. ASSUME NEW x \in Component(calls, v) PROVE x \in C
    <3>1. x \in C \cup (M \ K) /\ v \in Reached(calls, x)
      <4> HIDE DEF C
      <4> QED BY <1>9 DEF Component
    <3>2. v \in K
      BY <1>1
    <3>3. x \notin M \ K
      BY <1>8, <3>1, <3>2
    <3> HIDE DEF C
    <3> QED BY <3>1, <3>3
  <2> HIDE DEF C
  <2> QED BY <2>1, <2>2
<1>12. Followed(calls, M, at, P1, {})
  BY DEF Searching, Followed
<1>13. Joined(calls, id, K1, P1)
  <2>1. ASSUME NEW x \in K1 PROVE \E y \in P1 : id[y] <= id[x] /\ y \in Reached(calls, x)
    <3>1. PICK y \in P : id[y] <= id[x] /\ y \in Reached(calls, x)
      BY DEF Searching, Joined
    <3>2. y # v
      BY <1>1, <3>1
    <3> QED BY <3>1, <3>2
  <2>2. \A y \in P1 : \A x \in K1 : id[y] <= id[x] => x \in Reached(calls, y)
    BY DEF Searching, Joined
  <2> QED BY <2>1, <2>2 DEF Joined
<1>14. LowReached(calls, id, low, K1, P1)
  <2>1. ASSUME NEW u \in P1
        PROVE  low[u] <= id[u] /\ \E z \in K1 : low[u] = id[z] /\ z \in Reached(calls, u)
    <3>1. low[u] <= id[u] /\ \E z \in K : low[u] = id[z] /\ z \in Reached(calls, u)
      BY DEF Searching, LowReached
    <3>2. PICK z \in K : low[u] = id[z] /\ z \in Reached(calls, u)
      BY <3>1
    <3>3. id[z] < id[v]
      BY <1>3, <3>2
    <3> QED BY <3>1, <3>2, <3>3
  <2> QED BY <2>1 DEF LowReached
<1>15. LowLeast(calls, id, low, at, K1, P1)
  <2>1. ASSUME NEW x \in K1, NEW i \in 1 .. at[x] - 1, calls[x][i] \in K1
        PROVE  \E u \in P1 : /\ id[u] <= id[x] /\ low[u] <= id[calls[x][i]]
                             /\ \A y \in P1 : id[y] <= id[x] => id[y] <= id[u]
    <3>1. PICK u \in P : /\ id[u] <= id[x] /\ low[u] <= id[calls[x][i]]
                         /\ \A y \in P : id[y] <= id[x] => id[y] <= id[u]
      BY <2>1 DEF Searching, LowLeast
    <3>2. u # v
      BY <1>1, <3>1
    <3> QED BY <3>1, <3>2
  <2> QED BY <2>1 DEF LowLeast
<1>16. Finished(calls, M, K1)
  <2>1. M \ K1 = (M \ K) \cup C
    BY <1>1, <1>4
  <2>2. ASSUME NEW x \in M \ K1, NEW i \in DOMAIN calls[x] PROVE calls[x][i] \in M \ K1
    <3> HIDE DEF K1, C
    <3>1. CASE x \in C
      BY <1>5, <2>1, <3>1
    <3>2. CASE x \in M \ K
      BY <2>1, <3>2 DEF Searching, Finished
    <3> QED BY <2>1, <3>1, <3>2
  <2> QED BY <2>2 DEF Finished
<1>17. Searching(calls, M, id, low, at, K1, P1, {})
  <2>1. K1 \subseteq M /\ Counted(M, id)
    BY <1>1 DEF Searching
  <2> HIDE DEF P1, K1
  <2> QED BY <1>1, <1>4, <1>12, <1>13, <1>14, <1>15, <1>16, <2>1 DEF Searching
<1> QED BY <1>3, <1>10, <1>11, <1>17 DEF Below, From, Popped

\* A function on a finite set has finitely many values.
LEMMA RangeFinite ==
    ASSUME NEW S, NEW T, NEW f \in [S -> T], IsFiniteSet(S)
    PROVE  IsFiniteSet(Range(f))
<1>1. f \in Surjection(S, Range(f))
  BY DEF Surjection, Range
<1> QED BY <1>1, FS_Surjection

\* The services of a sequence have increasing numbers.
Increasing(seq, id) == \A i, j \in DOMAIN seq : i < j => id[seq[i]] < id[seq[j]]

\* A sequence stays in the order of its numbers when the highest is appended.
LEMMA AppendIncreasing ==
    ASSUME NEW V, NEW seq \in Seq(V), NEW w \in V, NEW id, NEW id1,
           Increasing(seq, id), \A x \in Range(seq) : id1[x] = id[x] /\ id[x] < id1[w]
    PROVE  /\ Append(seq, w) \in Seq(V) /\ Range(Append(seq, w)) = Range(seq) \cup {w}
           /\ Increasing(Append(seq, w), id1)
<1> DEFINE new == Append(seq, w)
           n == Len(seq)
<1>1. /\ n \in Nat /\ DOMAIN seq = 1 .. n /\ new \in Seq(V) /\ DOMAIN new = 1 .. n + 1
      /\ \A i \in 1 .. n : new[i] = seq[i]
      /\ new[n + 1] = w
  BY AppendProperties
<1> HIDE DEF new, n
<1>2. Range(new) = Range(seq) \cup {w}
  <2>1. \A i \in DOMAIN new : i \in 1 .. n \/ i = n + 1
    BY <1>1
  <2>2. \A i \in 1 .. n : i \in DOMAIN new
    BY <1>1
  <2>3. n + 1 \in DOMAIN new
    BY <1>1
  <2> QED BY <1>1, <2>1, <2>2, <2>3 DEF Range
<1>3. ASSUME NEW i \in DOMAIN new, NEW j \in DOMAIN new, i < j PROVE id1[new[i]] < id1[new[j]]
  <2>1. i \in 1 .. n /\ seq[i] \in Range(seq) /\ new[i] = seq[i]
    BY <1>1, <1>3 DEF Range
  <2>2. CASE j = n + 1
    BY <1>1, <2>1, <2>2
  <2>3. CASE j \in 1 .. n
    <3>1. seq[j] \in Range(seq) /\ new[j] = seq[j]
      BY <1>1, <2>3 DEF Range
    <3>2. id[seq[i]] < id[seq[j]]
      BY <1>1, <1>3, <2>1, <2>3 DEF Increasing
    <3> QED BY <2>1, <3>1, <3>2
  <2> QED BY <1>1, <2>2, <2>3
<1> QED BY <1>1, <1>2, <1>3 DEF Increasing, new

\* The part before the place of v and the part from there on.
LEMMA CutIncreasing ==
    ASSUME NEW V, NEW seq \in Seq(V), NEW id, \A x \in Range(seq) : id[x] \in Nat,
           Increasing(seq, id), NEW at \in DOMAIN seq
    PROVE  LET v == seq[at]
               before == SubSeq(seq, 1, at - 1)
               from == Reverse(SubSeq(seq, at, Len(seq)))
           IN /\ before \in Seq(V) /\ from \in Seq(V)
              /\ Range(before) = Below(Range(seq), id, id[v])
              /\ Range(from) = From(Range(seq), id, id[v])
              /\ Increasing(before, id)
              /\ Len(from) > 1 <=> Cardinality(Range(from)) > 1
<1> DEFINE v == seq[at]
           n == Len(seq)
           before == SubSeq(seq, 1, at - 1)
           rest == SubSeq(seq, at, n)
           from == Reverse(rest)
<1>1. n \in Nat /\ DOMAIN seq = 1 .. n /\ at \in 1 .. n /\ \A i \in 1 .. n : seq[i] \in V
  OBVIOUS
<1>2. /\ before \in Seq(V) /\ DOMAIN before = 1 .. at - 1
      /\ \A i \in 1 .. at - 1 : before[i] = seq[i]
  <2>1. \A i \in 1 .. at - 1 : seq[i] \in V
    BY <1>1
  <2>2. 1 \in Int /\ at - 1 \in Int /\ at - 1 \in Nat
    BY <1>1
  <2> HIDE DEF n
  <2>3. before \in Seq(V) /\ Len(before) = (IF 1 <= at - 1 THEN (at - 1) - 1 + 1 ELSE 0)
        /\ \A i \in 1 .. (at - 1) - 1 + 1 : before[i] = seq[1 + i - 1]
    BY <2>1, <2>2, SubSeqProperties
  <2> HIDE DEF before
  <2>4. Len(before) = at - 1 /\ DOMAIN before = 1 .. Len(before)
    BY <2>2, <2>3
  <2>5. \A i \in 1 .. at - 1 : i \in 1 .. (at - 1) - 1 + 1 /\ 1 + i - 1 = i
    BY <2>2
  <2> QED BY <2>3, <2>4, <2>5
<1>3. /\ rest \in Seq(V) /\ Len(rest) = n - at + 1 /\ n - at + 1 \in Nat /\ n - at + 1 >= 1
      /\ \A i \in 1 .. n - at + 1 : rest[i] = seq[at + i - 1]
  <2>1. \A i \in at .. n : seq[i] \in V
    BY <1>1
  <2>2. at \in Int /\ n \in Int /\ at <= n
    BY <1>1
  <2> HIDE DEF n
  <2>3. rest \in Seq(V) /\ Len(rest) = (IF at <= n THEN n - at + 1 ELSE 0)
        /\ \A i \in 1 .. n - at + 1 : rest[i] = seq[at + i - 1]
    BY <2>1, <2>2, SubSeqProperties
  <2> QED BY <2>2, <2>3
<1>4. /\ from \in Seq(V) /\ Len(from) = n - at + 1 /\ DOMAIN from = 1 .. n - at + 1
      /\ \A i \in 1 .. n - at + 1 : from[i] = seq[n - i + 1]
  <2> DEFINE m == n - at + 1
  <2> HIDE DEF rest
  <2>1. from = [i \in 1 .. m |-> rest[(m - i) + 1]]
    BY <1>3 DEF Reverse
  <2>2. ASSUME NEW i \in 1 .. m PROVE rest[(m - i) + 1] = seq[n - i + 1] /\ seq[n - i + 1] \in V
    <3>1. (m - i) + 1 \in 1 .. m /\ at + ((m - i) + 1) - 1 = n - i + 1 /\ n - i + 1 \in 1 .. n
      BY <1>1, <1>3
    <3> DEFINE j == (m - i) + 1
    <3>2. j \in 1 .. m /\ at + j - 1 = n - i + 1
      BY <3>1
    <3> HIDE DEF j
    <3>3. rest[j] = seq[at + j - 1]
      BY <1>3, <3>2
    <3>4. seq[n - i + 1] \in V
      BY <1>1, <3>1
    <3> QED BY <3>2, <3>3, <3>4 DEF j
  <2> HIDE DEF m, from
  <2>3. from \in [1 .. m -> V] /\ \A i \in 1 .. m : from[i] = seq[n - i + 1]
    BY <2>1, <2>2
  <2>4. m \in Nat
    BY <1>3 DEF m
  <2>5. from \in Seq(V) /\ Len(from) = m /\ DOMAIN from = 1 .. m
    BY <2>3, <2>4
  <2> QED BY <2>3, <2>5 DEF m
<1> HIDE DEF before, rest, from, n
<1>5. v \in Range(seq) /\ \A i \in 1 .. n : seq[i] \in Range(seq) /\ id[seq[i]] \in Nat
  BY <1>1 DEF Range
<1>6. \A i \in 1 .. n : (i < at => id[seq[i]] < id[v]) /\ (at < i => id[v] < id[seq[i]])
  BY <1>1 DEF Increasing
<1>7. \A i \in 1 .. n : id[seq[i]] < id[v] => i < at
  <2> TAKE i \in 1 .. n
  <2> HAVE id[seq[i]] < id[v]
  <2>1. CASE i = at
    BY <1>5, <2>1
  <2>2. CASE at < i
    BY <1>1, <1>5, <1>6, <2>2
  <2> QED BY <1>1, <2>1, <2>2
<1>8. Range(before) = {x \in Range(seq) : id[x] < id[v]}
  <2>1. ASSUME NEW x \in Range(before) PROVE x \in Range(seq) /\ id[x] < id[v]
    <3>1. PICK i \in 1 .. at - 1 : x = seq[i]
      BY <1>2 DEF Range
    <3>2. i \in 1 .. n /\ i < at
      BY <1>1
    <3> QED BY <1>5, <1>6, <3>1, <3>2
  <2>2. ASSUME NEW x \in Range(seq), id[x] < id[v] PROVE x \in Range(before)
    <3>1. PICK i \in 1 .. n : x = seq[i]
      BY <1>1 DEF Range
    <3>2. i \in 1 .. at - 1
      BY <1>1, <1>7, <2>2, <3>1
    <3> QED BY <1>2, <3>1, <3>2 DEF Range
  <2> HIDE DEF v
  <2> QED BY <2>1, <2>2
<1>9. Range(from) = {x \in Range(seq) : id[v] <= id[x]}
  <2>1. ASSUME NEW x \in Range(from) PROVE x \in Range(seq) /\ id[v] <= id[x]
    <3>1. PICK i \in 1 .. n - at + 1 : x = seq[n - i + 1]
      BY <1>4 DEF Range
    <3>2. n - i + 1 \in 1 .. n /\ (n - i + 1 = at \/ at < n - i + 1)
      BY <1>1
    <3>3. id[v] \in Nat /\ x \in Range(seq) /\ id[x] \in Nat
      BY <1>5, <3>1, <3>2
    <3> QED BY <1>6, <3>1, <3>2, <3>3
  <2>2. ASSUME NEW x \in Range(seq), id[v] <= id[x] PROVE x \in Range(from)
    <3>1. PICK i \in 1 .. n : x = seq[i]
      BY <1>1 DEF Range
    <3>2. ~(i < at)
      <4>1. i < at => id[x] < id[v]
        BY <1>6, <3>1
      <4> QED BY <1>5, <2>2, <3>1, <4>1
    <3>3. n - i + 1 \in 1 .. n - at + 1 /\ n - (n - i + 1) + 1 = i
      BY <1>1, <3>2
    <3> QED BY <1>4, <3>1, <3>3 DEF Range
  <2> HIDE DEF v
  <2> QED BY <2>1, <2>2
<1>10. Increasing(before, id)
  <2>1. \A i \in 1 .. at - 1 : i \in 1 .. n
    BY <1>1
  <2> QED BY <1>1, <1>2, <2>1 DEF Increasing
<1>11. Len(from) > 1 <=> Cardinality(Range(from)) > 1
  <2>1. CASE Len(from) = 1
    <3>1. Range(from) = {from[1]}
      BY <1>4, <2>1 DEF Range
    <3> QED BY <2>1, <3>1, FS_Singleton
  <2>2. CASE Len(from) > 1
    <3>1. n - 1 + 1 = n /\ n - 2 + 1 = n - 1 /\ n \in 1 .. n /\ n - 1 \in 1 .. n /\ n - 1 < n
          /\ 1 \in 1 .. n - at + 1 /\ 2 \in 1 .. n - at + 1
      BY <1>1, <1>4, <2>2
    <3>2. from[1] = seq[n] /\ from[2] = seq[n - 1] /\ id[seq[n - 1]] < id[seq[n]]
          /\ id[seq[n - 1]] \in Nat /\ id[seq[n]] \in Nat
      BY <1>1, <1>4, <1>5, <3>1 DEF Increasing
    <3>3. from[1] # from[2]
      BY <3>2
    <3>4. from[1] \in Range(from) /\ from[2] \in Range(from)
      BY <1>4, <3>1 DEF Range
    <3>5. IsFiniteSet(Range(from))
      <4>1. IsFiniteSet(1 .. n - at + 1)
        BY <1>1, FS_Interval
      <4>2. from \in [1 .. n - at + 1 -> V]
        BY <1>4
      <4> QED BY <4>1, <4>2, RangeFinite
    <3>6. Cardinality(Range(from)) \in Nat /\ Cardinality(Range(from)) # 0
          /\ Cardinality(Range(from)) # 1
      BY <3>3, <3>4, <3>5, FS_CardinalityType, FS_EmptySet, FS_Singleton
    <3> QED BY <2>2, <3>6
  <2> QED BY <1>3, <1>4, <2>1, <2>2
<1> QED BY <1>2, <1>4, <1>8, <1>9, <1>10, <1>11 DEF before, from, rest, n, Below, From

\* Without the last one.
LEMMA FrontIncreasing ==
    ASSUME NEW V, NEW seq \in Seq(V), NEW id, \A x \in Range(seq) : id[x] \in Nat,
           Increasing(seq, id), seq # <<>>
    PROVE  /\ Last(seq) \in Range(seq) /\ \A x \in Range(seq) : id[x] <= id[Last(seq)]
           /\ Front(seq) \in Seq(V) /\ Range(Front(seq)) = Range(seq) \ {Last(seq)}
           /\ Increasing(Front(seq), id)
<1> DEFINE n == Len(seq)
           v == seq[n]
<1>1. n \in Nat /\ n \in DOMAIN seq /\ DOMAIN seq = 1 .. n /\ v \in Range(seq) /\ Last(seq) = v
  BY DEF Range, Last
<1>2. Front(seq) = SubSeq(seq, 1, n - 1)
  BY DEF Front
<1> HIDE DEF n
<1>3. /\ Front(seq) \in Seq(V) /\ Range(Front(seq)) = Below(Range(seq), id, id[v])
      /\ Increasing(Front(seq), id)
  BY <1>1, <1>2, CutIncreasing
<1>4. ASSUME NEW x \in Range(seq) PROVE id[x] <= id[v] /\ (id[x] < id[v] <=> x # v)
  <2>1. PICK i \in 1 .. n : x = seq[i]
    BY <1>1 DEF Range
  <2>2. i = n \/ id[x] < id[v]
    BY <1>1, <2>1 DEF Increasing
  <2>3. id[x] \in Nat /\ id[v] \in Nat
    BY <1>1
  <2> QED BY <2>1, <2>2, <2>3
<1> HIDE DEF v
<1> QED BY <1>1, <1>3, <1>4 DEF Below

\* What the search reports.
CycleFound(calls) == [kind : {"cycles"}, severity : {"HIGH"}, nodes : Seq(DOMAIN calls)]

\* Numbers of services.
Numbers(calls) == UNION {[M -> Nat] : M \in SUBSET DOMAIN calls}

\* The states of the search.
SearchStates(calls) ==
    [id : Numbers(calls), low : Numbers(calls), at : Numbers(calls),
     stack : Seq(DOMAIN calls), path : Seq(DOMAIN calls), found : Seq(CycleFound(calls))]

\* The components of two or more of these services, each once.
FoundComponents(calls, found, done) ==
    /\ {Range(found[i].nodes) : i \in DOMAIN found} =
         {c \in {Component(calls, x) : x \in done} : Cardinality(c) > 1}
    /\ \A i, j \in DOMAIN found : Range(found[i].nodes) = Range(found[j].nodes) => i = j

\* The invariant, of a state of the search: the stack and the path are in the order in which
\* their services were met, and what has left the stack is in components already found.
SearchInv(calls, st, pending) ==
    /\ st \in SearchStates(calls)
    /\ Searching(calls, DOMAIN st.id, st.id, st.low, st.at, Range(st.stack), Range(st.path), pending)
    /\ Increasing(st.stack, st.id) /\ Increasing(st.path, st.id)
    /\ FoundComponents(calls, st.found, DOMAIN st.id \ Range(st.stack))

\* What the invariant says of the parts of a state.
LEMMA StateOK ==
    ASSUME NEW calls, NEW st, NEW pending, SearchInv(calls, st, pending)
    PROVE  LET M == DOMAIN st.id IN
           /\ M \subseteq DOMAIN calls /\ IsFiniteSet(M)
           /\ st.id \in [M -> Nat] /\ st.low \in [M -> Nat] /\ st.at \in [M -> Nat]
           /\ st.stack \in Seq(DOMAIN calls) /\ st.path \in Seq(DOMAIN calls)
           /\ st.found \in Seq(CycleFound(calls))
           /\ Range(st.stack) \subseteq M /\ Range(st.path) \subseteq Range(st.stack)
           /\ \A x \in M : st.id[x] <= Cardinality(M)
BY DEF SearchInv, SearchStates, Searching, Counted, Followed

\* dfs(w) begins, in the first place or on a call.
LEMMA EnterState ==
    ASSUME NEW calls, IsCalls(calls), NEW st, NEW pending, SearchInv(calls, st, pending),
           NEW w \in DOMAIN calls \ DOMAIN st.id, pending \subseteq {w},
           \A y \in Range(st.path) : w \in Reached(calls, y)
    PROVE  /\ SearchInv(calls, Enter(st, w), {})
           /\ DOMAIN Enter(st, w).id = DOMAIN st.id \cup {w}
           /\ Range(Enter(st, w).path) = Range(st.path) \cup {w}
           /\ \A x \in DOMAIN st.id : Enter(st, w).at[x] = st.at[x]
<1> DEFINE M == DOMAIN st.id
           V == DOMAIN calls
           k == Cardinality(M) + 1
           id1 == Put(st.id, w, k)
           low1 == Put(st.low, w, k)
           at1 == Put(st.at, w, 1)
           stack1 == Append(st.stack, w)
           path1 == Append(st.path, w)
           st1 == Enter(st, w)
<1>1. /\ M \subseteq DOMAIN calls /\ IsFiniteSet(M) /\ w \notin M /\ w \in V
      /\ st.id \in [M -> Nat] /\ st.low \in [M -> Nat] /\ st.at \in [M -> Nat]
      /\ st.stack \in Seq(V) /\ st.path \in Seq(V) /\ st.found \in Seq(CycleFound(calls))
      /\ Range(st.stack) \subseteq M /\ Range(st.path) \subseteq Range(st.stack)
      /\ \A x \in M : st.id[x] <= Cardinality(M)
  BY StateOK
<1>2. k \in Nat /\ Cardinality(M) \in Nat
  BY <1>1, FS_CardinalityType
<1>3. /\ st1 = [id |-> id1, low |-> low1, at |-> at1, stack |-> stack1, path |-> path1,
                found |-> st.found]
  <2> DEFINE id == st.id
             low == st.low
             at == st.at
             stack == st.stack
             path == st.path
             found == st.found
  <2>1. st = [id |-> id, low |-> low, at |-> at, stack |-> stack, path |-> path, found |-> found]
    BY DEF SearchInv, SearchStates
  <2>2. st1 = [st EXCEPT !.id = id1, !.low = low1, !.at = at1, !.stack = stack1, !.path = path1]
    BY DEF Enter
  <2> HIDE DEF st1, id1, low1, at1, stack1, path1, id, low, at, stack, path, found
  <2>3. st1 = [id |-> id1, low |-> low1, at |-> at1, stack |-> stack1, path |-> path1, found |-> found]
    BY <2>1, <2>2
  <2> QED BY <2>3 DEF found
<1>4. Searching(calls, M \cup {w}, id1, low1, at1, Range(st.stack) \cup {w}, Range(st.path) \cup {w}, {})
  BY <1>1, EnterKeeps DEF SearchInv
<1> HIDE DEF k, st1
<1>5. /\ id1 \in [M \cup {w} -> Nat] /\ id1[w] = k /\ \A x \in M : id1[x] = st.id[x]
      /\ low1 \in [M \cup {w} -> Nat]
      /\ at1 \in [M \cup {w} -> Nat] /\ \A x \in M : at1[x] = st.at[x]
  BY <1>1, <1>2 DEF Put
<1> HIDE DEF id1, low1, at1
<1>6. \A x \in M : id1[x] = st.id[x] /\ st.id[x] < id1[w]
  BY <1>1, <1>2, <1>5 DEF k
<1>7. /\ stack1 \in Seq(V) /\ Range(stack1) = Range(st.stack) \cup {w} /\ Increasing(stack1, id1)
      /\ path1 \in Seq(V) /\ Range(path1) = Range(st.path) \cup {w} /\ Increasing(path1, id1)
  <2>1. Increasing(st.stack, st.id) /\ Increasing(st.path, st.id)
    BY DEF SearchInv
  <2> QED BY <1>1, <1>6, <2>1, AppendIncreasing
<1> HIDE DEF stack1, path1
<1>8. st1 \in SearchStates(calls)
  <2>1. id1 \in Numbers(calls) /\ low1 \in Numbers(calls) /\ at1 \in Numbers(calls)
    <3>1. M \cup {w} \in SUBSET DOMAIN calls
      BY <1>1
    <3> QED BY <1>5, <3>1 DEF Numbers
  <2> QED BY <1>1, <1>3, <1>7, <2>1 DEF SearchStates
<1>9. DOMAIN st1.id = M \cup {w} /\ st1.id = id1 /\ st1.low = low1 /\ st1.at = at1
      /\ st1.stack = stack1 /\ st1.path = path1 /\ st1.found = st.found
  BY <1>3, <1>5
<1>10. DOMAIN st1.id \ Range(st1.stack) = M \ Range(st.stack)
  BY <1>1, <1>7, <1>9
<1>11. SearchInv(calls, st1, {})
  <2>1. FoundComponents(calls, st1.found, DOMAIN st1.id \ Range(st1.stack))
    BY <1>9, <1>10 DEF SearchInv
  <2>2. Searching(calls, DOMAIN st1.id, st1.id, st1.low, st1.at, Range(st1.stack), Range(st1.path), {})
    BY <1>4, <1>7, <1>9
  <2> QED BY <1>7, <1>8, <1>9, <2>1, <2>2 DEF SearchInv
<1> QED BY <1>5, <1>7, <1>9, <1>11 DEF st1

\* The service dfs is at.
LEMMA TopOK ==
    ASSUME NEW calls, NEW st, NEW pending, SearchInv(calls, st, pending), st.path # <<>>
    PROVE  LET v == Last(st.path) IN
           /\ v \in Range(st.path) /\ v \in Range(st.stack) /\ v \in DOMAIN st.id
           /\ \A y \in Range(st.path) : st.id[y] <= st.id[v] /\ v \in Reached(calls, y)
           /\ Front(st.path) \in Seq(DOMAIN calls)
           /\ Range(Front(st.path)) = Range(st.path) \ {v} /\ Increasing(Front(st.path), st.id)
<1> DEFINE v == Last(st.path)
           V == DOMAIN calls
<1>1. /\ st.path \in Seq(V) /\ Range(st.stack) \subseteq DOMAIN st.id /\ st.id \in [DOMAIN st.id -> Nat]
      /\ Range(st.path) \subseteq Range(st.stack)
  BY StateOK
<1>2. \A x \in Range(st.path) : st.id[x] \in Nat
  BY <1>1
<1>3. Increasing(st.path, st.id)
  BY DEF SearchInv
<1>4. /\ v \in Range(st.path) /\ \A x \in Range(st.path) : st.id[x] <= st.id[v]
      /\ Front(st.path) \in Seq(V) /\ Range(Front(st.path)) = Range(st.path) \ {v}
      /\ Increasing(Front(st.path), st.id)
  BY <1>1, <1>2, <1>3, FrontIncreasing
<1> HIDE DEF v
<1>5. \A y \in Range(st.path) : v \in Reached(calls, y)
  BY <1>1, <1>4 DEF SearchInv, Searching, Joined
<1> QED BY <1>1, <1>4, <1>5 DEF v

\* A call is followed: its target has been met, or is about to be.
LEMMA MeetState ==
    ASSUME NEW calls, IsCalls(calls), NEW st, SearchInv(calls, st, {}), st.path # <<>>,
           LET v == Last(st.path) IN st.at[v] <= Len(calls[v])
    PROVE  LET v == Last(st.path)
               w == calls[v][st.at[v]]
               onward == [st EXCEPT !.at[v] = @ + 1]
               at1 == [st.at EXCEPT ![v] = @ + 1]
           IN /\ w \in DOMAIN st.id => SearchInv(calls, Meet(onward, v, w), {})
              /\ w \notin DOMAIN st.id => SearchInv(calls, onward, {w})
              /\ Meet(onward, v, w).id = st.id /\ onward.id = st.id
              /\ Meet(onward, v, w).path = st.path /\ onward.path = st.path
              /\ Meet(onward, v, w).at = at1 /\ onward.at = at1
<1> DEFINE M == DOMAIN st.id
           v == Last(st.path)
           w == calls[v][st.at[v]]
           onward == [st EXCEPT !.at[v] = @ + 1]
           at1 == [st.at EXCEPT ![v] = @ + 1]
           K == Range(st.stack)
           P == Range(st.path)
           low1 == IF w \in K /\ st.id[w] < st.low[v] THEN [st.low EXCEPT ![v] = st.id[w]] ELSE st.low
           met == Meet(onward, v, w)
<1>1. /\ M \subseteq DOMAIN calls /\ st.id \in [M -> Nat] /\ st.low \in [M -> Nat] /\ st.at \in [M -> Nat]
      /\ K \subseteq M
  BY StateOK
<1>2. v \in P /\ v \in K /\ v \in M /\ \A y \in P : st.id[y] <= st.id[v]
  BY TopOK
<1>3. Searching(calls, M, st.id, low1, at1, K, P, {w})
  <2> HIDE DEF v
  <2>1. Searching(calls, M, st.id, st.low, st.at, K, P, {}) /\ st.at[v] <= Len(calls[v])
    BY DEF SearchInv, v
  <2> QED BY <1>2, <2>1, MeetKeeps
<1> HIDE DEF v, w
<1>4. onward = [id |-> st.id, low |-> st.low, at |-> at1, stack |-> st.stack, path |-> st.path,
                found |-> st.found]
  <2> DEFINE id == st.id
             low == st.low
             at == st.at
             stack == st.stack
             path == st.path
             found == st.found
  <2>1. st = [id |-> id, low |-> low, at |-> at, stack |-> stack, path |-> path, found |-> found]
    BY DEF SearchInv, SearchStates
  <2>2. onward = [st EXCEPT !.at = at1]
    BY <2>1
  <2> HIDE DEF onward, at1, id, low, at, stack, path, found
  <2>3. onward = [id |-> id, low |-> low, at |-> at1, stack |-> stack, path |-> path, found |-> found]
    BY <2>1, <2>2
  <2> QED BY <2>3 DEF id, low, stack, path, found
<1>5. onward.low[v] = st.low[v] /\ onward.id = st.id /\ onward.stack = st.stack /\ onward.at = at1
      /\ onward.path = st.path /\ onward.low = st.low /\ onward.found = st.found
  BY <1>4
<1> HIDE DEF onward
<1>6. met = [id |-> st.id, low |-> low1, at |-> at1, stack |-> st.stack, path |-> st.path,
             found |-> st.found]
  <2>1. CASE w \in K
    <3>1. met = Lower(onward, v, st.id[w])
      BY <1>5, <2>1 DEF Meet
    <3>2. met = IF st.id[w] < st.low[v] THEN [onward EXCEPT !.low[v] = st.id[w]] ELSE onward
      BY <1>5, <3>1 DEF Lower
    <3> QED BY <1>4, <2>1, <3>2
  <2>2. CASE w \notin K
    <3>1. met = onward
      BY <1>5, <2>2 DEF Meet
    <3> QED BY <1>4, <2>2, <3>1
  <2> QED BY <2>1, <2>2
<1>7. at1 \in [M -> Nat] /\ low1 \in [M -> Nat]
  BY <1>1, <1>2
<1> HIDE DEF met, low1, at1
<1>8. at1 \in Numbers(calls) /\ low1 \in Numbers(calls)
  BY <1>1, <1>7 DEF Numbers
<1>9. met \in SearchStates(calls) /\ onward \in SearchStates(calls)
  BY <1>4, <1>6, <1>8 DEF SearchInv, SearchStates
<1>10. ASSUME w \in M PROVE SearchInv(calls, met, {})
  <2>1. Followed(calls, M, at1, P, {})
    <3>1. M \cup {w} = M \cup {}
      BY <1>10
    <3> QED BY <1>3, <3>1 DEF Searching, Followed
  <2>2. Searching(calls, M, st.id, low1, at1, K, P, {})
    BY <1>3, <2>1 DEF Searching
  <2> QED BY <1>6, <1>9, <2>2 DEF SearchInv
<1>11. ASSUME w \notin M PROVE SearchInv(calls, onward, {w})
  <2>1. low1 = st.low
    BY <1>1, <1>11 DEF low1
  <2> QED BY <1>3, <1>4, <1>9, <2>1 DEF SearchInv
<1>12. met.id = st.id /\ met.path = st.path /\ met.at = at1
  BY <1>6
<1> QED BY <1>5, <1>10, <1>11, <1>12 DEF met, onward, w, v, at1

\* One more component, of services that were in none.
LEMMA FoundOneMore ==
    ASSUME NEW calls, IsCalls(calls), NEW found \in Seq(CycleFound(calls)), NEW done,
           FoundComponents(calls, found, done), done \subseteq DOMAIN calls,
           \A x \in done : Component(calls, x) \subseteq done,
           NEW v \in DOMAIN calls \ done, NEW c \in Seq(DOMAIN calls), Range(c) = Component(calls, v),
           Len(c) > 1 <=> Cardinality(Range(c)) > 1
    PROVE  LET more == IF Len(c) > 1 THEN Append(found, Detection("cycles", "HIGH", c)) ELSE found
           IN /\ more \in Seq(CycleFound(calls))
              /\ FoundComponents(calls, more, done \cup Range(c))
<1> DEFINE C == Component(calls, v)
           d == Detection("cycles", "HIGH", c)
           more == IF Len(c) > 1 THEN Append(found, d) ELSE found
           n == Len(found)
<1>1. d \in CycleFound(calls) /\ d.nodes = c
  BY DEF CycleFound, Detection
<1>2. /\ \A x, y \in DOMAIN calls :
           /\ x \in Component(calls, x)
           /\ y \in Component(calls, x) => Component(calls, y) = Component(calls, x)
      /\ C \subseteq DOMAIN calls
  BY ComponentsOK DEF Component
<1>3. v \in C /\ \A x \in C : Component(calls, x) = C
  BY <1>2
<1> HIDE DEF d, C
<1>4. {Component(calls, x) : x \in done \cup C} = {Component(calls, x) : x \in done} \cup {C}
  BY <1>3
<1>5. n \in Nat /\ DOMAIN found = 1 .. n
  OBVIOUS
<1> HIDE DEF n
<1>6. \A i \in 1 .. n : Range(found[i].nodes) # C
  <2> TAKE i \in 1 .. n
  <2>1. {Range(found[j].nodes) : j \in DOMAIN found}
           = {b \in {Component(calls, x) : x \in done} : Cardinality(b) > 1}
    BY DEF FoundComponents
  <2>2. Range(found[i].nodes) \in {Range(found[j].nodes) : j \in DOMAIN found}
    BY <1>5
  <2>3. PICK x \in done : Range(found[i].nodes) = Component(calls, x)
    BY <2>1, <2>2
  <2> QED BY <1>3, <2>3
<1>7. CASE Len(c) > 1
  <2>1. /\ more \in Seq(CycleFound(calls)) /\ DOMAIN more = 1 .. n + 1
        /\ \A i \in 1 .. n : more[i] = found[i]
        /\ more[n + 1] = d
    BY <1>1, <1>7, AppendProperties DEF n
  <2> HIDE DEF more
  <2>2. {Range(more[i].nodes) : i \in DOMAIN more} = {Range(found[i].nodes) : i \in 1 .. n} \cup {C}
    <3>1. \A i \in DOMAIN more : i \in 1 .. n \/ i = n + 1
      BY <1>5, <2>1
    <3>2. \A i \in 1 .. n : i \in DOMAIN more
      BY <1>5, <2>1
    <3>3. n + 1 \in DOMAIN more /\ Range(more[n + 1].nodes) = C
      BY <1>1, <1>5, <2>1 DEF C
    <3> QED BY <2>1, <3>1, <3>2, <3>3
  <2>3. {x \in {Component(calls, y) : y \in done \cup C} : Cardinality(x) > 1}
        = {x \in {Component(calls, y) : y \in done} : Cardinality(x) > 1} \cup {C}
    <3>1. Cardinality(C) > 1
      BY <1>7 DEF C
    <3> DEFINE old == {Component(calls, y) : y \in done}
    <3>2. {Component(calls, y) : y \in done \cup C} = old \cup {C}
      BY <1>4
    <3> HIDE DEF old
    <3>3. {x \in old \cup {C} : Cardinality(x) > 1} = {x \in old : Cardinality(x) > 1} \cup {C}
      BY <3>1
    <3> QED BY <3>2, <3>3 DEF old
  <2>4. ASSUME NEW i \in DOMAIN more, NEW j \in DOMAIN more,
               Range(more[i].nodes) = Range(more[j].nodes)
        PROVE  i = j
    <3>1. Range(more[n + 1].nodes) = C
      BY <1>1, <2>1 DEF C
    <3>2. \A l \in 1 .. n : more[l].nodes = found[l].nodes /\ Range(more[l].nodes) # C
      BY <1>6, <2>1
    <3>3. (i \in 1 .. n \/ i = n + 1) /\ (j \in 1 .. n \/ j = n + 1)
      BY <1>5, <2>1
    <3>4. i \in 1 .. n /\ j \in 1 .. n => i = j
      BY <1>5, <2>4, <3>2 DEF FoundComponents
    <3> QED BY <2>4, <3>1, <3>2, <3>3, <3>4
  <2>5. {Range(found[i].nodes) : i \in 1 .. n}
        = {x \in {Component(calls, y) : y \in done} : Cardinality(x) > 1}
    BY <1>5 DEF FoundComponents
  <2>6. FoundComponents(calls, more, done \cup C)
    BY <2>2, <2>3, <2>4, <2>5 DEF FoundComponents
  <2> QED BY <2>1, <2>6 DEF more, C, d
<1>8. CASE ~(Len(c) > 1)
  <2>1. more = found /\ ~(Cardinality(C) > 1)
    BY <1>8 DEF C
  <2>2. {x \in {Component(calls, y) : y \in done \cup C} : Cardinality(x) > 1}
        = {x \in {Component(calls, y) : y \in done} : Cardinality(x) > 1}
    <3> DEFINE old == {Component(calls, y) : y \in done}
    <3>1. {Component(calls, y) : y \in done \cup C} = old \cup {C}
      BY <1>4
    <3> HIDE DEF old
    <3>2. {x \in old \cup {C} : Cardinality(x) > 1} = {x \in old : Cardinality(x) > 1}
      BY <2>1
    <3> QED BY <3>1, <3>2 DEF old
  <2>3. FoundComponents(calls, found, done \cup C)
    BY <2>2 DEF FoundComponents
  <2> QED BY <2>1, <2>3 DEF C, d
<1> QED BY <1>7, <1>8

\* dfs(v) returns.
LEMMA LeaveState ==
    ASSUME NEW calls, IsCalls(calls), NEW st, SearchInv(calls, st, {}), st.path # <<>>,
           LET v == Last(st.path) IN st.at[v] > Len(calls[v])
    PROVE  LET v == Last(st.path)
           IN /\ SearchInv(calls, Leave(st, v), {})
              /\ Leave(st, v).id = st.id /\ Leave(st, v).at = st.at
              /\ Range(Leave(st, v).path) = Range(st.path) \ {v}
<1> DEFINE M == DOMAIN st.id
           v == Last(st.path)
           id == st.id
           low == st.low
           at == st.at
           stack == st.stack
           path == st.path
           found == st.found
           K == Range(stack)
           P == Range(path)
           front == Front(path)
           st1 == Leave(st, v)
<1>1. /\ M \subseteq DOMAIN calls /\ id \in [M -> Nat] /\ low \in [M -> Nat] /\ at \in [M -> Nat]
      /\ K \subseteq M /\ P \subseteq K /\ stack \in Seq(DOMAIN calls) /\ found \in Seq(CycleFound(calls))
  BY StateOK
<1>2. v \in P /\ v \in K /\ v \in M /\ \A y \in P : id[y] <= id[v]
  BY TopOK
<1>3. front \in Seq(DOMAIN calls) /\ Range(front) = P \ {v} /\ Increasing(front, id)
  BY TopOK
<1>4. Searching(calls, M, id, low, at, K, P, {})
  BY DEF SearchInv
<1>5. at[v] = Len(calls[v]) + 1
  <2>1. at[v] > Len(calls[v])
    OBVIOUS
  <2> HIDE DEF v, at
  <2>2. at[v] <= Len(calls[v]) + 1
    BY <1>2, <1>4 DEF Searching, Followed
  <2>3. at[v] \in Nat /\ Len(calls[v]) \in Nat
    BY <1>1, <1>2 DEF IsCalls
  <2> QED BY <2>1, <2>2, <2>3
<1>6. st = [id |-> id, low |-> low, at |-> at, stack |-> stack, path |-> path, found |-> found]
  BY DEF SearchInv, SearchStates
<1>7. Increasing(stack, id) /\ Increasing(path, id) /\ FoundComponents(calls, found, M \ K)
  BY DEF SearchInv
<1>8. id \in Numbers(calls) /\ low \in Numbers(calls) /\ at \in Numbers(calls)
  BY DEF SearchInv, SearchStates
<1>11. M = DOMAIN id /\ K = Range(stack) /\ P = Range(path)
  OBVIOUS
<1> HIDE DEF v, id, low, at, stack, path, found, K, P, front, M
<1>12. Returning(calls, M, id, low, at, K, P, v)
  BY <1>2, <1>4, <1>5 DEF Returning
<1>9. CASE low[v] # id[v]
  <2> DEFINE left == [id |-> id, low |-> low, at |-> at, stack |-> stack, path |-> front, found |-> found]
             u == Last(front)
             low1 == IF low[v] < low[u] THEN [low EXCEPT ![u] = low[v]] ELSE low
  <2>1. left = [st EXCEPT !.path = Front(@)]
    BY <1>6 DEF front
  <2>2. P \ {v} # {}
    <3> HIDE DEF left, u, low1
    <3> QED BY <1>9, <1>12, LeaveKeeps
  <2>3. front # <<>>
    BY <1>3, <2>2 DEF Range
  <2>4. u \in P \ {v} /\ \A y \in P \ {v} : id[y] <= id[u]
    <3>1. \A x \in Range(front) : id[x] \in Nat
      BY <1>1, <1>3
    <3> QED BY <1>3, <2>3, <3>1, FrontIncreasing
  <2> HIDE DEF u
  <2>5. Searching(calls, M, id, low1, at, K, P \ {v}, {})
    BY <1>9, <1>12, <2>4, LeaveKeeps
  <2>6. st1 = Lower(left, u, low[v])
    <3>1. st1 = IF left.path = <<>> THEN left ELSE Lower(left, Last(left.path), st.low[v])
      <4> HIDE DEF left
      <4>1. st.low[v] # st.id[v]
        BY <1>9 DEF id, low
      <4> QED BY <2>1, <4>1 DEF Leave
    <3> QED BY <2>3, <3>1 DEF u, low
  <2>7. st1 = [id |-> id, low |-> low1, at |-> at, stack |-> stack, path |-> front, found |-> found]
    BY <2>6 DEF Lower
  <2>8. low1 \in [M -> Nat]
    BY <1>1, <1>2, <2>4
  <2> HIDE DEF low1, st1
  <2>9. low1 \in Numbers(calls)
    BY <1>1, <2>8 DEF Numbers
  <2>10. st1 \in SearchStates(calls)
    BY <1>1, <1>3, <1>8, <2>7, <2>9 DEF SearchStates
  <2>11. SearchInv(calls, st1, {})
    BY <1>3, <1>7, <1>11, <2>5, <2>7, <2>10 DEF SearchInv
  <2> QED BY <1>3, <2>7, <2>11 DEF st1, id, at, v, P, path
<1>10. CASE low[v] = id[v]
  <2> DEFINE place == CHOOSE i \in DOMAIN stack : stack[i] = v
             before == SubSeq(stack, 1, place - 1)
             c == Reverse(SubSeq(stack, place, Len(stack)))
             more == IF Len(c) > 1 THEN Append(found, Detection("cycles", "HIGH", c)) ELSE found
             left == [id |-> id, low |-> low, at |-> at, stack |-> before, path |-> front, found |-> more]
             K1 == Below(K, id, id[v])
             C == From(K, id, id[v])
  <2>1. left = [Pop(st, v) EXCEPT !.path = Front(@)]
    <3> HIDE DEF before, more
    <3>1. Pop(st, v) = [st EXCEPT !.stack = before, !.found = more]
      BY <1>6 DEF Pop, before, c, place, more, stack, found
    <3>2. Pop(st, v) = [id |-> id, low |-> low, at |-> at, stack |-> before, path |-> path, found |-> more]
      BY <1>6, <3>1
    <3> QED BY <3>2 DEF front
  <2>2. place \in DOMAIN stack /\ stack[place] = v
    BY <1>2 DEF K, Range
  <2> HIDE DEF place
  <2>3. /\ before \in Seq(DOMAIN calls) /\ c \in Seq(DOMAIN calls)
        /\ Range(before) = K1 /\ Range(c) = C /\ Increasing(before, id)
        /\ Len(c) > 1 <=> Cardinality(Range(c)) > 1
    <3>1. \A x \in Range(stack) : id[x] \in Nat
      BY <1>1 DEF K
    <3>2. /\ before \in Seq(DOMAIN calls) /\ c \in Seq(DOMAIN calls)
          /\ Range(before) = Below(Range(stack), id, id[stack[place]])
          /\ Range(c) = From(Range(stack), id, id[stack[place]])
          /\ Increasing(before, id)
          /\ Len(c) > 1 <=> Cardinality(Range(c)) > 1
      <4> HIDE DEF K1, C, left, more
      <4> QED BY <1>1, <1>7, <2>2, <3>1, CutIncreasing
    <3> HIDE DEF before, c, left, more
    <3> QED BY <1>11, <2>2, <3>2
  <2> HIDE DEF before, c
  <2>4. /\ Searching(calls, M, id, low, at, K1, P \ {v}, {})
        /\ \A u \in P \ {v} : low[u] < low[v]
        /\ C = Component(calls, v)
        /\ \A x \in M \ K : Component(calls, x) \subseteq M \ K
    <3> HIDE DEF left, more
    <3> HIDE DEF left, more
    <3>1. Popped(calls, M, id, low, at, K, P, v)
      BY <1>10, <1>12, PopKeeps
    <3> QED BY <3>1 DEF Popped
  <2>5. more \in Seq(CycleFound(calls)) /\ FoundComponents(calls, more, (M \ K) \cup C)
    <3> DEFINE done == M \ K
    <3>1. v \in DOMAIN calls \ done /\ done \subseteq DOMAIN calls /\ FoundComponents(calls, found, done)
          /\ \A x \in done : Component(calls, x) \subseteq done
      BY <1>1, <1>2, <1>7, <2>4
    <3> HIDE DEF done, C
    <3>2. more \in Seq(CycleFound(calls)) /\ FoundComponents(calls, more, done \cup Range(c))
      BY <1>1, <2>3, <2>4, <3>1, FoundOneMore
    <3> QED BY <2>3, <3>2 DEF done
  <2>6. (M \ K) \cup C = M \ K1
    <3>1. \A x \in K : x \in M /\ (id[x] < id[v] <=> ~(id[v] <= id[x]))
      BY <1>1, <1>2
    <3>2. C = K \ K1 /\ K1 \subseteq K /\ K \subseteq M
      BY <1>1, <3>1 DEF Below, From
    <3> HIDE DEF C, K1
    <3> QED BY <3>2
  <2> HIDE DEF more, C, K1
  <2>7. st1 = left
    <3>1. st1 = IF left.path = <<>> THEN left ELSE Lower(left, Last(left.path), st.low[v])
      <4> HIDE DEF left
      <4>1. st.low[v] = st.id[v]
        BY <1>10 DEF id, low
      <4> QED BY <2>1, <4>1 DEF Leave
    <3>2. CASE front = <<>>
      BY <3>1, <3>2
    <3>3. CASE front # <<>>
      <4>1. Last(front) \in P \ {v}
        <5>1. \A x \in Range(front) : id[x] \in Nat
          BY <1>1, <1>3
        <5> QED BY <1>3, <3>3, <5>1, FrontIncreasing
      <4>2. ~(low[v] < low[Last(front)])
        <5>1. low[v] \in Nat /\ low[Last(front)] \in Nat
          BY <1>1, <1>2, <4>1
        <5> QED BY <2>4, <4>1, <5>1
      <4>3. left.path = front /\ left.low = low /\ st.low = low
        BY DEF low
      <4> HIDE DEF left
      <4> QED BY <3>1, <3>3, <4>2, <4>3 DEF Lower
    <3> QED BY <3>2, <3>3
  <2> HIDE DEF st1
  <2>8. st1 \in SearchStates(calls)
    BY <1>3, <1>8, <2>3, <2>5, <2>7 DEF SearchStates
  <2>9. SearchInv(calls, st1, {})
    BY <1>3, <1>11, <2>3, <2>4, <2>5, <2>6, <2>7, <2>8 DEF SearchInv
  <2> QED BY <1>3, <2>7, <2>9 DEF st1, id, at, v, P, path
<1> QED BY <1>9, <1>10

\* What the search has done, which each of its steps adds to.
FollowedCalls(st) == UNION {{x} \X (1 .. st.at[x] - 1) : x \in DOMAIN st.id}

\* The calls of the graph, by their places.
AllCalls(calls) == UNION {{v} \X DOMAIN calls[v] : v \in DOMAIN calls}

\* Services met that are no longer on the path.
Left(st) == DOMAIN st.id \ Range(st.path)

\* How far the search is: each step adds to it.
Size(st) == Cardinality(DOMAIN st.id) + Cardinality(Left(st)) + Cardinality(FollowedCalls(st))

\* st1 has met, left or followed more than st.
Ahead(st, st1) ==
    /\ DOMAIN st.id \subseteq DOMAIN st1.id
    /\ Left(st) \subseteq Left(st1)
    /\ FollowedCalls(st) \subseteq FollowedCalls(st1)
    /\ DOMAIN st.id # DOMAIN st1.id \/ Left(st) # Left(st1) \/ FollowedCalls(st) # FollowedCalls(st1)

\* All services have been met, and none is on the path.
IsOver(calls, st) == st.path = <<>> /\ DOMAIN st.id = DOMAIN calls

\* There are finitely many calls.
LEMMA AllCallsFinite ==
    ASSUME NEW calls, IsCalls(calls)
    PROVE  IsFiniteSet(AllCalls(calls))
<1> DEFINE V == DOMAIN calls
           Of == [v \in V |-> {v} \X DOMAIN calls[v]]
<1>1. IsFiniteSet(V)
  BY DEF IsCalls
<1>2. \A v \in V : IsFiniteSet(Of[v])
  <2> TAKE v \in V
  <2>1. DOMAIN calls[v] = 1 .. Len(calls[v]) /\ Len(calls[v]) \in Nat
    BY DEF IsCalls
  <2>2. IsFiniteSet(DOMAIN calls[v])
    BY <2>1, FS_Interval
  <2>3. IsFiniteSet({v} \X DOMAIN calls[v])
    BY <2>2, FS_Singleton, FS_Product
  <2> QED BY <2>3
<1>3. Of \in [V -> Range(Of)]
  BY DEF Range
<1>4. IsFiniteSet(Range(Of)) /\ \A T \in Range(Of) : IsFiniteSet(T)
  <2>1. IsFiniteSet(Range(Of))
    <3> HIDE DEF Of
    <3> QED BY <1>1, <1>3, RangeFinite
  <2> QED BY <1>2, <2>1 DEF Range
<1>5. IsFiniteSet(UNION Range(Of))
  <2> HIDE DEF Of
  <2> QED BY <1>4, FS_UNION
<1>6. UNION Range(Of) = AllCalls(calls)
  BY DEF Range, AllCalls
<1> QED BY <1>5, <1>6

\* The size is at most the number of steps, and then there is nothing left to do.
LEMMA SizeOK ==
    ASSUME NEW calls, IsCalls(calls), NEW st, SearchInv(calls, st, {})
    PROVE  /\ Size(st) \in Nat /\ Steps(calls) \in Nat /\ Size(st) <= Steps(calls)
           /\ Size(st) = Steps(calls) => IsOver(calls, st)
           /\ IsFiniteSet(DOMAIN st.id) /\ IsFiniteSet(Left(st)) /\ IsFiniteSet(FollowedCalls(st))
<1> DEFINE V == DOMAIN calls
           M == DOMAIN st.id
           F == FollowedCalls(st)
           A == AllCalls(calls)
<1>1. /\ M \subseteq V /\ st.at \in [M -> Nat] /\ Range(st.path) \subseteq Range(st.stack)
      /\ Range(st.stack) \subseteq M /\ st.path \in Seq(V)
  BY StateOK
<1>2. IsFiniteSet(V) /\ IsFiniteSet(A)
  BY AllCallsFinite DEF IsCalls
<1>3. F \subseteq A
  <2>1. \A x \in M : 1 .. st.at[x] - 1 \subseteq DOMAIN calls[x]
    <3> TAKE x \in M
    <3>1. DOMAIN calls[x] = 1 .. Len(calls[x]) /\ Len(calls[x]) \in Nat
      BY <1>1 DEF IsCalls
    <3>2. st.at[x] <= Len(calls[x]) + 1 /\ st.at[x] \in Nat
      BY <1>1 DEF SearchInv, Searching, Followed
    <3> QED BY <3>1, <3>2
  <2>2. ASSUME NEW p \in F PROVE p \in A
    <3>1. PICK x \in M : p \in {x} \X (1 .. st.at[x] - 1)
      BY DEF FollowedCalls
    <3>2. p \in {x} \X DOMAIN calls[x] /\ x \in V
      BY <1>1, <2>1, <3>1
    <3> QED BY <3>2 DEF AllCalls
  <2> HIDE DEF F, A
  <2> QED BY <2>2
<1>4. Left(st) \subseteq V /\ Left(st) \subseteq M
  BY <1>1 DEF Left
<1> DEFINE a == Cardinality(V)
           b == Cardinality(A)
           m == Cardinality(M)
           l == Cardinality(Left(st))
           f == Cardinality(F)
<1>5. Steps(calls) = 2 * a + b /\ Size(st) = m + l + f
  BY DEF Steps, AllCalls, Size
<1> HIDE DEF V, M, F, A
<1>6. /\ a \in Nat /\ b \in Nat /\ m \in Nat /\ l \in Nat /\ f \in Nat
      /\ IsFiniteSet(M) /\ IsFiniteSet(Left(st)) /\ IsFiniteSet(F)
  BY <1>1, <1>2, <1>3, <1>4, FS_Subset, FS_CardinalityType
<1>7. m <= a /\ l <= a /\ f <= b /\ (m = a => M = V) /\ (l = a => Left(st) = V)
  BY <1>1, <1>2, <1>3, <1>4, FS_Subset
<1> HIDE DEF a, b, m, l, f
<1>8. Size(st) <= Steps(calls) /\ (Size(st) = Steps(calls) => m = a /\ l = a)
  BY <1>5, <1>6, <1>7
<1>9. ASSUME M = V, Left(st) = V PROVE IsOver(calls, st)
  <2>1. Range(st.path) = {}
    <3>1. Range(st.path) \subseteq M
      BY <1>1
    <3>2. Left(st) = M \ Range(st.path)
      BY DEF Left, M
    <3> QED BY <1>9, <3>1, <3>2
  <2>2. st.path = <<>>
    <3>1. DOMAIN st.path = 1 .. Len(st.path) /\ Len(st.path) \in Nat
      BY <1>1
    <3>2. 1 \in DOMAIN st.path => st.path[1] \in Range(st.path)
      BY DEF Range
    <3>3. Len(st.path) = 0
      BY <2>1, <3>1, <3>2
    <3> QED BY <1>1, <3>3
  <2> QED BY <1>9, <2>2 DEF IsOver, M, V
<1> QED BY <1>5, <1>6, <1>7, <1>8, <1>9 DEF M, F

\* A state that is ahead is greater.
LEMMA SizeGrows ==
    ASSUME NEW calls, IsCalls(calls), NEW st, SearchInv(calls, st, {}),
           NEW st1, SearchInv(calls, st1, {}), Ahead(st, st1)
    PROVE  Size(st) < Size(st1)
<1> DEFINE A == DOMAIN st.id
           B == Left(st)
           C == FollowedCalls(st)
           A1 == DOMAIN st1.id
           B1 == Left(st1)
           C1 == FollowedCalls(st1)
<1>1. /\ A \subseteq A1 /\ B \subseteq B1 /\ C \subseteq C1
      /\ A # A1 \/ B # B1 \/ C # C1
  BY DEF Ahead
<1>2. IsFiniteSet(A1) /\ IsFiniteSet(B1) /\ IsFiniteSet(C1)
  BY SizeOK
<1>3. Size(st) = Cardinality(A) + Cardinality(B) + Cardinality(C)
      /\ Size(st1) = Cardinality(A1) + Cardinality(B1) + Cardinality(C1)
  BY DEF Size
<1> HIDE DEF A, B, C, A1, B1, C1
<1>4. /\ IsFiniteSet(A) /\ Cardinality(A) <= Cardinality(A1) /\ (Cardinality(A) = Cardinality(A1) => A = A1)
      /\ IsFiniteSet(B) /\ Cardinality(B) <= Cardinality(B1) /\ (Cardinality(B) = Cardinality(B1) => B = B1)
      /\ IsFiniteSet(C) /\ Cardinality(C) <= Cardinality(C1) /\ (Cardinality(C) = Cardinality(C1) => C = C1)
  BY <1>1, <1>2, FS_Subset
<1>5. /\ Cardinality(A) \in Nat /\ Cardinality(A1) \in Nat /\ Cardinality(B) \in Nat
      /\ Cardinality(B1) \in Nat /\ Cardinality(C) \in Nat /\ Cardinality(C1) \in Nat
  BY <1>2, <1>4, FS_CardinalityType
<1> QED BY <1>1, <1>3, <1>4, <1>5

\* The search has come to a service it has not met, which all those of the path reach.
MayEnter(calls, st, w) ==
    /\ SearchInv(calls, st, {w})
    /\ w \in DOMAIN calls \ DOMAIN st.id
    /\ \A y \in Range(st.path) : w \in Reached(calls, y)

\* It is at this service now.
Entered(calls, st, st1, w) ==
    /\ SearchInv(calls, st1, {})
    /\ DOMAIN st1.id = DOMAIN st.id \cup {w}
    /\ Range(st1.path) = Range(st.path) \cup {w}
    /\ \A x \in DOMAIN st.id : st1.at[x] = st.at[x]

\* The search enters the next service that a call leads to.
LEMMA MayEnterOK ==
    ASSUME NEW calls, IsCalls(calls), NEW st, NEW w, MayEnter(calls, st, w)
    PROVE  Entered(calls, st, Enter(st, w), w)
<1> DEFINE pending == {w}
<1>1. pending \subseteq {w} /\ SearchInv(calls, st, pending)
  BY DEF MayEnter
<1>2. w \in DOMAIN calls \ DOMAIN st.id
  BY DEF MayEnter
<1>3. \A y \in Range(st.path) : w \in Reached(calls, y)
  BY DEF MayEnter
<1> HIDE DEF pending
<1> QED BY <1>1, <1>2, <1>3, EnterState DEF Entered

\* A step of the search keeps its invariant, and gets ahead unless the search is over.
LEMMA SearchStep ==
    ASSUME NEW calls, IsCalls(calls), NEW order \in Seq(DOMAIN calls), Range(order) = DOMAIN calls,
           NEW st, SearchInv(calls, st, {})
    PROVE  /\ SearchInv(calls, Search(calls, order, st), {})
           /\ IsOver(calls, st) \/ Ahead(st, Search(calls, order, st))
           /\ IsOver(calls, st) => Search(calls, order, st) = st
<1> DEFINE V == DOMAIN calls
           M == DOMAIN st.id
           st1 == Search(calls, order, st)
           rest == Only(order, Range(order) \ M)
<1>1. /\ M \subseteq V /\ st.at \in [M -> Nat] /\ Range(st.path) \subseteq Range(st.stack)
      /\ Range(st.stack) \subseteq M /\ st.path \in Seq(V)
  BY StateOK
<1>2. rest \in Seq(V) /\ Range(rest) = V \ M
  <2>1. rest \in Seq(V \cap (Range(order) \ M)) /\ Range(rest) = Range(order) \cap (Range(order) \ M)
    BY OnlyOK
  <2> HIDE DEF rest
  <2> QED BY <2>1
<1>3. rest # <<>> => rest[1] \in V \ M
  <2> HIDE DEF rest
  <2>1. rest # <<>> => 1 \in DOMAIN rest
    BY <1>2
  <2> QED BY <1>2, <2>1 DEF Range
<1>4. rest = <<>> => V = M
  <2> HIDE DEF rest
  <2>1. rest = <<>> => Range(rest) = {}
    BY DEF Range
  <2> QED BY <1>1, <1>2, <2>1
<1>5. st1 = IF st.path # <<>> THEN Walk(calls, st) ELSE IF rest # <<>> THEN Enter(st, rest[1]) ELSE st
  BY DEF Search
<1> HIDE DEF rest, st1
<1>6. CASE st.path = <<>> /\ rest # <<>>
  <2> DEFINE w == rest[1]
  <2>1. w \in V \ M
    BY <1>3, <1>6
  <2> HIDE DEF w
  <2>2. /\ SearchInv(calls, Enter(st, w), {})
        /\ DOMAIN Enter(st, w).id = M \cup {w}
        /\ Range(Enter(st, w).path) = Range(st.path) \cup {w}
        /\ \A x \in M : Enter(st, w).at[x] = st.at[x]
    <3>1. {} \subseteq {w} /\ Range(st.path) = {}
      BY <1>6 DEF Range
    <3> QED BY <2>1, <3>1, EnterState
  <2>3. st1 = Enter(st, w)
    BY <1>5, <1>6 DEF w
  <2>4. Ahead(st, st1)
    <3>1. DOMAIN st1.id = M \cup {w} /\ Left(st1) = Left(st)
      BY <1>1, <2>1, <2>2, <2>3 DEF Left
    <3>2. FollowedCalls(st) \subseteq FollowedCalls(st1)
      BY <2>2, <2>3, <3>1 DEF FollowedCalls
    <3> QED BY <2>1, <3>1, <3>2 DEF Ahead
  <2>5. ~IsOver(calls, st)
    BY <2>1 DEF IsOver
  <2> QED BY <2>2, <2>3, <2>4, <2>5 DEF st1
<1>7. CASE st.path = <<>> /\ rest = <<>>
  <2>1. st1 = st /\ IsOver(calls, st)
    BY <1>4, <1>5, <1>7 DEF IsOver
  <2> QED BY <2>1 DEF st1
<1>8. CASE st.path # <<>>
  <2> DEFINE v == Last(st.path)
             w == calls[v][st.at[v]]
             onward == [st EXCEPT !.at[v] = @ + 1]
             at1 == [st.at EXCEPT ![v] = @ + 1]
  <2>1. v \in Range(st.path) /\ v \in M /\ \A y \in Range(st.path) : v \in Reached(calls, y)
    BY <1>8, TopOK
  <2>2. st.at[v] \in Nat /\ Len(calls[v]) \in Nat /\ 1 <= st.at[v] /\ calls[v] \in Seq(V)
    <3> HIDE DEF v
    <3>1. 1 <= st.at[v]
      BY <2>1 DEF SearchInv, Searching, Followed
    <3> QED BY <1>1, <2>1, <3>1 DEF IsCalls
  <2>3. st1 = CASE st.at[v] > Len(calls[v])                          -> Leave(st, v)
                [] st.at[v] <= Len(calls[v]) /\ w \in M    -> Meet(onward, v, w)
                [] st.at[v] <= Len(calls[v]) /\ w \notin M -> Enter(onward, w)
    BY <1>5, <1>8 DEF Walk
  <2>4. ~IsOver(calls, st)
    BY <1>8 DEF IsOver
  <2>5. CASE st.at[v] > Len(calls[v])
    <3>1. /\ SearchInv(calls, Leave(st, v), {})
          /\ Leave(st, v).id = st.id /\ Leave(st, v).at = st.at
          /\ Range(Leave(st, v).path) = Range(st.path) \ {v}
      BY <1>8, <2>5, LeaveState
    <3> HIDE DEF v, w, onward
    <3>2. st1 = Leave(st, v)
      <4>1. ~(st.at[v] <= Len(calls[v]))
        BY <2>2, <2>5
      <4> QED BY <2>3, <2>5, <4>1
    <3>3. Ahead(st, st1)
      <4>1. Left(st1) = Left(st) \cup {v} /\ v \notin Left(st) /\ DOMAIN st1.id = M
        BY <1>1, <2>1, <3>1, <3>2 DEF Left
      <4>2. FollowedCalls(st) = FollowedCalls(st1)
        BY <3>1, <3>2 DEF FollowedCalls
      <4> QED BY <4>1, <4>2 DEF Ahead
    <3> QED BY <2>4, <3>1, <3>2, <3>3 DEF st1
  <2>6. CASE st.at[v] <= Len(calls[v])
    <3>1. /\ w \in M => SearchInv(calls, Meet(onward, v, w), {})
          /\ w \notin M => SearchInv(calls, onward, {w})
          /\ Meet(onward, v, w).id = st.id /\ onward.id = st.id
          /\ Meet(onward, v, w).path = st.path /\ onward.path = st.path
          /\ Meet(onward, v, w).at = at1 /\ onward.at = at1
      BY <1>8, <2>6, MeetState
    <3>2. at1 \in [M -> Nat] /\ at1[v] = st.at[v] + 1 /\ \A x \in M : x # v => at1[x] = st.at[x]
      BY <1>1, <2>1, <2>2
    <3>3. w \in V /\ w \in Reached(calls, v)
      <4>1. st.at[v] \in DOMAIN calls[v] /\ v \in V
        BY <1>1, <2>1, <2>2, <2>6
      <4> QED BY <4>1, ReachedOK
    <3>4. ~(st.at[v] > Len(calls[v]))
      BY <2>2, <2>6
    <3>5. st1 = IF w \in M THEN Meet(onward, v, w) ELSE Enter(onward, w)
      BY <2>3, <2>6, <3>4
    <3> HIDE DEF v, w, onward, at1
    <3>6. ASSUME NEW st2, DOMAIN st2.id = M \/ M \subseteq DOMAIN st2.id,
                 \A x \in M : st2.at[x] = at1[x]
          PROVE  FollowedCalls(st) \subseteq FollowedCalls(st2) /\ FollowedCalls(st) # FollowedCalls(st2)
      <4>1. ASSUME NEW p \in FollowedCalls(st) PROVE p \in FollowedCalls(st2)
        <5>1. PICK x \in M : p \in {x} \X (1 .. st.at[x] - 1)
          BY DEF FollowedCalls
        <5>2. st.at[x] \in Nat /\ (st2.at[x] = st.at[x] \/ st2.at[x] = st.at[x] + 1)
          BY <1>1, <3>2, <3>6
        <5>3. p \in {x} \X (1 .. st2.at[x] - 1)
          BY <5>1, <5>2
        <5> QED BY <3>6, <5>3 DEF FollowedCalls
      <4>2. <<v, st.at[v]>> \in FollowedCalls(st2)
        <5>1. st2.at[v] = st.at[v] + 1 /\ v \in DOMAIN st2.id
          BY <2>1, <3>2, <3>6
        <5>2. st.at[v] \in 1 .. st2.at[v] - 1
          BY <2>2, <5>1
        <5>3. <<v, st.at[v]>> \in {v} \X (1 .. st2.at[v] - 1)
          BY <5>2
        <5> QED BY <5>1, <5>3 DEF FollowedCalls
      <4>3. <<v, st.at[v]>> \notin FollowedCalls(st)
        <5>1. ASSUME NEW x \in M, <<v, st.at[v]>> \in {x} \X (1 .. st.at[x] - 1) PROVE FALSE
          <6>1. x = v /\ st.at[v] \in 1 .. st.at[x] - 1
            BY <5>1
          <6> QED BY <2>2, <6>1
        <5> QED BY <5>1 DEF FollowedCalls
      <4> QED BY <4>1, <4>2, <4>3
    <3>7. CASE w \in M
      <4>1. st1 = Meet(onward, v, w) /\ SearchInv(calls, st1, {})
        BY <3>1, <3>5, <3>7
      <4>2. DOMAIN st1.id = M /\ Left(st1) = Left(st) /\ \A x \in M : st1.at[x] = at1[x]
        BY <3>1, <4>1 DEF Left
      <4>3. FollowedCalls(st) \subseteq FollowedCalls(st1) /\ FollowedCalls(st) # FollowedCalls(st1)
        BY <3>6, <4>2
      <4> QED BY <2>4, <4>1, <4>2, <4>3 DEF Ahead, st1
    <3>8. CASE w \notin M
      <4>1. st1 = Enter(onward, w) /\ SearchInv(calls, onward, {w}) /\ DOMAIN onward.id = M
            /\ onward.path = st.path /\ onward.at = at1
        BY <3>1, <3>5, <3>8
      <4>2. \A y \in Range(st.path) : w \in Reached(calls, y)
        <5> TAKE y \in Range(st.path)
        <5>1. v \in Reached(calls, y) /\ y \in V /\ v \in V
          BY <1>1, <2>1
        <5> QED BY <3>3, <5>1, ReachedOK
      <4>3. /\ SearchInv(calls, Enter(onward, w), {})
            /\ DOMAIN Enter(onward, w).id = DOMAIN onward.id \cup {w}
            /\ Range(Enter(onward, w).path) = Range(onward.path) \cup {w}
            /\ \A x \in DOMAIN onward.id : Enter(onward, w).at[x] = onward.at[x]
        <5>1. w \in DOMAIN calls \ DOMAIN onward.id
          BY <3>3, <3>8, <4>1
        <5>2. \A y \in Range(onward.path) : w \in Reached(calls, y)
          BY <4>1, <4>2
        <5>3. SearchInv(calls, onward, {w})
          BY <4>1
        <5> HIDE DEF onward, w, V, M
        <5>4. MayEnter(calls, onward, w)
          BY <5>1, <5>2, <5>3 DEF MayEnter
        <5>5. Entered(calls, onward, Enter(onward, w), w)
          BY <5>4, MayEnterOK
        <5> QED BY <5>5 DEF Entered
      <4>4. M \subseteq DOMAIN st1.id /\ DOMAIN st1.id # M /\ Left(st1) = Left(st)
            /\ \A x \in M : st1.at[x] = at1[x]
        BY <1>1, <3>8, <4>1, <4>3 DEF Left
      <4>5. FollowedCalls(st) \subseteq FollowedCalls(st1)
        BY <3>6, <4>4
      <4> QED BY <2>4, <4>1, <4>3, <4>4, <4>5 DEF Ahead, st1
    <3> QED BY <3>7, <3>8
  <2> QED BY <2>2, <2>5, <2>6
<1> QED BY <1>6, <1>7, <1>8

\* The invariant holds at the start.
LEMMA NothingMetOK ==
    ASSUME NEW calls, IsCalls(calls)
    PROVE  SearchInv(calls, NothingMet, {})
<1> DEFINE st == NothingMet
<1>1. /\ st.id = <<>> /\ st.low = <<>> /\ st.at = <<>> /\ st.stack = <<>> /\ st.path = <<>> /\ st.found = <<>>
      /\ DOMAIN st.id = {} /\ Range(st.stack) = {} /\ Range(st.path) = {}
  BY DEF NothingMet, Range
<1>2. <<>> \in [{} -> Nat] /\ {} \in SUBSET DOMAIN calls
  OBVIOUS
<1>3. st \in SearchStates(calls)
  <2>1. <<>> \in Numbers(calls)
    BY <1>2 DEF Numbers
  <2> QED BY <2>1 DEF SearchStates, NothingMet
<1>4. Searching(calls, {}, <<>>, <<>>, <<>>, {}, {}, {})
  <2>1. IsFiniteSet({})
    BY FS_EmptySet
  <2> QED BY <1>2, <2>1 DEF Searching, Counted, Followed, Joined, LowReached, LowLeast, Finished
<1>5. Increasing(<<>>, <<>>) /\ FoundComponents(calls, <<>>, {})
  BY DEF Increasing, FoundComponents
<1> HIDE DEF st
<1>6. SearchInv(calls, st, {})
  BY <1>1, <1>3, <1>4, <1>5 DEF SearchInv
<1> QED BY <1>6 DEF st

\* The search takes its steps one after another from the start.
LEMMA SearchedRecursion ==
    ASSUME NEW calls, IsCalls(calls), NEW order \in Seq(DOMAIN calls), Range(order) = DOMAIN calls
    PROVE  \E after :
             /\ Searched(calls, order) = after[Steps(calls)]
             /\ after[0] = NothingMet
             /\ \A k \in 1 .. Steps(calls) : after[k] = Search(calls, order, after[k - 1])
<1> DEFINE n == Steps(calls)
           S == {st \in SearchStates(calls) : SearchInv(calls, st, {})}
           Solves(f) == f = [k \in 0 .. n |-> IF k = 0 THEN NothingMet ELSE Search(calls, order, f[k - 1])]
           step == [p \in S \X (0 + 1 .. n) |-> Search(calls, order, p[1])]
<1>1. NothingMet \in S
  BY NothingMetOK DEF SearchInv
<1>2. n \in Nat /\ 0 <= n
  BY NothingMetOK, SizeOK
<1>3. \A st \in S : Search(calls, order, st) \in S
  <2> TAKE st \in S
  <2>1. SearchInv(calls, Search(calls, order, st), {})
    BY SearchStep
  <2> QED BY <2>1 DEF SearchInv
<1> HIDE DEF n, S
<1>4. IsStep(step, 0, n, S)
  BY <1>3 DEF IsStep
<1>5. PICK f : IsRun(f, 0, n, S, NothingMet, step)
  <2> HIDE DEF step
  <2>1. 0 \in Nat
    OBVIOUS
  <2> QED BY <1>1, <1>2, <1>4, <2>1, Iteration
<1>6. \A k \in 0 + 1 .. n : f[k] = Search(calls, order, f[k - 1])
  <2> TAKE k \in 0 + 1 .. n
  <2>1. f[k - 1] \in S
    BY <1>2, <1>5 DEF IsRun
  <2> QED BY <1>5, <2>1 DEF IsRun
<1>7. Solves(f)
  <2>1. \A k \in 0 .. n : k = 0 \/ k \in 0 + 1 .. n
    BY <1>2
  <2> QED BY <1>5, <1>6, <2>1 DEF IsRun
<1> DEFINE after == CHOOSE g : Solves(g)
<1>8. Solves(after)
  <2> HIDE DEF Solves
  <2> QED BY <1>7
<1>9. Searched(calls, order) = after[n]
  BY DEF Searched, n
<1> HIDE DEF after
<1>10. after[0] = NothingMet
  BY <1>2, <1>8
<1>11. \A k \in 1 .. n : after[k] = Search(calls, order, after[k - 1])
  <2>1. \A k \in 1 .. n : k \in 0 .. n /\ k # 0
    BY <1>2
  <2> QED BY <1>8, <2>1
<1> QED BY <1>9, <1>10, <1>11 DEF n

\* The search finds the components of two or more services, each once, in whatever order it
\* takes the services.
LEMMA SearchedOK ==
    ASSUME NEW calls, IsCalls(calls), NEW order \in Seq(DOMAIN calls), Range(order) = DOMAIN calls
    PROVE  /\ Searched(calls, order).found \in Seq(CycleFound(calls))
           /\ FoundComponents(calls, Searched(calls, order).found, DOMAIN calls)
<1> DEFINE n == Steps(calls)
           last == Searched(calls, order)
           Good(k, st) == SearchInv(calls, st, {}) /\ (IsOver(calls, st) \/ k <= Size(st))
<1>1. PICK after :
        /\ last = after[n]
        /\ after[0] = NothingMet
        /\ \A k \in 1 .. n : after[k] = Search(calls, order, after[k - 1])
  BY SearchedRecursion
<1>2. n \in Nat /\ 0 <= n /\ SearchInv(calls, NothingMet, {}) /\ Size(NothingMet) \in Nat
  BY NothingMetOK, SizeOK
<1> HIDE DEF n, last
<1> DEFINE S0 == {k \in 0 .. n : Good(k, after[k])}
           g == [k \in 0 .. n |-> k]
<1>3. g[0] \in S0
  BY <1>1, <1>2
<1>4. ASSUME NEW k \in 0 + 1 .. n, g[k - 1] \in S0 PROVE g[k] \in S0
  <2> DEFINE st == after[k - 1]
             st1 == after[k]
  <2>1. k \in 0 .. n /\ k - 1 \in 0 .. n /\ g[k - 1] = k - 1 /\ g[k] = k /\ k \in 1 .. n
    BY <1>2
  <2>2. Good(k - 1, st)
    BY <1>4, <2>1
  <2>3. st1 = Search(calls, order, st)
    BY <1>1, <2>1
  <2> HIDE DEF st, st1
  <2>4. SearchInv(calls, st1, {}) /\ (IsOver(calls, st) \/ Ahead(st, st1)) /\ (IsOver(calls, st) => st1 = st)
    BY <2>2, <2>3, SearchStep
  <2>5. Size(st) \in Nat /\ Size(st1) \in Nat
    BY <2>2, <2>4, SizeOK
  <2>6. IsOver(calls, st1) \/ k <= Size(st1)
    <3>1. CASE IsOver(calls, st)
      BY <2>4, <3>1
    <3>2. CASE ~IsOver(calls, st)
      <4>1. k - 1 <= Size(st) /\ Size(st) < Size(st1)
        BY <2>2, <2>4, <3>2, SizeGrows
      <4> QED BY <2>1, <2>5, <4>1
    <3> QED BY <3>1, <3>2
  <2>7. Good(k, st1)
    BY <2>4, <2>6
  <2> HIDE DEF Good
  <2> QED BY <2>1, <2>7 DEF st1
<1>5. g[n] \in S0
  <2> HIDE DEF g, S0
  <2>1. \A k \in 0 + 1 .. n : g[k - 1] \in S0 => g[k] \in S0
    BY <1>4
  <2>2. 0 \in Nat
    OBVIOUS
  <2>3. \A k \in 0 .. n : g[k] \in S0
    BY <1>2, <1>3, <2>1, <2>2, Stays
  <2> QED BY <1>2, <2>3
<1>6. Good(n, last)
  <2> HIDE DEF Good
  <2> QED BY <1>1, <1>2, <1>5
<1>7. IsOver(calls, last)
  <2>1. n <= Size(last) => n = Size(last)
    BY <1>2, <1>6, SizeOK DEF n
  <2> QED BY <1>6, <2>1, SizeOK DEF n
<1>8. DOMAIN last.id \ Range(last.stack) = DOMAIN calls
  <2>1. Range(last.path) = {} /\ DOMAIN last.id = DOMAIN calls
    BY <1>7 DEF IsOver, Range
  <2>2. Range(last.stack) = {}
    BY <1>6, <2>1 DEF SearchInv, Searching, Joined
  <2> QED BY <2>1, <2>2
<1>9. last.found \in Seq(CycleFound(calls)) /\ FoundComponents(calls, last.found, DOMAIN calls)
  BY <1>6, <1>8 DEF SearchInv, SearchStates
<1> QED BY <1>9 DEF last

(***************************************************************************)
(* What the detectors find in a YAML.                                      *)
(***************************************************************************)

\* The anti-patterns.
Kinds == {"cycles", "god_service", "ping_pong_dependency", "reverse_dependency",
          "shared_database", "sync_call_chain", "tight_coupling", "ui_orchestrator"}

\* What the fixes rely on.
Sound(s, d) ==
    /\ d.kind \in {"cycles", "god_service"} \/ Len(d.nodes) >= 2
    /\ d.kind = "god_service" => Len(d.nodes) = 1
    /\ d.kind = "ui_orchestrator" =>
         \A i \in 2 .. Len(d.nodes) : Kind(s, d.nodes[i]) \in {"service", "api_gateway"}

\* The sound detections of these kinds.
SoundSet(s, kinds) ==
    {d \in [kind : kinds, severity : {"HIGH", "MEDIUM"}, nodes : Seq(Nodes(s))] : Sound(s, d)}

\* What a selection may name.
Keys(dets) == {DetectionKey(d) : d \in Range(dets)}

\* A detection of this kind.
LEMMA SoundSetOK ==
    ASSUME NEW s, NEW kind, NEW severity \in {"HIGH", "MEDIUM"}, NEW nodes \in Seq(Nodes(s)),
           Sound(s, Detection(kind, severity, nodes))
    PROVE  Detection(kind, severity, nodes) \in SoundSet(s, {kind})
BY DEF SoundSet, Detection

\* The parts of a YAML: finitely many nodes, and links between them.
LEMMA SpecOK ==
    ASSUME NEW s, IsSpec(s)
    PROVE  /\ Edges(s) \in Seq(LinkSet) /\ s.deps \in Seq(LinkSet) /\ s.calls \in Seq(LinkSet)
           /\ Nodes(s) \subseteq Names /\ IsFiniteSet(Nodes(s))
           /\ Services(s) \subseteq Nodes(s) /\ IsFiniteSet(Services(s))
           /\ \A e \in Range(Edges(s)) : e \in LinkSet /\ e.from \in Nodes(s) /\ e.to \in Nodes(s)
<1>1. Edges(s) \in Seq(LinkSet) /\ s.deps \in Seq(LinkSet) /\ s.calls \in Seq(LinkSet)
  BY DEF IsSpec, Edges
<1>2. \A e \in Range(Edges(s)) : e \in LinkSet /\ e.from \in Names /\ e.to \in Names
  <2>1. \A i \in DOMAIN Edges(s) : Edges(s)[i] \in LinkSet
    BY <1>1
  <2>2. \A e \in LinkSet : e.from \in Names /\ e.to \in Names
    BY DEF LinkSet
  <2> QED BY <2>1, <2>2 DEF Range
<1> DEFINE ends == [e \in Range(Edges(s)) |-> {e.from, e.to}]
           dbs == [w \in Listed |-> Name(w)]
<1>3. Nodes(s) = DOMAIN s.types \cup Range(dbs) \cup UNION Range(ends)
  BY DEF Nodes, Range, IsSpec
<1>4. IsFiniteSet(Range(dbs))
  <2>1. dbs \in [Listed -> Range(dbs)]
    BY DEF Range
  <2>2. IsFiniteSet(Listed)
    BY FixAssumption, FS_Subset
  <2> HIDE DEF dbs
  <2> QED BY <2>1, <2>2, RangeFinite
<1>5. IsFiniteSet(UNION Range(ends))
  <2>1. ends \in [Range(Edges(s)) -> Range(ends)] /\ \A x \in Range(ends) : \E a, b : x = {a, b}
    BY DEF Range
  <2>2. IsFiniteSet(Range(Edges(s)))
    <3>1. Edges(s) \in [1 .. Len(Edges(s)) -> LinkSet] /\ Len(Edges(s)) \in Nat
      BY <1>1
    <3>2. IsFiniteSet(1 .. Len(Edges(s)))
      BY <3>1, FS_Interval
    <3> QED BY <3>1, <3>2, RangeFinite
  <2>3. \A a, b : IsFiniteSet({a, b})
    <3> TAKE a, b
    <3>1. IsFiniteSet({a}) /\ IsFiniteSet({b}) /\ {a, b} = {a} \cup {b}
      BY FS_Singleton
    <3> QED BY <3>1, FS_Union
  <2> HIDE DEF ends
  <2>4. ASSUME NEW x \in Range(ends) PROVE IsFiniteSet(x)
    <3>1. PICK a, b : x = {a, b}
      BY <2>1
    <3>2. IsFiniteSet({a, b})
      BY <2>3
    <3> QED BY <3>1, <3>2
  <2>5. IsFiniteSet(Range(ends))
    BY <2>1, <2>2, RangeFinite
  <2> QED BY <2>4, <2>5, FS_UNION
<1>6. IsFiniteSet(Nodes(s))
  <2>1. IsFiniteSet(DOMAIN s.types)
    BY DEF IsSpec
  <2> HIDE DEF dbs, ends
  <2>2. IsFiniteSet(DOMAIN s.types \cup Range(dbs))
    BY <1>4, <2>1, FS_Union
  <2> QED BY <1>3, <1>5, <2>2, FS_Union
<1>7. Nodes(s) \subseteq Names
  <2>1. DOMAIN s.types \subseteq Names /\ s.dbs \subseteq Names
    BY DEF IsSpec
  <2> QED BY <1>2, <2>1 DEF Nodes
<1>8. Services(s) \subseteq Nodes(s) /\ IsFiniteSet(Services(s))
  <2>1. Services(s) \subseteq Nodes(s)
    BY DEF Services
  <2> QED BY <1>6, <2>1, FS_Subset
<1>9. \A e \in Range(Edges(s)) : e.from \in Nodes(s) /\ e.to \in Nodes(s)
  BY DEF Nodes
<1> QED BY <1>1, <1>2, <1>6, <1>7, <1>8, <1>9

\* Out gives the links that leave a node.
LEMMA OutOK ==
    ASSUME NEW s, IsSpec(s), NEW n
    PROVE  /\ Out(s, n) \in Seq(LinkSet)
           /\ Range(Out(s, n)) = {e \in Range(Edges(s)) : e.from = n}
<1> DEFINE T == {e \in Range(Edges(s)) : e.from = n}
<1>1. Edges(s) \in Seq(LinkSet)
  BY SpecOK
<1>2. Only(Edges(s), T) \in Seq(LinkSet \cap T) /\ Range(Only(Edges(s), T)) = Range(Edges(s)) \cap T
  <2> HIDE DEF T
  <2> QED BY <1>1, OnlyOK
<1>3. Out(s, n) = Only(Edges(s), T) /\ Range(Edges(s)) \cap T = T
  BY DEF Out
<1> HIDE DEF T
<1>4. Out(s, n) \in Seq(LinkSet \cap T) /\ Range(Out(s, n)) = T
  BY <1>2, <1>3
<1>5. Out(s, n) \in Seq(LinkSet)
  BY <1>4, SeqMonotonic
<1> QED BY <1>4, <1>5 DEF T

\* The places of what is in the set, in a sequence of links.
LEMMA TargetsOK ==
    ASSUME NEW out \in Seq(LinkSet), NEW T
    PROVE  LET targets == Only([i \in DOMAIN out |-> out[i].to], T)
           IN targets \in Seq(T) /\ Range(targets) = {e.to : e \in Range(out)} \cap T
<1> DEFINE ends == [i \in DOMAIN out |-> out[i].to]
<1>1. ends \in Seq(Names) /\ DOMAIN ends = DOMAIN out
  <2>1. DOMAIN out = 1 .. Len(out) /\ Len(out) \in Nat /\ \A i \in 1 .. Len(out) : out[i] \in LinkSet
    OBVIOUS
  <2>2. \A e \in LinkSet : e.to \in Names
    BY DEF LinkSet
  <2> QED BY <2>1, <2>2
<1>2. Range(ends) = {e.to : e \in Range(out)}
  BY DEF Range
<1> HIDE DEF ends
<1>3. Only(ends, T) \in Seq(Names \cap T) /\ Range(Only(ends, T)) = Range(ends) \cap T
  BY <1>1, OnlyOK
<1>4. Only(ends, T) \in Seq(T)
  BY <1>3
<1> QED BY <1>2, <1>3, <1>4 DEF ends

\* Called gives the services that a node calls.
LEMMA CalledOK ==
    ASSUME NEW s, IsSpec(s), NEW n
    PROVE  /\ Called(s, n) \in Seq(Services(s))
           /\ Range(Called(s, n)) = {m \in Services(s) : \E e \in Range(Edges(s)) : e.from = n /\ e.to = m}
<1> DEFINE out == Out(s, n)
<1>1. out \in Seq(LinkSet) /\ Range(out) = {e \in Range(Edges(s)) : e.from = n}
  BY OutOK
<1> HIDE DEF out
<1> DEFINE targets == Only([i \in DOMAIN out |-> out[i].to], Services(s))
<1>2. targets \in Seq(Services(s)) /\ Range(targets) = {e.to : e \in Range(out)} \cap Services(s)
  BY <1>1, TargetsOK
<1>3. Called(s, n) = targets
  BY DEF Called, out
<1> HIDE DEF targets
<1> QED BY <1>1, <1>2, <1>3

\* The graph in which Tarjan's algorithm searches.
CallsOf(s) == [n \in Services(s) |-> Called(s, n)]

\* It is finite, and reaching in it is reaching in the YAML.
LEMMA CallsOK ==
    ASSUME NEW s, IsSpec(s)
    PROVE  /\ IsCalls(CallsOf(s)) /\ DOMAIN CallsOf(s) = Services(s)
           /\ \A n \in Services(s) : Reach(s, Services(s), n) = Reached(CallsOf(s), n)
<1> DEFINE V == Services(s)
           calls == CallsOf(s)
<1>1. calls \in [V -> Seq(V)] /\ DOMAIN calls = V /\ IsFiniteSet(V)
  BY CalledOK, SpecOK DEF CallsOf
<1>2. \A n \in V : Range(calls[n]) = {m \in V : \E e \in Range(Edges(s)) : e.from = n /\ e.to = m}
  BY CalledOK DEF CallsOf
<1> HIDE DEF V, calls
<1>3. \A T \in SUBSET V : Closed(calls, T) <=>
        \A e \in Range(Edges(s)) : e.from \in T /\ e.to \in V => e.to \in T
  BY <1>2 DEF Closed
<1>4. ASSUME NEW n \in V PROVE Reach(s, V, n) = Reached(calls, n)
  <2> DEFINE closed == {T \in SUBSET V : n \in T /\ \A e \in Range(Edges(s)) :
                                                    e.from \in T /\ e.to \in V => e.to \in T}
  <2>1. Reach(s, V, n) = {m \in V : \A T \in closed : m \in T}
    BY DEF Reach
  <2>2. Reached(calls, n) = {m \in V : \A T \in SUBSET V : n \in T /\ Closed(calls, T) => m \in T}
    BY <1>1 DEF Reached
  <2>3. \A T \in SUBSET V : T \in closed <=> n \in T /\ Closed(calls, T)
    BY <1>3
  <2>4. closed \subseteq SUBSET V
    OBVIOUS
  <2> HIDE DEF closed
  <2> QED BY <2>1, <2>2, <2>3, <2>4
<1>5. IsCalls(calls)
  BY <1>1 DEF IsCalls
<1> QED BY <1>1, <1>4, <1>5 DEF V, calls

\* Tarjan's algorithm, with what it finds as keys.
LEMMA CyclesOK ==
    ASSUME NEW s, IsSpec(s), NEW dets \in Cycles(s)
    PROVE  /\ dets \in Seq(SoundSet(s, {"cycles"}))
           /\ FoundComponents(CallsOf(s), dets, Services(s))
<1> DEFINE calls == CallsOf(s)
           V == Services(s)
<1>1. PICK order \in SetToSeqs(V) : dets = Searched(calls, order).found
  BY DEF Cycles, CallsOf
<1>2. order \in Seq(V) /\ Range(order) = V
  BY SpecOK, SetToSeqsOK
<1>3. IsCalls(calls) /\ DOMAIN calls = V
  BY CallsOK
<1>4. V \subseteq Nodes(s)
  BY SpecOK
<1> HIDE DEF calls, V
<1>5. dets \in Seq(CycleFound(calls)) /\ FoundComponents(calls, dets, V)
  BY <1>1, <1>2, <1>3, SearchedOK
<1>6. CycleFound(calls) \subseteq SoundSet(s, {"cycles"})
  <2> SUFFICES ASSUME NEW d \in CycleFound(calls) PROVE d \in SoundSet(s, {"cycles"})
    OBVIOUS
  <2>1. d = Detection("cycles", "HIGH", d.nodes) /\ d.nodes \in Seq(V)
    BY <1>3 DEF CycleFound, Detection
  <2>2. d.nodes \in Seq(Nodes(s))
    BY <1>4, <2>1, SeqMonotonic
  <2>3. Sound(s, d)
    BY <2>1 DEF Sound, Detection
  <2> QED BY <2>1, <2>2, <2>3, SoundSetOK
<1> DEFINE found == SoundSet(s, {"cycles"})
<1>7. dets \in Seq(found)
  <2> HIDE DEF found
  <2>1. CycleFound(calls) \subseteq found
    BY <1>6 DEF found
  <2> QED BY <1>5, <2>1, SeqMonotonic
<1> QED BY <1>5, <1>7 DEF calls, V, found

\* What the detector of a kind may return.
Detects(s, results, kind) == results \subseteq Seq(SoundSet(s, {kind}))

\* Whatever the order in which it meets the graph, a detector finds the same.
Agree(results) == \A r, t \in results : Keys(r) = Keys(t)

\* Cycles: the components, by Tarjan's algorithm.
LEMMA CyclesAgree ==
    ASSUME NEW s, IsSpec(s)
    PROVE  Detects(s, Cycles(s), "cycles") /\ Agree(Cycles(s))
<1>1. Detects(s, Cycles(s), "cycles")
  BY CyclesOK DEF Detects
<1>2. ASSUME NEW r \in Cycles(s), NEW t \in Cycles(s) PROVE Keys(r) \subseteq Keys(t)
  <2>1. /\ FoundComponents(CallsOf(s), r, Services(s)) /\ FoundComponents(CallsOf(s), t, Services(s))
        /\ r \in Seq(SoundSet(s, {"cycles"})) /\ t \in Seq(SoundSet(s, {"cycles"}))
    BY CyclesOK
  <2>2. {Range(r[i].nodes) : i \in DOMAIN r} = {Range(t[i].nodes) : i \in DOMAIN t}
    BY <2>1 DEF FoundComponents
  <2>3. \A d \in SoundSet(s, {"cycles"}) : d.kind = "cycles"
    BY DEF SoundSet
  <2>4. \A i \in DOMAIN r : r[i].kind = "cycles"
    BY <2>1, <2>3
  <2>5. \A i \in DOMAIN t : t[i].kind = "cycles"
    BY <2>1, <2>3
  <2> SUFFICES ASSUME NEW i \in DOMAIN r PROVE \E j \in DOMAIN t : DetectionKey(r[i]) = DetectionKey(t[j])
    BY DEF Keys, Range
  <2>6. PICK j \in DOMAIN t : Range(t[j].nodes) = Range(r[i].nodes)
    BY <2>2
  <2> QED BY <2>4, <2>5, <2>6 DEF DetectionKey
<1> QED BY <1>1, <1>2 DEF Agree

\* Sequences of each of finitely many detections of a kind.
LEMMA ListedOK ==
    ASSUME NEW s, NEW kind, NEW dets, dets \subseteq SoundSet(s, {kind}), IsFiniteSet(dets),
           NEW r \in SetToSeqs(dets)
    PROVE  r \in Seq(SoundSet(s, {kind})) /\ Range(r) = dets
<1>1. r \in Seq(dets) /\ Range(r) = dets
  BY SetToSeqsOK
<1> DEFINE found == SoundSet(s, {kind})
<1> HIDE DEF found
<1>2. dets \subseteq found
  BY DEF found
<1>3. r \in Seq(found)
  BY <1>1, <1>2, SeqMonotonic
<1> QED BY <1>1, <1>3 DEF found

\* God services.
LEMMA GodServicesAgree ==
    ASSUME NEW s, IsSpec(s)
    PROVE  Detects(s, GodServices(s), "god_service") /\ Agree(GodServices(s))
<1>1. PICK gods \in SUBSET Services(s) :
        GodServices(s) = SetToSeqs({Detection("god_service", "MEDIUM", <<n>>) : n \in gods})
  BY DEF GodServices
<1> DEFINE found == [n \in gods |-> Detection("god_service", "MEDIUM", <<n>>)]
<1>2. GodServices(s) = SetToSeqs(Range(found))
  BY <1>1 DEF Range
<1>3. IsFiniteSet(Range(found))
  <2>1. IsFiniteSet(gods)
    BY SpecOK, FS_Subset
  <2>2. found \in [gods -> Range(found)]
    BY DEF Range
  <2> HIDE DEF found
  <2> QED BY <2>1, <2>2, RangeFinite
<1>4. ASSUME NEW n \in gods PROVE found[n] \in SoundSet(s, {"god_service"})
  <2>1. <<n>> \in Seq(Nodes(s)) /\ Len(<<n>>) = 1
    BY SpecOK
  <2>2. Sound(s, Detection("god_service", "MEDIUM", <<n>>))
    BY <2>1 DEF Sound, Detection
  <2> QED BY <2>1, <2>2, SoundSetOK
<1>5. Range(found) \subseteq SoundSet(s, {"god_service"})
  BY <1>4 DEF Range
<1> HIDE DEF found
<1>6. ASSUME NEW r \in GodServices(s)
      PROVE  r \in Seq(SoundSet(s, {"god_service"})) /\ Range(r) = Range(found)
  BY <1>2, <1>3, <1>5, ListedOK
<1> QED BY <1>6 DEF Detects, Agree, Keys

\* A detection about two nodes.
PairFound(s, kind, a, b, d) == d \in SoundSet(s, {kind}) /\ DetectionKey(d) = <<kind, {a, b}>>

\* A detection about any two nodes is sound.
LEMMA PairOK ==
    ASSUME NEW s, NEW a \in Nodes(s), NEW b \in Nodes(s), NEW severity \in {"HIGH", "MEDIUM"},
           NEW kind \in {"ping_pong_dependency", "reverse_dependency", "tight_coupling"}
    PROVE  PairFound(s, kind, a, b, Detection(kind, severity, <<a, b>>))
<1>1. <<a, b>> \in Seq(Nodes(s)) /\ Len(<<a, b>>) = 2
  OBVIOUS
<1>2. Sound(s, Detection(kind, severity, <<a, b>>))
  BY <1>1 DEF Sound, Detection
<1>3. Range(<<a, b>>) = {a, b}
  BY DEF Range
<1> QED BY <1>1, <1>2, <1>3, SoundSetOK DEF DetectionKey, Detection, PairFound

\* Services that call each other.
LEMMA PingPongsAgree ==
    ASSUME NEW s, IsSpec(s)
    PROVE  Detects(s, PingPongs(s), "ping_pong_dependency") /\ Agree(PingPongs(s))
<1> DEFINE V == Services(s)
           kind == "ping_pong_dependency"
           IsNamed(name, pairs) == \A p \in pairs : \E a, b \in p : name[p] = <<a, b>> /\ {a, b} = p
           Of(name, pairs) == {Detection(kind, "MEDIUM", name[p]) : p \in pairs}
<1>1. PICK pairs \in SUBSET SUBSET V :
        \A r \in PingPongs(s) : \E name : IsNamed(name, pairs) /\ r \in SetToSeqs(Of(name, pairs))
  <2> DEFINE has == {<<e.from, e.to>> : e \in {x \in Range(Edges(s)) : {x.from, x.to} \subseteq V}}
             pairs == {{p[1], p[2]} : p \in {q \in has : <<q[2], q[1]>> \in has}}
             Named(pair) == {p \in pair \X pair : {p[1], p[2]} = pair}
             names == {f \in [pairs -> UNION {Named(p) : p \in pairs}] :
                         \A p \in pairs : f[p] \in Named(p)}
  <2>1. pairs \in SUBSET SUBSET V
    OBVIOUS
  <2>2. PingPongs(s) = UNION {SetToSeqs(Of(name, pairs)) : name \in names}
    BY DEF PingPongs
  <2>3. \A name \in names : IsNamed(name, pairs)
    <3> HIDE DEF pairs
    <3> QED OBVIOUS
  <2> HIDE DEF pairs, names, IsNamed, Of
  <2>4. \A r \in PingPongs(s) : \E name : IsNamed(name, pairs) /\ r \in SetToSeqs(Of(name, pairs))
    BY <2>2, <2>3
  <2> QED BY <2>1, <2>4
<1>2. V \subseteq Nodes(s) /\ IsFiniteSet(V)
  BY SpecOK
<1>3. IsFiniteSet(pairs)
  BY <1>2, FS_SUBSET, FS_Subset
<1> HIDE DEF V
<1>4. ASSUME NEW r \in PingPongs(s)
      PROVE  r \in Seq(SoundSet(s, {kind})) /\ Keys(r) = {<<kind, p>> : p \in pairs}
  <2>1. PICK name : IsNamed(name, pairs) /\ r \in SetToSeqs(Of(name, pairs))
    BY <1>1
  <2> DEFINE found == [p \in pairs |-> Detection(kind, "MEDIUM", name[p])]
  <2>2. ASSUME NEW p \in pairs
        PROVE  found[p] \in SoundSet(s, {kind}) /\ DetectionKey(found[p]) = <<kind, p>>
    <3>1. PICK a \in p, b \in p : name[p] = <<a, b>> /\ {a, b} = p
      BY <2>1
    <3>2. a \in Nodes(s) /\ b \in Nodes(s) /\ found[p] = Detection(kind, "MEDIUM", <<a, b>>)
      BY <1>2, <3>1
    <3>3. kind \in {"ping_pong_dependency", "reverse_dependency", "tight_coupling"} /\ "MEDIUM" \in {"HIGH", "MEDIUM"}
      OBVIOUS
    <3> HIDE DEF found, kind
    <3>4. PairFound(s, kind, a, b, Detection(kind, "MEDIUM", <<a, b>>))
      BY <3>2, <3>3, PairOK
    <3> QED BY <3>1, <3>2, <3>4 DEF PairFound
  <2>3. Of(name, pairs) = Range(found) /\ DOMAIN found = pairs /\ found \in [pairs -> Range(found)]
    BY DEF Range
  <2> HIDE DEF found, Of
  <2>4. IsFiniteSet(Range(found))
    BY <1>3, <2>3, RangeFinite
  <2>5. Range(found) \subseteq SoundSet(s, {kind})
    BY <2>2, <2>3 DEF Range
  <2>6. r \in Seq(SoundSet(s, {kind})) /\ Range(r) = Range(found)
    <3>1. r \in SetToSeqs(Range(found))
      BY <2>1, <2>3
    <3> HIDE DEF kind
    <3> QED BY <2>4, <2>5, <3>1, ListedOK
  <2>7. {DetectionKey(d) : d \in Range(found)} = {<<kind, p>> : p \in pairs}
    BY <2>2, <2>3 DEF Range
  <2> QED BY <2>6, <2>7 DEF Keys
<1> QED BY <1>4 DEF Detects, Agree

\* Edges from backend services to user interfaces.
LEMMA ReverseDependenciesAgree ==
    ASSUME NEW s, IsSpec(s)
    PROVE  Detects(s, ReverseDependencies(s), "reverse_dependency") /\ Agree(ReverseDependencies(s))
<1> DEFINE V == Services(s)
           kind == "reverse_dependency"
           UIs == {m \in V : IsUIName(m)}
           Pages(n) == Only(Called(s, n), UIs)
           Of(n) == [i \in DOMAIN Pages(n) |-> Detection(kind, "HIGH", <<n, Pages(n)[i]>>)]
           found == SoundSet(s, {kind})
<1>1. PICK Backend \in SUBSET V :
        ReverseDependencies(s) =
          {FlattenSeq([i \in DOMAIN order |-> Of(order[i])]) : order \in SetToSeqs(Backend)}
  BY DEF ReverseDependencies
<1>2. V \subseteq Nodes(s) /\ IsFiniteSet(V)
  BY SpecOK
<1>3. IsFiniteSet(Backend)
  BY <1>1, <1>2, FS_Subset
<1>4. ASSUME NEW n \in V PROVE Of(n) \in Seq(found)
  <2>1. Called(s, n) \in Seq(V)
    BY CalledOK
  <2>2. Pages(n) \in Seq(V \cap UIs)
    <3> HIDE DEF V, UIs
    <3> QED BY <2>1, OnlyOK
  <2> DEFINE pages == Pages(n)
  <2>3. Of(n) = [i \in DOMAIN pages |-> Detection(kind, "HIGH", <<n, pages[i]>>)]
    OBVIOUS
  <2>4. pages \in Seq(V \cap UIs)
    BY <2>2
  <2> HIDE DEF pages, UIs, V, Of
  <2>5. DOMAIN pages = 1 .. Len(pages) /\ Len(pages) \in Nat /\ \A i \in DOMAIN pages : pages[i] \in V
    BY <2>4
  <2>6. \A i \in DOMAIN pages : Detection(kind, "HIGH", <<n, pages[i]>>) \in found
    BY <1>2, <2>5, PairOK DEF PairFound
  <2> HIDE DEF found
  <2> QED BY <2>3, <2>5, <2>6, IsASeq
<1> HIDE DEF V, Of, found
<1>5. ASSUME NEW r \in ReverseDependencies(s)
      PROVE  r \in Seq(found) /\ Range(r) = UNION {Range(Of(n)) : n \in Backend}
  <2>1. PICK order \in SetToSeqs(Backend) : r = FlattenSeq([i \in DOMAIN order |-> Of(order[i])])
    BY <1>1
  <2>2. order \in Seq(Backend) /\ Range(order) = Backend
    BY <1>3, SetToSeqsOK
  <2> DEFINE seqs == [i \in DOMAIN order |-> Of(order[i])]
             X == Seq(found)
  <2>3. DOMAIN order = 1 .. Len(order) /\ Len(order) \in Nat /\ \A i \in 1 .. Len(order) : order[i] \in Backend
    BY <2>2
  <2>4. \A i \in 1 .. Len(order) : Of(order[i]) \in X
    BY <1>1, <1>4, <2>3
  <2>5. seqs \in Seq(X) /\ DOMAIN seqs = DOMAIN order
    <3> HIDE DEF X
    <3> QED BY <2>3, <2>4, IsASeq
  <2>6. \A i \in DOMAIN order : seqs[i] = Of(order[i])
    OBVIOUS
  <2> HIDE DEF seqs
  <2>7. r \in X /\ Range(r) = UNION {Range(seqs[i]) : i \in DOMAIN seqs}
    BY <2>1, <2>5, FlattenOK DEF seqs
  <2>8. UNION {Range(seqs[i]) : i \in DOMAIN seqs} = UNION {Range(Of(n)) : n \in Backend}
    BY <2>2, <2>5, <2>6 DEF Range
  <2> QED BY <2>7, <2>8
<1> QED BY <1>5 DEF Detects, Agree, Keys, found

\* A node and the nodes around it.
IsStar(s, kind, c, set) ==
    /\ c \in Nodes(s) /\ set \in SUBSET Nodes(s) /\ IsFiniteSet(set) /\ Cardinality(set) >= 1
    /\ kind = "ui_orchestrator" => \A n \in set : Kind(s, n) \in {"service", "api_gateway"}

\* A detection of a node and those around it is sound, and its key names them all.
LEMMA StarOK ==
    ASSUME NEW s, NEW kind \in {"shared_database", "ui_orchestrator"}, NEW severity \in {"HIGH", "MEDIUM"},
           NEW c, NEW set, IsStar(s, kind, c, set), NEW order \in SetToSeqs(set)
    PROVE  LET d == Detection(kind, severity, <<c>> \o order) IN
           d \in SoundSet(s, {kind}) /\ DetectionKey(d) = <<kind, {c} \cup set>>
<1> DEFINE nodes == <<c>> \o order
<1> USE DEF IsStar
<1>1. order \in Seq(set) /\ Range(order) = set
  BY SetToSeqsOK
<1>2. order \in Seq(Nodes(s)) /\ <<c>> \in Seq(Nodes(s)) /\ Len(<<c>>) = 1 /\ Range(<<c>>) = {c}
  BY <1>1, SeqMonotonic DEF Range
<1>3. nodes \in Seq(Nodes(s)) /\ Range(nodes) = {c} \cup set
  <2> DEFINE centre == <<c>>
             all == Nodes(s)
  <2>1. Range(nodes) = Range(centre) \cup Range(order) /\ nodes \in Seq(all)
    <3>1. centre \in Seq(all) /\ order \in Seq(all) /\ nodes = centre \o order
      BY <1>2
    <3> HIDE DEF nodes, centre, all
    <3> QED BY <3>1, ConcatRange
  <2> QED BY <1>1, <1>2, <2>1
<1>4. Len(nodes) = 1 + Len(order) /\ \A i \in 1 .. 1 + Len(order) :
        nodes[i] = IF i <= 1 THEN <<c>>[i] ELSE order[i - 1]
  BY <1>2, ConcatProperties
<1> HIDE DEF nodes
<1>5. Len(order) \in Nat /\ Len(order) # 0
  <2>1. Len(order) = 0 => order = <<>>
    BY <1>2
  <2>2. order = <<>> => Range(order) = {}
    BY DEF Range
  <2>3. set # {}
    BY FS_EmptySet
  <2> QED BY <1>1, <2>1, <2>2, <2>3
<1>6. nodes[1] = c
  BY <1>4, <1>5
<1>7. ASSUME NEW i \in 2 .. Len(nodes) PROVE nodes[i] \in set
  <2>1. i - 1 \in 1 .. Len(order) /\ nodes[i] = order[i - 1]
    BY <1>4, <1>5
  <2> QED BY <1>1, <2>1
<1>8. Len(nodes) >= 2
  BY <1>4, <1>5
<1>9. Sound(s, Detection(kind, severity, nodes))
  BY <1>6, <1>7, <1>8 DEF Sound, Detection
<1>10. Detection(kind, severity, nodes) \in SoundSet(s, {kind})
  BY <1>3, <1>9, SoundSetOK
<1>11. DetectionKey(Detection(kind, severity, nodes)) = <<kind, {c} \cup set>>
  BY <1>3 DEF DetectionKey, Detection
<1> QED BY <1>10, <1>11 DEF nodes

\* Centres, each with the nodes around it, in any order.
AreStars(r, kind, centres, around, severity) ==
    \E f : /\ r \in SetToSeqs({f[c] : c \in centres})
           /\ \A c \in centres : \E order \in SetToSeqs(around[c]) :
                f[c] = Detection(kind, severity[c], <<c>> \o order)

\* A detector of nodes and those around them finds the same in whatever order.
LEMMA StarsAgree ==
    ASSUME NEW s, NEW kind \in {"shared_database", "ui_orchestrator"},
           NEW centres, IsFiniteSet(centres), NEW around, NEW severity \in [centres -> {"HIGH", "MEDIUM"}],
           \A c \in centres : IsStar(s, kind, c, around[c]),
           NEW results, \A r \in results : AreStars(r, kind, centres, around, severity)
    PROVE  Detects(s, results, kind) /\ Agree(results)
<1>1. ASSUME NEW r \in results
      PROVE  r \in Seq(SoundSet(s, {kind})) /\ Keys(r) = {<<kind, {c} \cup around[c]>> : c \in centres}
  <2>1. PICK f :
             /\ r \in SetToSeqs({f[c] : c \in centres})
             /\ \A c \in centres : \E order \in SetToSeqs(around[c]) :
                  f[c] = Detection(kind, severity[c], <<c>> \o order)
    BY DEF AreStars
  <2>2. ASSUME NEW c \in centres
        PROVE  f[c] \in SoundSet(s, {kind}) /\ DetectionKey(f[c]) = <<kind, {c} \cup around[c]>>
    <3>1. PICK order \in SetToSeqs(around[c]) : f[c] = Detection(kind, severity[c], <<c>> \o order)
      BY <2>1
    <3>2. severity[c] \in {"HIGH", "MEDIUM"} /\ IsStar(s, kind, c, around[c])
      OBVIOUS
    <3> DEFINE set == around[c]
               level == severity[c]
    <3>3. level \in {"HIGH", "MEDIUM"} /\ IsStar(s, kind, c, set) /\ order \in SetToSeqs(set)
      BY <3>1, <3>2
    <3> HIDE DEF set, level
    <3>4. Detection(kind, level, <<c>> \o order) \in SoundSet(s, {kind})
      BY <3>3, StarOK
    <3>5. DetectionKey(Detection(kind, level, <<c>> \o order)) = <<kind, {c} \cup set>>
      BY <3>3, StarOK
    <3> QED BY <3>1, <3>4, <3>5 DEF set, level
  <2> DEFINE g == [c \in centres |-> f[c]]
  <2>3. {f[c] : c \in centres} = Range(g) /\ DOMAIN g = centres /\ g \in [centres -> Range(g)]
        /\ \A c \in centres : g[c] = f[c]
    BY DEF Range
  <2> DEFINE Key(c) == <<kind, {c} \cup around[c]>>
             found == SoundSet(s, {kind})
  <2>9. \A c \in centres : g[c] \in found /\ DetectionKey(g[c]) = Key(c)
    BY <2>2
  <2> HIDE DEF g, Key, found
  <2>4. IsFiniteSet(Range(g))
    BY <2>3, RangeFinite
  <2>5. Range(g) \subseteq found
    BY <2>3, <2>9 DEF Range
  <2>6. r \in SetToSeqs(Range(g))
    BY <2>1, <2>3
  <2>7. r \in Seq(found) /\ Range(r) = Range(g)
    BY <2>4, <2>5, <2>6, ListedOK DEF found
  <2>8. {DetectionKey(d) : d \in Range(g)} = {Key(c) : c \in centres}
    BY <2>3, <2>9 DEF Range
  <2> QED BY <2>7, <2>8 DEF Keys, Key, found
<1> QED BY <1>1 DEF Detects, Agree

\* Databases with several clients.
LEMMA SharedDatabasesAgree ==
    ASSUME NEW s, IsSpec(s)
    PROVE  Detects(s, SharedDatabases(s), "shared_database") /\ Agree(SharedDatabases(s))
<1> DEFINE kind == "shared_database"
           Clients(d) == {e.from : e \in {x \in Range(Edges(s)) : x.to = d}} \cap (Services(s) \ {d})
           IsDBNode(d) == Kind(s, d) = "database" \/ (Kind(s, d) = "service" /\ IsDatabaseLikeName(d))
           centres == {d \in Nodes(s) : IsDBNode(d) /\ Cardinality(Clients(d)) >= DbClients}
           Severity(c) == IF Cardinality(c) >= 3 THEN "HIGH" ELSE "MEDIUM"
           Of(c) == {Detection(kind, Severity(Clients(c)), <<c>> \o order) : order \in SetToSeqs(Clients(c))}
           choices == {f \in [centres -> UNION {Of(c) : c \in centres}] : \A c \in centres : f[c] \in Of(c)}
           around == [c \in centres |-> Clients(c)]
           severity == [c \in centres |-> Severity(Clients(c))]
<1>1. SharedDatabases(s) = UNION {SetToSeqs({f[c] : c \in centres}) : f \in choices}
  BY DEF SharedDatabases, Stars
<1>2. \A c \in centres : \A f \in choices : \E order \in SetToSeqs(around[c]) :
        f[c] = Detection(kind, severity[c], <<c>> \o order)
  OBVIOUS
<1>3. Services(s) \subseteq Nodes(s) /\ IsFiniteSet(Services(s)) /\ IsFiniteSet(Nodes(s)) /\ DbClients >= 1
      /\ DbClients \in Nat
  BY SpecOK, DetectorAssumption
<1>4. ASSUME NEW c \in centres PROVE IsStar(s, kind, c, around[c])
  <2>1. Clients(c) \subseteq Services(s)
    OBVIOUS
  <2>2. IsFiniteSet(Clients(c)) /\ Cardinality(Clients(c)) \in Nat
    BY <1>3, <2>1, FS_Subset, FS_CardinalityType
  <2>3. c \in Nodes(s) /\ Cardinality(Clients(c)) >= DbClients
    OBVIOUS
  <2>4. around[c] = Clients(c)
    OBVIOUS
  <2> HIDE DEF Clients, around, centres
  <2> QED BY <1>3, <2>1, <2>2, <2>3, <2>4 DEF IsStar
<1>5. severity \in [centres -> {"HIGH", "MEDIUM"}]
  OBVIOUS
<1>6. IsFiniteSet(centres)
  <2>1. centres \subseteq Nodes(s)
    OBVIOUS
  <2> HIDE DEF centres
  <2> QED BY <1>3, <2>1, FS_Subset
<1> HIDE DEF Clients, centres, choices, around, severity
<1>7. ASSUME NEW r \in SharedDatabases(s)
      PROVE  AreStars(r, kind, centres, around, severity)
  <2>1. PICK f \in choices : r \in SetToSeqs({f[c] : c \in centres})
    BY <1>1
  <2> QED BY <1>2, <2>1 DEF AreStars
<1> DEFINE results == SharedDatabases(s)
<1>8. Detects(s, results, kind) /\ Agree(results)
  <2>1. kind \in {"shared_database", "ui_orchestrator"}
    OBVIOUS
  <2>2. \A r \in results : AreStars(r, kind, centres, around, severity)
    BY <1>7
  <2> HIDE DEF results, kind
  <2> QED BY <1>4, <1>5, <1>6, <2>1, <2>2, StarsAgree
<1> QED BY <1>8

\* User interfaces that call several services.
LEMMA UIOrchestratorsAgree ==
    ASSUME NEW s, IsSpec(s)
    PROVE  Detects(s, UIOrchestrators(s), "ui_orchestrator") /\ Agree(UIOrchestrators(s))
<1> DEFINE kind == "ui_orchestrator"
           Targets(u) == {e.to : e \in {x \in Range(Edges(s)) :
                            x.from = u /\ x.to # u /\ Kind(s, x.to) \in {"service", "api_gateway"}}}
           centres == {u \in Services(s) : IsUIName(u) /\ Cardinality(Targets(u)) >= UITargets}
           Of(c) == {Detection(kind, "MEDIUM", <<c>> \o order) : order \in SetToSeqs(Targets(c))}
           choices == {f \in [centres -> UNION {Of(c) : c \in centres}] : \A c \in centres : f[c] \in Of(c)}
           around == [c \in centres |-> Targets(c)]
           severity == [c \in centres |-> "MEDIUM"]
<1>1. UIOrchestrators(s) = UNION {SetToSeqs({f[c] : c \in centres}) : f \in choices}
  BY DEF UIOrchestrators, Stars
<1>2. \A c \in centres : \A f \in choices : \E order \in SetToSeqs(around[c]) :
        f[c] = Detection(kind, severity[c], <<c>> \o order)
  OBVIOUS
<1>3. /\ Services(s) \subseteq Nodes(s) /\ IsFiniteSet(Services(s)) /\ IsFiniteSet(Nodes(s))
      /\ \A e \in Range(Edges(s)) : e.to \in Nodes(s)
      /\ UITargets >= 1 /\ UITargets \in Nat
  BY SpecOK, DetectorAssumption
<1>4. ASSUME NEW c \in centres PROVE IsStar(s, kind, c, around[c])
  <2>1. Targets(c) \subseteq Nodes(s) /\ \A n \in Targets(c) : Kind(s, n) \in {"service", "api_gateway"}
    BY <1>3
  <2>2. IsFiniteSet(Targets(c)) /\ Cardinality(Targets(c)) \in Nat
    <3> HIDE DEF Targets
    <3> QED BY <1>3, <2>1, FS_Subset, FS_CardinalityType
  <2>3. c \in Nodes(s) /\ Cardinality(Targets(c)) >= UITargets
    BY <1>3
  <2>4. around[c] = Targets(c)
    OBVIOUS
  <2> HIDE DEF Targets, around, centres
  <2> QED BY <1>3, <2>1, <2>2, <2>3, <2>4 DEF IsStar
<1>5. severity \in [centres -> {"HIGH", "MEDIUM"}]
  OBVIOUS
<1>6. IsFiniteSet(centres)
  <2>1. centres \subseteq Services(s)
    OBVIOUS
  <2> HIDE DEF centres
  <2> QED BY <1>3, <2>1, FS_Subset
<1> HIDE DEF Targets, centres, choices, around, severity
<1>7. ASSUME NEW r \in UIOrchestrators(s)
      PROVE  AreStars(r, kind, centres, around, severity)
  <2>1. PICK f \in choices : r \in SetToSeqs({f[c] : c \in centres})
    BY <1>1
  <2> QED BY <1>2, <2>1 DEF AreStars
<1> DEFINE results == UIOrchestrators(s)
<1>8. Detects(s, results, kind) /\ Agree(results)
  <2>1. kind \in {"shared_database", "ui_orchestrator"}
    OBVIOUS
  <2>2. \A r \in results : AreStars(r, kind, centres, around, severity)
    BY <1>7
  <2> HIDE DEF results, kind
  <2> QED BY <1>4, <1>5, <1>6, <2>1, <2>2, StarsAgree
<1> QED BY <1>8

\* A chain is a path of services; which of several is not settled.
LEMMA SyncChainsDetect ==
    ASSUME NEW s, IsSpec(s)
    PROVE  Detects(s, SyncChains(s), "sync_call_chain")
<1> DEFINE found == SoundSet(s, {"sync_call_chain"})
<1>1. ASSUME NEW r \in SyncChains(s)
      PROVE  r = <<>> \/ \E p \in SyncPaths(s) :
               Len(p) - 1 >= ChainEdges /\ r = <<Detection("sync_call_chain", "MEDIUM", p)>>
  BY DEF SyncChains
<1>2. ASSUME NEW p \in SyncPaths(s) PROVE p \in Seq(Nodes(s))
  <2>1. PICK met \in SUBSET Services(s) : p \in SetToSeqs(met)
    BY DEF SyncPaths
  <2>2. IsFiniteSet(met) /\ met \subseteq Nodes(s)
    BY SpecOK, FS_Subset
  <2>3. p \in Seq(met)
    BY <2>1, <2>2, SetToSeqsOK
  <2> QED BY <2>2, <2>3, SeqMonotonic
<1>3. ASSUME NEW p \in SyncPaths(s), Len(p) - 1 >= ChainEdges
      PROVE  Detection("sync_call_chain", "MEDIUM", p) \in found
  <2>1. ChainEdges \in Nat /\ ChainEdges >= 1
    BY DetectorAssumption
  <2>2. p \in Seq(Nodes(s)) /\ Len(p) >= 2
    BY <1>2, <1>3, <2>1
  <2>3. Sound(s, Detection("sync_call_chain", "MEDIUM", p))
    BY <2>2 DEF Sound, Detection
  <2> QED BY <2>2, <2>3, SoundSetOK
<1> HIDE DEF found
<1>4. ASSUME NEW r \in SyncChains(s) PROVE r \in Seq(found)
  <2>1. CASE r = <<>>
    BY <2>1
  <2>2. CASE r # <<>>
    <3>1. PICK p \in SyncPaths(s) :
            Len(p) - 1 >= ChainEdges /\ r = <<Detection("sync_call_chain", "MEDIUM", p)>>
      BY <1>1, <2>2
    <3> DEFINE d == Detection("sync_call_chain", "MEDIUM", p)
    <3>2. d \in found /\ r = <<d>>
      BY <1>3, <3>1
    <3> HIDE DEF d
    <3> QED BY <3>2
  <2> QED BY <2>1, <2>2
<1> QED BY <1>4 DEF Detects, found

\* Each service, in their order, with the partners that do not come before it.
Coupled(order, partners, V) ==
    LET Found(a, bs) == [i \in DOMAIN bs |-> Detection("tight_coupling", "HIGH", <<a, bs[i]>>)]
    IN FlattenSeq([i \in DOMAIN order |->
         Found(order[i], Only(partners[order[i]], V \ {order[j] : j \in 1 .. i - 1}))])

\* The keys of the pairs of partners.
CoupledKeys(partners, V) ==
    {<<"tight_coupling", {p[1], p[2]}>> : p \in {q \in V \X V : q[2] \in Range(partners[q[1]])}}

\* Each pair of partners is found, in whatever order.
LEMMA PartnersOK ==
    ASSUME NEW s, NEW V, V \subseteq Nodes(s), IsFiniteSet(V), NEW order \in SetToSeqs(V),
           NEW partners \in [V -> Seq(V)],
           \A a, b \in V : b \in Range(partners[a]) => a \in Range(partners[b])
    PROVE  /\ Coupled(order, partners, V) \in Seq(SoundSet(s, {"tight_coupling"}))
           /\ Keys(Coupled(order, partners, V)) = CoupledKeys(partners, V)
<1> DEFINE kind == "tight_coupling"
           Found(a, bs) == [i \in DOMAIN bs |-> Detection(kind, "HIGH", <<a, bs[i]>>)]
           After(i) == V \ {order[j] : j \in 1 .. i - 1}
           Bs(i) == Only(partners[order[i]], After(i))
           seqs == [i \in DOMAIN order |-> Found(order[i], Bs(i))]
           r == FlattenSeq(seqs)
           found == SoundSet(s, {kind})
           X == Seq(found)
           Key(a, b) == <<kind, {a, b}>>
<1>1. /\ order \in Seq(V) /\ Range(order) = V
      /\ \A i, j \in DOMAIN order : order[i] = order[j] => i = j
  BY SetToSeqsOK
<1>2. DOMAIN order = 1 .. Len(order) /\ Len(order) \in Nat /\ \A i \in DOMAIN order : order[i] \in V
  BY <1>1
<1>3. ASSUME NEW i \in DOMAIN order
      PROVE  /\ Bs(i) \in Seq(V) /\ Range(Bs(i)) = Range(partners[order[i]]) \cap After(i)
             /\ Range(Bs(i)) \subseteq V
  <2> DEFINE bs == partners[order[i]]
             rest == After(i)
  <2>1. bs \in Seq(V)
    BY <1>2
  <2> HIDE DEF bs, rest
  <2>2. Only(bs, rest) \in Seq(V \cap rest) /\ Range(Only(bs, rest)) = Range(bs) \cap rest
    BY <2>1, OnlyOK
  <2>3. Only(bs, rest) \in Seq(V)
    BY <2>2, SeqMonotonic
  <2> QED BY <2>2, <2>3 DEF bs, rest
<1>4. ASSUME NEW a \in V, NEW b \in V
      PROVE  Detection(kind, "HIGH", <<a, b>>) \in found
             /\ DetectionKey(Detection(kind, "HIGH", <<a, b>>)) = Key(a, b)
  BY PairOK DEF PairFound
<1>5. ASSUME NEW i \in DOMAIN order
      PROVE  /\ Found(order[i], Bs(i)) \in X
             /\ {DetectionKey(d) : d \in Range(Found(order[i], Bs(i)))} = {Key(order[i], b) : b \in Range(Bs(i))}
  <2> DEFINE a == order[i]
             bs == Bs(i)
  <2>1. bs \in Seq(V) /\ a \in V
    BY <1>2, <1>3
  <2> HIDE DEF bs, a, found, Key
  <2>2. DOMAIN bs = 1 .. Len(bs) /\ Len(bs) \in Nat /\ \A j \in DOMAIN bs : bs[j] \in V
    BY <2>1
  <2>3. \A j \in DOMAIN bs : Detection(kind, "HIGH", <<a, bs[j]>>) \in found
                             /\ DetectionKey(Detection(kind, "HIGH", <<a, bs[j]>>)) = Key(a, bs[j])
    BY <1>4, <2>1, <2>2
  <2> DEFINE dets == Found(a, bs)
  <2>4. DOMAIN dets = DOMAIN bs /\ dets \in Seq(found)
    BY <2>2, <2>3, IsASeq
  <2>5. \A j \in DOMAIN bs : DetectionKey(dets[j]) = Key(a, bs[j])
    BY <2>3
  <2> HIDE DEF dets
  <2>6. {DetectionKey(d) : d \in Range(dets)} = {Key(a, b) : b \in Range(bs)}
    BY <2>4, <2>5 DEF Range
  <2> QED BY <2>4, <2>6 DEF a, bs, dets
<1> HIDE DEF found, Key, Found, After, Bs
<1>6. seqs \in Seq(X) /\ DOMAIN seqs = DOMAIN order /\ \A i \in DOMAIN order : seqs[i] = Found(order[i], Bs(i))
  <2> HIDE DEF X
  <2>1. \A i \in DOMAIN order : Found(order[i], Bs(i)) \in X
    BY <1>5
  <2> QED BY <1>2, <2>1, IsASeq
<1>7. r \in Seq(found) /\ Range(r) = UNION {Range(seqs[i]) : i \in DOMAIN seqs}
  <2>1. seqs \in Seq(Seq(found))
    BY <1>6
  <2> HIDE DEF seqs
  <2> QED BY <2>1, FlattenOK
<1> HIDE DEF seqs, r
<1>8. \A k : k \in Keys(r) <=> \E i \in DOMAIN order : \E d \in Range(seqs[i]) : k = DetectionKey(d)
  BY <1>6, <1>7 DEF Keys
<1>9. ASSUME NEW i \in DOMAIN order, NEW k
      PROVE  (\E d \in Range(seqs[i]) : k = DetectionKey(d)) <=> \E b \in Range(Bs(i)) : k = Key(order[i], b)
  <2> DEFINE dets == Range(seqs[i])
             bs == Range(Bs(i))
  <2>1. {DetectionKey(d) : d \in dets} = {Key(order[i], b) : b \in bs}
    BY <1>5, <1>6
  <2> HIDE DEF dets, bs
  <2>2. k \in {DetectionKey(d) : d \in dets} <=> k \in {Key(order[i], b) : b \in bs}
    BY <2>1
  <2>3. (\E d \in dets : k = DetectionKey(d)) <=> \E b \in bs : k = Key(order[i], b)
    BY <2>2
  <2> QED BY <2>3 DEF dets, bs
<1>10. \A k : k \in Keys(r) <=> \E i \in DOMAIN order : \E b \in Range(Bs(i)) : k = Key(order[i], b)
  <2> TAKE k
  <2> DEFINE Of(i) == \E d \in Range(seqs[i]) : k = DetectionKey(d)
             Is(i) == \E b \in Range(Bs(i)) : k = Key(order[i], b)
  <2>1. k \in Keys(r) <=> \E i \in DOMAIN order : Of(i)
    BY <1>8
  <2>2. ASSUME NEW i \in DOMAIN order PROVE Of(i) <=> Is(i)
    <3>1. \A x : (\E d \in Range(seqs[i]) : x = DetectionKey(d)) <=> \E b \in Range(Bs(i)) : x = Key(order[i], b)
      BY <1>9, Zenon
    <3> HIDE DEF Bs
    <3>2. (\E d \in Range(seqs[i]) : k = DetectionKey(d)) <=> \E b \in Range(Bs(i)) : k = Key(order[i], b)
      BY <3>1, Zenon
    <3> QED BY <3>2
  <2> HIDE DEF Of, Is
  <2>3. k \in Keys(r) <=> \E i \in DOMAIN order : Is(i)
    BY <2>1, <2>2
  <2> QED BY <2>3 DEF Is
<1> DEFINE pairs == {q \in V \X V : q[2] \in Range(partners[q[1]])}
<1>11. ASSUME NEW i \in DOMAIN order, NEW b \in Range(Bs(i))
       PROVE  <<order[i], b>> \in pairs
  BY <1>2, <1>3
<1>12. ASSUME NEW a \in V, NEW b \in V, b \in Range(partners[a])
       PROVE  \E i \in DOMAIN order : \E c \in Range(Bs(i)) : Key(order[i], c) = Key(a, b)
  <2>1. PICK i, j \in DOMAIN order : order[i] = a /\ order[j] = b
    BY <1>1 DEF Range
  <2>2. i \in Nat /\ j \in Nat
    BY <1>2
  <2>3. CASE i <= j
    <3>1. b \in After(i)
      <4>1. ASSUME NEW k \in 1 .. i - 1, order[k] = b PROVE FALSE
        <5>1. k \in DOMAIN order /\ k # j
          BY <1>2, <2>1, <2>2, <2>3
        <5> QED BY <1>1, <2>1, <4>1, <5>1
      <4> QED BY <4>1 DEF After
    <3>2. b \in Range(Bs(i))
      BY <1>3, <1>12, <2>1, <3>1
    <3> QED BY <2>1, <3>2
  <2>4. CASE j <= i
    <3>1. a \in After(j)
      <4>1. ASSUME NEW k \in 1 .. j - 1, order[k] = a PROVE FALSE
        <5>1. k \in DOMAIN order /\ k # i
          BY <1>2, <2>1, <2>2, <2>4
        <5> QED BY <1>1, <2>1, <4>1, <5>1
      <4> QED BY <4>1 DEF After
    <3>2. a \in Range(Bs(j))
      BY <1>3, <1>12, <2>1, <3>1
    <3>3. Key(b, a) = Key(a, b)
      BY DEF Key
    <3> QED BY <2>1, <3>2, <3>3
  <2> QED BY <2>2, <2>3, <2>4
<1>13. Keys(r) = {Key(p[1], p[2]) : p \in pairs}
  <2>1. \A k \in Keys(r) : k \in {Key(p[1], p[2]) : p \in pairs}
    <3> SUFFICES ASSUME NEW k \in Keys(r) PROVE \E p \in pairs : k = Key(p[1], p[2])
      OBVIOUS
    <3>1. PICK i \in DOMAIN order : \E b \in Range(Bs(i)) : k = Key(order[i], b)
      BY <1>10
    <3>3. PICK b \in Range(Bs(i)) : k = Key(order[i], b)
      BY <3>1
    <3> DEFINE p == <<order[i], b>>
    <3>2. p \in pairs /\ p[1] = order[i] /\ p[2] = b
      BY <1>11
    <3> HIDE DEF p
    <3> QED BY <3>2, <3>3
  <2>2. \A p \in pairs : Key(p[1], p[2]) \in Keys(r)
    <3> SUFFICES ASSUME NEW p \in pairs PROVE Key(p[1], p[2]) \in Keys(r)
      OBVIOUS
    <3>1. p[1] \in V /\ p[2] \in V /\ p[2] \in Range(partners[p[1]])
      OBVIOUS
    <3> QED BY <1>10, <1>12, <3>1
  <2> QED BY <2>1, <2>2
<1>14. r = Coupled(order, partners, V)
  BY DEF r, seqs, Found, Bs, After, Coupled
<1>15. CoupledKeys(partners, V) = {Key(p[1], p[2]) : p \in pairs}
  BY DEF CoupledKeys, Key
<1> QED BY <1>7, <1>13, <1>14, <1>15 DEF found

\* Services that keep each other waiting.
LEMMA TightCouplingsAgree ==
    ASSUME NEW s, IsSpec(s)
    PROVE  Detects(s, TightCouplings(s), "tight_coupling") /\ Agree(TightCouplings(s))
<1> DEFINE V == Services(s)
           kind == "tight_coupling"
           Sync(a) == Only(Out(s, a), {e \in Range(Out(s, a)) : e.sync})
           Count(a, b) == Len(Only(Sync(a), {e \in Range(Sync(a)) : e.to = b}))
           close == {p \in V \X V : Count(p[1], p[2]) >= 1 /\ 10 * Count(p[1], p[2]) >= 7 * Len(Sync(p[1]))}
           Mutual(a) == {b \in V : {<<a, b>>, <<b, a>>} \subseteq close}
           Targets(a) == LET out == Sync(a) IN Only([i \in DOMAIN out |-> out[i].to], Mutual(a))
           Partners(a) == Distinct(Targets(a))
           partners == [a \in V |-> Partners(a)]
<1>1. ASSUME NEW r \in TightCouplings(s)
      PROVE  \E order \in SetToSeqs(V) : r = Coupled(order, partners, V)
  <2>1. TightCouplings(s) = {Coupled(order, f, V) : f \in {partners}, order \in SetToSeqs(V)}
    BY DEF TightCouplings, Coupled
  <2> HIDE DEF partners, V
  <2> QED BY <2>1
<1>2. V \subseteq Nodes(s) /\ IsFiniteSet(V)
  BY SpecOK
<1>3. \A a, b \in V : b \in Mutual(a) => a \in Mutual(b)
  <2> HIDE DEF close
  <2> QED OBVIOUS
<1>4. ASSUME NEW a \in V, NEW b \in Mutual(a) PROVE Count(a, b) >= 1
  <2> HIDE DEF Count
  <2> QED OBVIOUS
<1>5. ASSUME NEW a \in V PROVE Partners(a) \in Seq(V) /\ Range(Partners(a)) = Mutual(a)
  <2> DEFINE sync == {e \in Range(Out(s, a)) : e.sync}
             out == Sync(a)
             mutual == Mutual(a)
  <2>1. Out(s, a) \in Seq(LinkSet)
    BY OutOK
  <2>2. out \in Seq(LinkSet)
    <3>1. out = Only(Out(s, a), sync)
      OBVIOUS
    <3> HIDE DEF sync, out
    <3>2. out \in Seq(LinkSet \cap sync)
      BY <2>1, <3>1, OnlyOK
    <3> QED BY <3>2, SeqMonotonic
  <2>3. ASSUME NEW b \in mutual PROVE \E e \in Range(out) : e.to = b
    <3> DEFINE T == {e \in Range(out) : e.to = b}
               toB == Only(out, T)
    <3>1. Len(toB) >= 1
      BY <1>4
    <3> HIDE DEF out, T
    <3>2. toB \in Seq(LinkSet \cap T)
      BY <2>2, OnlyOK
    <3> HIDE DEF toB
    <3>3. toB[1] \in LinkSet \cap T
      BY <3>1, <3>2
    <3> QED BY <3>3 DEF T
  <2>4. Targets(a) = Only([i \in DOMAIN out |-> out[i].to], mutual) /\ mutual \subseteq V
    OBVIOUS
  <2> DEFINE targets == Targets(a)
  <2> HIDE DEF out, mutual, targets, V
  <2>5. targets \in Seq(mutual) /\ Range(targets) = {e.to : e \in Range(out)} \cap mutual
    BY <2>2, <2>4, TargetsOK DEF targets
  <2>6. Range(targets) = mutual
    BY <2>3, <2>5
  <2>7. Distinct(targets) \in Seq(mutual) /\ Range(Distinct(targets)) = mutual
    BY <2>5, <2>6, DistinctOK
  <2>8. Distinct(targets) \in Seq(V)
    BY <2>4, <2>7, SeqMonotonic
  <2> QED BY <2>7, <2>8 DEF targets, mutual
<1> HIDE DEF V, Partners, Mutual
<1>6. partners \in [V -> Seq(V)] /\ \A a, b \in V : b \in Range(partners[a]) => a \in Range(partners[b])
  BY <1>3, <1>5
<1> HIDE DEF partners
<1>7. ASSUME NEW r \in TightCouplings(s)
      PROVE  r \in Seq(SoundSet(s, {kind})) /\ Keys(r) = CoupledKeys(partners, V)
  <2>1. PICK order \in SetToSeqs(V) : r = Coupled(order, partners, V)
    BY <1>1
  <2> QED BY <1>2, <1>6, <2>1, PartnersOK
<1> QED BY <1>7 DEF Detects, Agree

\* What each detector finds, in the order of their names.
KindOf == <<"cycles", "god_service", "ping_pong_dependency", "reverse_dependency",
            "shared_database", "sync_call_chain", "tight_coupling", "ui_orchestrator">>

\* What each may return.
DetectorsOf(s) == <<Cycles(s), GodServices(s), PingPongs(s), ReverseDependencies(s),
                    SharedDatabases(s), SyncChains(s), TightCouplings(s), UIOrchestrators(s)>>

\* The results of the detectors, in the order in which they run.
IsParts(s, parts) ==
    /\ parts \in [1 .. 8 -> Seq(SoundSet(s, Kinds))]
    /\ \A i \in 1 .. 8 : parts[i] \in DetectorsOf(s)[i] /\ parts[i] \in Seq(SoundSet(s, {KindOf[i]}))

\* Each detects its own kind; all but that of chains find the same in whatever order.
LEMMA DetectorsOK ==
    ASSUME NEW s, IsSpec(s), NEW i \in 1 .. 8
    PROVE  Detects(s, DetectorsOf(s)[i], KindOf[i]) /\ (i # 6 => Agree(DetectorsOf(s)[i]))
<1> DEFINE OK(j) == Detects(s, DetectorsOf(s)[j], KindOf[j]) /\ (j # 6 => Agree(DetectorsOf(s)[j]))
<1>1. OK(1) /\ OK(2) /\ OK(3) /\ OK(4) /\ OK(5) /\ OK(6) /\ OK(7) /\ OK(8)
  BY CyclesAgree, GodServicesAgree, PingPongsAgree, ReverseDependenciesAgree, SharedDatabasesAgree,
     SyncChainsDetect, TightCouplingsAgree, UIOrchestratorsAgree DEF DetectorsOf, KindOf
<1>2. i \in {1, 2, 3, 4, 5, 6, 7, 8}
  OBVIOUS
<1> HIDE DEF OK
<1>3. OK(i)
  BY <1>1, <1>2
<1> QED BY <1>3 DEF OK

\* One result of each detector makes an analysis.
LEMMA PartsOK ==
    ASSUME NEW s, IsSpec(s), NEW seqs, DOMAIN seqs = 1 .. 8, seqs = [i \in 1 .. 8 |-> seqs[i]],
           \A i \in 1 .. 8 : seqs[i] \in DetectorsOf(s)[i]
    PROVE  IsParts(s, seqs)
<1>0. ASSUME NEW i \in 1 .. 8 PROVE seqs[i] \in Seq(SoundSet(s, {KindOf[i]}))
  <2>1. Detects(s, DetectorsOf(s)[i], KindOf[i]) /\ seqs[i] \in DetectorsOf(s)[i]
    BY DetectorsOK
  <2> QED BY <2>1 DEF Detects
<1>1. ASSUME NEW i \in 1 .. 8 PROVE seqs[i] \in Seq(SoundSet(s, Kinds))
  <2>1. KindOf[i] \in Kinds
    BY DEF KindOf, Kinds
  <2>2. SoundSet(s, {KindOf[i]}) \subseteq SoundSet(s, Kinds)
    <3> HIDE DEF Kinds, KindOf
    <3> QED BY <2>1 DEF SoundSet
  <2>3. seqs[i] \in Seq(SoundSet(s, {KindOf[i]}))
    BY <1>0
  <2> QED BY <2>2, <2>3, SeqMonotonic
<1> QED BY <1>0, <1>1 DEF IsParts

\* An analysis is what the detectors return, one after another.
LEMMA AnalysisParts ==
    ASSUME NEW s, IsSpec(s)
    PROVE  \A dets \in Analyses(s) : \E parts : IsParts(s, parts) /\ dets = FlattenSeq(parts)
<1> SUFFICES ASSUME NEW dets \in Analyses(s)
             PROVE  \E parts : IsParts(s, parts) /\ dets = FlattenSeq(parts)
  OBVIOUS
<1>1. PICK a \in Cycles(s), b \in GodServices(s), c \in PingPongs(s), d \in ReverseDependencies(s),
           e \in SharedDatabases(s), f \in SyncChains(s), g \in TightCouplings(s), h \in UIOrchestrators(s) :
             dets = FlattenSeq(<<a, b, c, d, e, f, g, h>>)
  BY DEF Analyses
<1> DEFINE parts == <<a, b, c, d, e, f, g, h>>
<1>2. DOMAIN parts = 1 .. 8 /\ parts = [i \in 1 .. 8 |-> parts[i]]
  OBVIOUS
<1>3. \A i \in 1 .. 8 : parts[i] \in DetectorsOf(s)[i]
  <2> DEFINE Typed(i) == parts[i] \in DetectorsOf(s)[i]
  <2>1. Typed(1) /\ Typed(2) /\ Typed(3) /\ Typed(4) /\ Typed(5) /\ Typed(6) /\ Typed(7) /\ Typed(8)
    BY DEF DetectorsOf
  <2>2. \A i \in 1 .. 8 : i \in {1, 2, 3, 4, 5, 6, 7, 8}
    OBVIOUS
  <2> HIDE DEF Typed
  <2>3. \A i \in 1 .. 8 : Typed(i)
    BY <2>1, <2>2
  <2> QED BY <2>3 DEF Typed
<1> HIDE DEF parts
<1>4. IsParts(s, parts)
  BY <1>2, <1>3, PartsOK
<1> QED BY <1>1, <1>4 DEF parts

\* What an analysis finds are detections of the YAML.
LEMMA PartsFound ==
    ASSUME NEW s, NEW parts, IsParts(s, parts)
    PROVE  /\ parts \in Seq(Seq(SoundSet(s, Kinds))) /\ Len(parts) = 8
           /\ FlattenSeq(parts) \in Seq(SoundSet(s, Kinds))
           /\ \A d : d \in Range(FlattenSeq(parts)) <=> \E i \in 1 .. 8 : d \in Range(parts[i])
           /\ \A i \in 1 .. 8 : \A d \in Range(parts[i]) : d.kind = KindOf[i]
<1> DEFINE found == SoundSet(s, Kinds)
<1>1. parts \in [1 .. 8 -> Seq(found)]
  BY DEF IsParts
<1>2. \A i \in 1 .. 8 : \A d \in Range(parts[i]) : d.kind = KindOf[i]
  <2> TAKE i \in 1 .. 8
  <2>1. parts[i] \in Seq(SoundSet(s, {KindOf[i]}))
    BY DEF IsParts
  <2>2. \A d \in SoundSet(s, {KindOf[i]}) : d.kind = KindOf[i]
    BY DEF SoundSet
  <2> DEFINE of == SoundSet(s, {KindOf[i]})
             part == parts[i]
  <2> HIDE DEF of, part
  <2>3. part \in Seq(of)
    BY <2>1 DEF of, part
  <2>4. \A d \in Range(part) : d \in of
    BY <2>3 DEF Range
  <2> QED BY <2>2, <2>4 DEF of, part
<1> HIDE DEF found
<1>3. parts \in Seq(Seq(found)) /\ Len(parts) = 8 /\ DOMAIN parts = 1 .. 8
  <2> DEFINE X == Seq(found)
  <2> HIDE DEF X
  <2>1. parts \in [1 .. 8 -> X]
    BY <1>1 DEF X
  <2>2. parts \in Seq(X)
    <3> DEFINE n == 8
    <3>1. n \in Nat /\ parts \in [1 .. n -> X]
      BY <2>1
    <3> HIDE DEF n
    <3> QED BY <3>1
  <2>3. DOMAIN parts = 1 .. 8
    BY <2>1
  <2>5. DOMAIN parts = 1 .. Len(parts) /\ Len(parts) \in Nat
    BY <2>2, LenProperties
  <2>4. Len(parts) = 8
    BY <2>3, <2>5
  <2> QED BY <2>2, <2>3, <2>4 DEF X
<1>4. FlattenSeq(parts) \in Seq(found)
      /\ Range(FlattenSeq(parts)) = UNION {Range(parts[i]) : i \in DOMAIN parts}
  BY <1>3, FlattenOK
<1>5. \A d : d \in Range(FlattenSeq(parts)) <=> \E i \in 1 .. 8 : d \in Range(parts[i])
  BY <1>3, <1>4
<1> QED BY <1>2, <1>3, <1>4, <1>5 DEF found

\* Two analyses of a YAML find the same, apart from the chain.
LEMMA AnalysesAgree ==
    ASSUME NEW s, IsSpec(s), NEW dets \in Analyses(s), NEW others \in Analyses(s),
           NEW d \in Range(dets), d.kind # "sync_call_chain"
    PROVE  \E e \in Range(others) : DetectionKey(e) = DetectionKey(d)
<1>1. PICK p : IsParts(s, p) /\ dets = FlattenSeq(p)
  BY AnalysisParts
<1>2. PICK q : IsParts(s, q) /\ others = FlattenSeq(q)
  BY AnalysisParts
<1>3. PICK i \in 1 .. 8 : d \in Range(p[i]) /\ d.kind = KindOf[i]
  <2>1. \E i \in 1 .. 8 : d \in Range(p[i])
    BY <1>1, PartsFound
  <2>2. PICK i \in 1 .. 8 : d \in Range(p[i])
    BY <2>1
  <2>3. \A j \in 1 .. 8 : \A x \in Range(p[j]) : x.kind = KindOf[j]
    BY <1>1, PartsFound
  <2> QED BY <2>2, <2>3
<1>4. i # 6
  BY <1>3 DEF KindOf
<1>5. Keys(p[i]) = Keys(q[i])
  <2>1. Agree(DetectorsOf(s)[i])
    BY <1>4, DetectorsOK
  <2>2. p[i] \in DetectorsOf(s)[i] /\ q[i] \in DetectorsOf(s)[i]
    BY <1>1, <1>2 DEF IsParts
  <2> QED BY <2>1, <2>2 DEF Agree
<1>6. PICK e \in Range(q[i]) : DetectionKey(e) = DetectionKey(d)
  BY <1>3, <1>5 DEF Keys
<1>7. e \in Range(others)
  BY <1>2, PartsFound
<1> QED BY <1>6, <1>7

\* The cycles come first.
LEMMA AnalysisCycles ==
    ASSUME NEW s, IsSpec(s), NEW dets \in Analyses(s)
    PROVE  \E cycles \in Cycles(s) :
             /\ {i \in DOMAIN dets : dets[i].kind = "cycles"} = DOMAIN cycles
             /\ \A i \in DOMAIN cycles : dets[i] = cycles[i]
<1>1. PICK p : IsParts(s, p) /\ dets = FlattenSeq(p)
  BY AnalysisParts
<1> DEFINE cycles == p[1]
<1>2. /\ p \in Seq(Seq(SoundSet(s, Kinds))) /\ Len(p) = 8
      /\ \A i \in 1 .. 8 : \A d \in Range(p[i]) : d.kind = KindOf[i]
  BY <1>1, PartsFound
<1>3. cycles \in Cycles(s)
  BY <1>1 DEF IsParts, DetectorsOf
<1>4. /\ \A k \in DOMAIN cycles : k \in DOMAIN dets /\ dets[k] = cycles[k]
      /\ \A k \in DOMAIN dets \ DOMAIN cycles : \E j \in 2 .. 8 : dets[k] \in Range(p[j])
  <2> DEFINE found == SoundSet(s, Kinds)
  <2> HIDE DEF found
  <2>1. p \in Seq(Seq(found)) /\ Len(p) # 0 /\ Len(p) = 8
    BY <1>2 DEF found
  <2>2. LET flat == FlattenSeq(p) IN
           /\ \A k \in DOMAIN p[1] : k \in DOMAIN flat /\ flat[k] = p[1][k]
           /\ \A k \in DOMAIN flat \ DOMAIN p[1] : \E j \in 2 .. Len(p) : flat[k] \in Range(p[j])
    BY <2>1, FlattenHead
  <2> QED BY <1>1, <2>1, <2>2
<1>5. \A k \in DOMAIN cycles : dets[k].kind = "cycles"
  <2> TAKE k \in DOMAIN cycles
  <2>1. dets[k] \in Range(p[1]) /\ 1 \in 1 .. 8
    BY <1>4 DEF Range
  <2>2. KindOf[1] = "cycles"
    BY DEF KindOf
  <2> QED BY <1>2, <2>1, <2>2
<1>6. \A k \in DOMAIN dets \ DOMAIN cycles : dets[k].kind # "cycles"
  <2> TAKE k \in DOMAIN dets \ DOMAIN cycles
  <2>1. PICK j \in 2 .. 8 : dets[k] \in Range(p[j])
    BY <1>4
  <2>2. dets[k].kind = KindOf[j]
    BY <1>2, <2>1
  <2>3. KindOf[j] # "cycles"
    <3>1. j \in {2, 3, 4, 5, 6, 7, 8}
      OBVIOUS
    <3> QED BY <3>1 DEF KindOf
  <2> QED BY <2>2, <2>3
<1> HIDE DEF cycles
<1> QED BY <1>3, <1>4, <1>5, <1>6

(***************************************************************************)
(* The links of a set that a sequence has, in another one.                 *)
(***************************************************************************)

\* The same place, if the sequences differ only in other links.
LEMMA KeptInPlace ==
    ASSUME NEW S, NEW a \in Seq(S), NEW T, NEW b, DOMAIN a \subseteq DOMAIN b,
           \A i \in DOMAIN a : a[i] \in T => b[i] = a[i]
    PROVE  Kept(a, T, b)
<1> DEFINE at == {i \in DOMAIN a : a[i] \in T}
           f == [i \in at |-> i]
<1>1. f \in [at -> DOMAIN b]
  OBVIOUS
<1>2. \A i, j \in at : b[f[i]] = a[i] /\ (i < j => f[i] < f[j])
  OBVIOUS
<1> HIDE DEF f
<1> QED BY <1>1, <1>2 DEF Kept

\* What is kept twice is kept.
LEMMA KeptTwice ==
    ASSUME NEW S, NEW a \in Seq(S), NEW b \in Seq(S), NEW c \in Seq(S), NEW T,
           Kept(a, T, b), Kept(b, T, c)
    PROVE  Kept(a, T, c)
<1> DEFINE ata == {i \in DOMAIN a : a[i] \in T}
           atb == {i \in DOMAIN b : b[i] \in T}
<1>1. PICK f \in [ata -> DOMAIN b] : \A i, j \in ata : b[f[i]] = a[i] /\ (i < j => f[i] < f[j])
  BY DEF Kept
<1>2. PICK g \in [atb -> DOMAIN c] : \A i, j \in atb : c[g[i]] = b[i] /\ (i < j => g[i] < g[j])
  BY DEF Kept
<1>3. \A i \in ata : f[i] \in atb
  BY <1>1
<1> DEFINE h == [i \in ata |-> g[f[i]]]
<1>4. h \in [ata -> DOMAIN c]
  <2> HIDE DEF ata, atb
  <2> QED BY <1>2, <1>3
<1>5. \A i, j \in ata : c[h[i]] = a[i] /\ (i < j => h[i] < h[j])
  <2> HIDE DEF ata, atb
  <2> QED BY <1>1, <1>2, <1>3
<1> HIDE DEF h
<1> QED BY <1>4, <1>5 DEF Kept

\* Appending keeps everything.
LEMMA KeptAppend ==
    ASSUME NEW S, NEW a \in Seq(S), NEW e \in S, NEW T
    PROVE  Append(a, e) \in Seq(S) /\ Kept(a, T, Append(a, e))
<1> DEFINE b == Append(a, e)
<1>1. /\ b \in Seq(S) /\ DOMAIN a = 1 .. Len(a) /\ DOMAIN b = 1 .. Len(a) + 1 /\ Len(a) \in Nat
      /\ \A i \in 1 .. Len(a) : b[i] = a[i]
  BY AppendProperties
<1> HIDE DEF b
<1>2. Kept(a, T, b)
  BY <1>1, KeptInPlace
<1> QED BY <1>1, <1>2 DEF b

\* A sequence without one of its places.
LEMMA RemoveAtOK ==
    ASSUME NEW S, NEW a \in Seq(S), NEW k \in DOMAIN a
    PROVE  /\ RemoveAt(a, k) \in Seq(S) /\ Len(RemoveAt(a, k)) = Len(a) - 1
           /\ \A i \in 1 .. Len(a) - 1 : RemoveAt(a, k)[i] = IF i < k THEN a[i] ELSE a[i + 1]
<1> DEFINE n == Len(a)
           b == RemoveAt(a, k)
           before == SubSeq(a, 1, k - 1)
           after == SubSeq(a, k + 1, n)
<1>1. n \in Nat /\ DOMAIN a = 1 .. n /\ k \in 1 .. n
  OBVIOUS
<1>2. before \in Seq(S) /\ Len(before) = k - 1 /\ \A i \in 1 .. k - 1 : before[i] = a[i]
  <2>1. 1 \in 1 .. n + 1 /\ k - 1 \in 0 .. n /\ \A i \in 1 .. k - 1 : i \in 1 .. n
    BY <1>1
  <2>2. k - 1 \in Int /\ (1 <= k - 1 \/ k - 1 = 0)
    BY <1>1
  <2> HIDE DEF before
  <2>3. before \in Seq(S) /\ Len(before) = (IF 1 <= k - 1 THEN (k - 1) - 1 + 1 ELSE 0)
        /\ \A i \in 1 .. (k - 1) - 1 + 1 : before[i] = a[1 + i - 1]
    BY <1>1, <2>1, SubSeqProperties DEF before
  <2>4. \A i \in 1 .. k - 1 : i \in 1 .. (k - 1) - 1 + 1 /\ 1 + i - 1 = i
    BY <1>1
  <2>5. Len(before) = k - 1
    BY <2>2, <2>3
  <2> QED BY <2>3, <2>4, <2>5
<1>3. after \in Seq(S) /\ Len(after) = n - k /\ \A i \in 1 .. n - k : after[i] = a[i + k]
  <2>1. k + 1 \in 1 .. n + 1 /\ n \in 0 .. n
    BY <1>1
  <2>2. k + 1 \in Int /\ n \in Int /\ n - k \in Int /\ (k + 1 <= n \/ n - k = 0) /\ n - (k + 1) + 1 = n - k
    BY <1>1
  <2> HIDE DEF after
  <2>3. after \in Seq(S) /\ Len(after) = (IF k + 1 <= n THEN n - (k + 1) + 1 ELSE 0)
        /\ \A i \in 1 .. n - (k + 1) + 1 : after[i] = a[(k + 1) + i - 1]
    BY <1>1, <2>1, SubSeqProperties DEF after
  <2>4. \A i \in 1 .. n - k : i \in 1 .. n - (k + 1) + 1 /\ (k + 1) + i - 1 = i + k
    BY <1>1
  <2>5. Len(after) = n - k
    BY <2>2, <2>3
  <2> QED BY <2>3, <2>4, <2>5
<1>4. b = before \o after
  BY DEF RemoveAt
<1> HIDE DEF before, after, b, n
<1>5. b \in Seq(S) /\ Len(b) = n - 1
  <2>1. b \in Seq(S) /\ Len(b) = Len(before) + Len(after)
    BY <1>2, <1>3, <1>4, ConcatProperties
  <2> QED BY <1>1, <1>2, <1>3, <2>1
<1>6. \A i \in 1 .. n - 1 : b[i] = IF i < k THEN a[i] ELSE a[i + 1]
  <2> TAKE i \in 1 .. n - 1
  <2>1. b[i] = IF i <= k - 1 THEN before[i] ELSE after[i - (k - 1)]
    BY <1>1, <1>2, <1>3, <1>4, ConcatProperties
  <2>2. CASE i < k
    BY <1>1, <1>2, <2>1, <2>2
  <2>3. CASE i >= k
    <3>1. i - (k - 1) \in 1 .. n - k /\ (i - (k - 1)) + k = i + 1
      BY <1>1, <2>3
    <3>2. after[i - (k - 1)] = a[i + 1]
      BY <1>3, <3>1
    <3> QED BY <1>1, <2>1, <2>3, <3>2
  <2> QED BY <1>1, <2>2, <2>3
<1> QED BY <1>5, <1>6 DEF b, n

\* A link of the set stays if one outside it is taken out.
LEMMA KeptRemove ==
    ASSUME NEW S, NEW a \in Seq(S), NEW k \in DOMAIN a, NEW T, a[k] \notin T
    PROVE  RemoveAt(a, k) \in Seq(S) /\ Kept(a, T, RemoveAt(a, k))
<1> DEFINE n == Len(a)
           b == RemoveAt(a, k)
<1>1. n \in Nat /\ DOMAIN a = 1 .. n /\ k \in 1 .. n
  OBVIOUS
<1>2. b \in Seq(S) /\ Len(b) = n - 1
  BY RemoveAtOK
<1>3. \A i \in 1 .. n - 1 : b[i] = IF i < k THEN a[i] ELSE a[i + 1]
  BY RemoveAtOK
<1> HIDE DEF b, n
<1>4. DOMAIN b = 1 .. n - 1
  BY <1>1, <1>2
<1> DEFINE at == {i \in DOMAIN a : a[i] \in T}
           f == [i \in at |-> IF i < k THEN i ELSE i - 1]
<1>5. ASSUME NEW i \in at PROVE f[i] \in DOMAIN b /\ b[f[i]] = a[i] /\ i \in 1 .. n /\ i # k
  <2>1. i \in 1 .. n /\ i # k
    BY <1>1
  <2>2. CASE i < k
    <3>1. i \in 1 .. n - 1 /\ f[i] = i
      BY <1>1, <2>1, <2>2
    <3> QED BY <1>3, <1>4, <2>1, <2>2, <3>1
  <2>3. CASE i > k
    <3>1. i - 1 \in 1 .. n - 1 /\ f[i] = i - 1 /\ ~(i - 1 < k) /\ (i - 1) + 1 = i
      BY <1>1, <2>1, <2>3
    <3>2. b[i - 1] = a[(i - 1) + 1]
      BY <1>3, <3>1
    <3> QED BY <1>4, <2>1, <3>1, <3>2
  <2> QED BY <1>1, <2>1, <2>2, <2>3
<1>6. f \in [at -> DOMAIN b]
  <2> HIDE DEF at
  <2>1. DOMAIN f = at
    OBVIOUS
  <2>2. \A i \in at : f[i] \in DOMAIN b
    BY <1>5
  <2> QED BY <2>1, <2>2
<1>7. \A i, j \in at : b[f[i]] = a[i] /\ (i < j => f[i] < f[j])
  <2> TAKE i, j \in at
  <2>1. b[f[i]] = a[i] /\ i \in 1 .. n /\ j \in 1 .. n /\ i # k /\ j # k
    BY <1>5
  <2>2. i < j => f[i] < f[j]
    <3> HIDE DEF at
    <3>1. f[i] = (IF i < k THEN i ELSE i - 1) /\ f[j] = IF j < k THEN j ELSE j - 1
      OBVIOUS
    <3> QED BY <1>1, <2>1, <3>1
  <2> QED BY <2>1, <2>2
<1> HIDE DEF f
<1>8. Kept(a, T, b)
  BY <1>6, <1>7 DEF Kept
<1> QED BY <1>2, <1>8 DEF b

(***************************************************************************)
(* The edits.                                                              *)
(***************************************************************************)

\* t is a YAML that still has the links of a set that s has.
Keeps(s, t, T) == IsSpec(t) /\ Kept(s.deps, T, t.deps) /\ Kept(s.calls, T, t.calls)

\* No link of the set goes from the first to the second of a pair.
Outside(p, T) == \A e \in T : ~(e.from = p[1] /\ e.to = p[2])

\* The types of services.
SpecTypes == {"service", "api_gateway", "database"}

\* A fix that changes nothing keeps everything.
LEMMA KeepsSelf ==
    ASSUME NEW s, IsSpec(s), NEW T
    PROVE  Keeps(s, s, T)
<1>1. s.deps \in Seq(LinkSet) /\ s.calls \in Seq(LinkSet)
  BY SpecOK
<1>2. Kept(s.deps, T, s.deps) /\ Kept(s.calls, T, s.calls)
  BY <1>1, KeptInPlace
<1> QED BY <1>2 DEF Keeps

\* What two fixes keep, both together keep.
LEMMA KeepsTwice ==
    ASSUME NEW s, IsSpec(s), NEW t, NEW u, NEW T, Keeps(s, t, T), Keeps(t, u, T)
    PROVE  Keeps(s, u, T)
<1>1. s.deps \in Seq(LinkSet) /\ s.calls \in Seq(LinkSet)
  BY SpecOK
<1>2. t.deps \in Seq(LinkSet) /\ t.calls \in Seq(LinkSet) /\ u.deps \in Seq(LinkSet) /\ u.calls \in Seq(LinkSet)
  BY SpecOK DEF Keeps
<1>3. Kept(s.deps, T, u.deps)
  BY <1>1, <1>2, KeptTwice DEF Keeps
<1>4. Kept(s.calls, T, u.calls)
  BY <1>1, <1>2, KeptTwice DEF Keeps
<1> QED BY <1>3, <1>4 DEF Keeps

\* The parts of a YAML.
LEMMA SpecParts ==
    ASSUME NEW s, IsSpec(s)
    PROVE  s = [deps |-> s.deps, calls |-> s.calls, dbs |-> s.dbs, types |-> s.types]
BY DEF IsSpec

\* What makes a YAML.
LEMMA SpecOf ==
    ASSUME NEW deps \in Seq(LinkSet), NEW calls \in Seq(LinkSet), NEW dbs, dbs = {Name(w) : w \in Listed},
           NEW types, types \in [DOMAIN types -> SpecTypes], DOMAIN types \subseteq Names,
           IsFiniteSet(DOMAIN types)
    PROVE  IsSpec([deps |-> deps, calls |-> calls, dbs |-> dbs, types |-> types])
<1>1. dbs \subseteq Names
  <2> SUFFICES ASSUME NEW w \in Listed PROVE Name(w) \in Names
    OBVIOUS
  <2>1. w \in Words
    BY FixAssumption
  <2>2. <<>> \in Seq({"split", "db", "number"} \X Nat)
    OBVIOUS
  <2> QED BY <2>1, <2>2 DEF Name, Names
<1> HIDE DEF SpecTypes
<1>2. [deps |-> deps, calls |-> calls, dbs |-> dbs, types |-> types]
        \in [deps : Seq(LinkSet), calls : Seq(LinkSet), dbs : SUBSET Names, types : {types}]
  BY <1>1
<1> QED BY <1>2 DEF IsSpec, SpecTypes

\* A YAML with other dependencies or calls.
LEMMA NewDeps ==
    ASSUME NEW s, IsSpec(s), NEW deps \in Seq(LinkSet)
    PROVE  LET t == [s EXCEPT !.deps = deps]
           IN IsSpec(t) /\ t.deps = deps /\ t.calls = s.calls /\ t.types = s.types /\ t.dbs = s.dbs
<1> DEFINE t == [s EXCEPT !.deps = deps]
<1>1. t = [deps |-> deps, calls |-> s.calls, dbs |-> s.dbs, types |-> s.types]
  BY SpecParts
<1>2. IsSpec(t)
  BY <1>1, SpecOf, SpecOK DEF IsSpec, SpecTypes
<1> QED BY <1>1, <1>2

\* A YAML with other calls.
LEMMA NewCalls ==
    ASSUME NEW s, IsSpec(s), NEW calls \in Seq(LinkSet)
    PROVE  LET t == [s EXCEPT !.calls = calls]
           IN IsSpec(t) /\ t.deps = s.deps /\ t.calls = calls /\ t.types = s.types /\ t.dbs = s.dbs
<1> DEFINE t == [s EXCEPT !.calls = calls]
<1>1. t = [deps |-> s.deps, calls |-> calls, dbs |-> s.dbs, types |-> s.types]
  BY SpecParts
<1>2. IsSpec(t)
  BY <1>1, SpecOf, SpecOK DEF IsSpec, SpecTypes
<1> QED BY <1>1, <1>2

\* A YAML with other services.
LEMMA NewTypes ==
    ASSUME NEW s, IsSpec(s), NEW types, types \in [DOMAIN types -> SpecTypes],
           DOMAIN types \subseteq Names, IsFiniteSet(DOMAIN types)
    PROVE  LET t == [s EXCEPT !.types = types]
           IN IsSpec(t) /\ t.deps = s.deps /\ t.calls = s.calls /\ t.types = types /\ t.dbs = s.dbs
<1> DEFINE t == [s EXCEPT !.types = types]
<1>1. t = [deps |-> s.deps, calls |-> s.calls, dbs |-> s.dbs, types |-> types]
  BY SpecParts
<1>2. IsSpec(t)
  BY <1>1, SpecOf, SpecOK DEF IsSpec
<1> QED BY <1>1, <1>2

\* The first link between two nodes is one.
LEMMA FirstOK ==
    ASSUME NEW links \in Seq(LinkSet), NEW p
    PROVE  LET i == First(links, p) IN
           \/ i = 0 /\ \A j \in DOMAIN links : ~(links[j].from = p[1] /\ links[j].to = p[2])
           \/ i \in DOMAIN links /\ i # 0 /\ links[i].from = p[1] /\ links[i].to = p[2]
<1> DEFINE at == {i \in 1 .. Len(links) : links[i].from = p[1] /\ links[i].to = p[2]}
<1>1. First(links, p) = IF at # {} THEN Min(at) ELSE 0
  BY DEF First, SelectInSeq
<1>2. DOMAIN links = 1 .. Len(links) /\ Len(links) \in Nat
  OBVIOUS
<1>3. CASE at = {}
  BY <1>1, <1>2, <1>3
<1>4. CASE at # {}
  <2>1. Min(at) \in at
    <3>1. at \subseteq Nat
      BY <1>2
    <3> HIDE DEF at
    <3> QED BY <1>4, <3>1, LeastOK
  <2> QED BY <1>1, <1>2, <1>4, <2>1
<1> QED BY <1>3, <1>4

\* A removal takes at most one link between the two nodes.
LEMMA RemoveDependencyOK ==
    ASSUME NEW s, IsSpec(s), NEW p, NEW T, Outside(p, T)
    PROVE  Keeps(s, RemoveDependencyOnce(s, p), T) /\ RemoveDependencyOnce(s, p).types = s.types
<1>1. s.deps \in Seq(LinkSet) /\ s.calls \in Seq(LinkSet)
  BY SpecOK
<1>2. CASE ~HasDep(s, p)
  <2>1. RemoveDependencyOnce(s, p) = s
    BY <1>2 DEF RemoveDependencyOnce
  <2> QED BY <2>1, KeepsSelf
<1>3. CASE HasDep(s, p)
  <2> DEFINE i == First(s.deps, p)
             deps == RemoveAt(s.deps, i)
  <2>1. i \in DOMAIN s.deps /\ s.deps[i].from = p[1] /\ s.deps[i].to = p[2]
    BY <1>1, <1>3, FirstOK DEF HasDep
  <2>2. s.deps[i] \notin T
    BY <2>1 DEF Outside
  <2>3. RemoveDependencyOnce(s, p) = [s EXCEPT !.deps = deps]
    BY <1>3 DEF RemoveDependencyOnce
  <2> HIDE DEF i
  <2>4. deps \in Seq(LinkSet) /\ Kept(s.deps, T, deps)
    BY <1>1, <2>1, <2>2, KeptRemove
  <2> HIDE DEF deps
  <2>5. Kept(s.calls, T, s.calls)
    BY <1>1, KeptInPlace
  <2> QED BY <2>3, <2>4, <2>5, NewDeps DEF Keeps
<1> QED BY <1>2, <1>3

\* Removing a call keeps all other links.
LEMMA RemoveCallOK ==
    ASSUME NEW s, IsSpec(s), NEW p, NEW T, Outside(p, T)
    PROVE  Keeps(s, RemoveLegacyCall(s, p), T)
<1>1. s.deps \in Seq(LinkSet) /\ s.calls \in Seq(LinkSet)
  BY SpecOK
<1>2. CASE First(s.calls, p) = 0
  <2>1. RemoveLegacyCall(s, p) = s
    BY <1>2 DEF RemoveLegacyCall
  <2> QED BY <2>1, KeepsSelf
<1>3. CASE First(s.calls, p) # 0
  <2> DEFINE i == First(s.calls, p)
             calls == RemoveAt(s.calls, i)
  <2>1. i \in DOMAIN s.calls /\ s.calls[i].from = p[1] /\ s.calls[i].to = p[2]
    BY <1>1, <1>3, FirstOK
  <2>2. s.calls[i] \notin T
    BY <2>1 DEF Outside
  <2>3. RemoveLegacyCall(s, p) = [s EXCEPT !.calls = calls]
    BY <1>3 DEF RemoveLegacyCall
  <2> HIDE DEF i
  <2>4. calls \in Seq(LinkSet) /\ Kept(s.calls, T, calls)
    BY <1>1, <2>1, <2>2, KeptRemove
  <2> HIDE DEF calls
  <2>5. Kept(s.deps, T, s.deps)
    BY <1>1, KeptInPlace
  <2> QED BY <2>3, <2>4, <2>5, NewCalls DEF Keeps
<1> QED BY <1>2, <1>3

\* Removing a dependency, or else a call, keeps all other links.
LEMMA RemoveEitherOK ==
    ASSUME NEW s, IsSpec(s), NEW p, NEW T, Outside(p, T)
    PROVE  Keeps(s, RemoveDependencyOrLegacyCall(s, p), T)
BY RemoveDependencyOK, RemoveCallOK DEF RemoveDependencyOrLegacyCall

\* Another link in the place of one that is not of the set.
LEMMA KeptReplace ==
    ASSUME NEW a \in Seq(LinkSet), NEW k \in DOMAIN a, NEW T, a[k] \notin T, NEW e \in LinkSet
    PROVE  [a EXCEPT ![k] = e] \in Seq(LinkSet) /\ Kept(a, T, [a EXCEPT ![k] = e])
<1> DEFINE b == [a EXCEPT ![k] = e]
<1>1. b \in Seq(LinkSet) /\ DOMAIN b = DOMAIN a /\ \A i \in DOMAIN a : a[i] \in T => b[i] = a[i]
  OBVIOUS
<1> HIDE DEF b
<1>2. Kept(a, T, b)
  BY <1>1, KeptInPlace
<1> QED BY <1>1, <1>2 DEF b

\* Making a dependency asynchronous keeps all other links.
LEMMA SetAsyncOK ==
    ASSUME NEW s, IsSpec(s), NEW p, NEW T, Outside(p, T)
    PROVE  Keeps(s, SetAsync(s, p), T)
<1>1. s.deps \in Seq(LinkSet) /\ s.calls \in Seq(LinkSet)
  BY SpecOK
<1>2. CASE ~HasDep(s, p)
  <2>1. SetAsync(s, p) = s
    BY <1>2 DEF SetAsync
  <2> QED BY <2>1, KeepsSelf
<1>3. CASE HasDep(s, p)
  <2> DEFINE i == First(s.deps, p)
             e == [s.deps[i] EXCEPT !.sync = FALSE]
             deps == [s.deps EXCEPT ![i] = e]
  <2>1. i \in DOMAIN s.deps /\ s.deps[i].from = p[1] /\ s.deps[i].to = p[2]
    BY <1>1, <1>3, FirstOK DEF HasDep
  <2>2. s.deps[i] \notin T
    BY <2>1 DEF Outside
  <2>3. SetAsync(s, p) = [s EXCEPT !.deps = deps]
    <3>1. SetAsync(s, p) = [s EXCEPT !.deps[i].sync = FALSE]
      BY <1>3 DEF SetAsync
    <3> HIDE DEF i
    <3> QED BY <3>1, SpecParts
  <2> HIDE DEF i
  <2>4. s.deps[i] \in LinkSet
    BY <1>1, <2>1
  <2>5. e \in LinkSet
    BY <2>4 DEF LinkSet
  <2> HIDE DEF e
  <2>6. deps \in Seq(LinkSet) /\ Kept(s.deps, T, deps)
    BY <1>1, <2>1, <2>2, <2>5, KeptReplace
  <2> HIDE DEF deps
  <2>7. Kept(s.calls, T, s.calls)
    BY <1>1, KeptInPlace
  <2> QED BY <2>3, <2>6, <2>7, NewDeps DEF Keeps
<1> QED BY <1>2, <1>3

\* What adds a link or a service keeps all others.
LEMMA AddDependencyOK ==
    ASSUME NEW s, IsSpec(s), NEW a \in Names, NEW b \in Names, NEW sync \in BOOLEAN, NEW T
    PROVE  /\ Keeps(s, AddDependencyIfMissing(s, <<a, b>>, sync), T)
           /\ AddDependencyIfMissing(s, <<a, b>>, sync).types = s.types
<1>1. s.deps \in Seq(LinkSet) /\ s.calls \in Seq(LinkSet)
  BY SpecOK
<1>2. CASE HasDep(s, <<a, b>>)
  <2>1. AddDependencyIfMissing(s, <<a, b>>, sync) = s
    BY <1>2 DEF AddDependencyIfMissing
  <2> QED BY <2>1, KeepsSelf
<1>3. CASE ~HasDep(s, <<a, b>>)
  <2> DEFINE e == Link(a, b, sync)
             deps == Append(s.deps, e)
  <2>1. AddDependencyIfMissing(s, <<a, b>>, sync) = [s EXCEPT !.deps = deps]
    BY <1>3 DEF AddDependencyIfMissing
  <2>2. e \in LinkSet
    BY DEF Link, LinkSet
  <2> HIDE DEF e
  <2>3. deps \in Seq(LinkSet) /\ Kept(s.deps, T, deps)
    BY <1>1, <2>2, KeptAppend
  <2> HIDE DEF deps
  <2>4. Kept(s.calls, T, s.calls)
    BY <1>1, KeptInPlace
  <2> DEFINE t == [s EXCEPT !.deps = deps]
  <2>5. IsSpec(t) /\ t.deps = deps /\ t.calls = s.calls /\ t.types = s.types
    BY <2>3, NewDeps
  <2> HIDE DEF t
  <2>6. Keeps(s, t, T)
    BY <2>3, <2>4, <2>5 DEF Keeps
  <2> QED BY <2>1, <2>5, <2>6 DEF t
<1> QED BY <1>2, <1>3

\* Adding a service keeps all links and the types of the others.
LEMMA EnsureTypeOK ==
    ASSUME NEW s, IsSpec(s), NEW n \in Names, NEW type \in SpecTypes, NEW T
    PROVE  LET t == EnsureType(s, n, type) IN
           /\ Keeps(s, t, T) /\ t.deps = s.deps /\ t.calls = s.calls
           /\ DOMAIN t.types = DOMAIN s.types \cup {n}
           /\ \A m \in DOMAIN s.types : t.types[m] = s.types[m]
           /\ n \notin DOMAIN s.types => t.types[n] = type
<1> DEFINE t == EnsureType(s, n, type)
<1>1. s.deps \in Seq(LinkSet) /\ s.calls \in Seq(LinkSet)
  BY SpecOK
<1>2. CASE n \in DOMAIN s.types
  <2>1. t = s
    BY <1>2 DEF EnsureType
  <2> HIDE DEF t
  <2> QED BY <1>2, <2>1, KeepsSelf DEF t
<1>3. CASE n \notin DOMAIN s.types
  <2> DEFINE types == Put(s.types, n, type)
  <2>1. t = [s EXCEPT !.types = types]
    BY <1>3 DEF EnsureType
  <2>2. /\ types \in [DOMAIN s.types \cup {n} -> SpecTypes] /\ DOMAIN types = DOMAIN s.types \cup {n}
        /\ \A m \in DOMAIN s.types : types[m] = s.types[m]
        /\ types[n] = type
    BY <1>3 DEF Put, IsSpec, SpecTypes
  <2>3. IsFiniteSet(DOMAIN types) /\ DOMAIN types \subseteq Names
    <3>1. IsFiniteSet(DOMAIN s.types) /\ DOMAIN s.types \subseteq Names
      BY DEF IsSpec
    <3> HIDE DEF types
    <3> QED BY <2>2, <3>1, FS_AddElement
  <2> HIDE DEF types
  <2>4. types \in [DOMAIN types -> SpecTypes]
    BY <2>2
  <2>5. IsSpec(t) /\ t.deps = s.deps /\ t.calls = s.calls /\ t.types = types
    BY <2>1, <2>3, <2>4, NewTypes
  <2>6. Kept(s.deps, T, s.deps) /\ Kept(s.calls, T, s.calls)
    BY <1>1, KeptInPlace
  <2> HIDE DEF t
  <2> QED BY <1>3, <2>2, <2>5, <2>6 DEF t, Keeps
<1> QED BY <1>2, <1>3

\* Turned round, a link still is between the same two nodes.
LEMMA FlipOK ==
    ASSUME NEW s, IsSpec(s), NEW from \in Names, NEW to \in Names, NEW T, Outside(<<from, to>>, T)
    PROVE  Keeps(s, Flip(s, from, to), T)
<1> DEFINE i == First(s.deps, <<from, to>>)
           less == RemoveDependencyOnce(s, <<from, to>>)
           uncalled == RemoveLegacyCall(s, <<from, to>>)
           cut == EnsureType(uncalled, to, "service")
<1>1. s.deps \in Seq(LinkSet) /\ s.calls \in Seq(LinkSet)
  BY SpecOK
<1>2. CASE i # 0
  <2>1. Flip(s, from, to) = AddDependencyIfMissing(less, <<to, from>>, s.deps[i].sync)
    BY <1>2 DEF Flip
  <2>2. Keeps(s, less, T)
    BY RemoveDependencyOK
  <2>3. s.deps[i] \in LinkSet
    BY <1>1, <1>2, FirstOK
  <2>4. s.deps[i].sync \in BOOLEAN
    BY <2>3 DEF LinkSet
  <2> HIDE DEF less, i
  <2>5. IsSpec(less)
    BY <2>2 DEF Keeps
  <2>6. Keeps(less, AddDependencyIfMissing(less, <<to, from>>, s.deps[i].sync), T)
    BY <2>4, <2>5, AddDependencyOK
  <2> QED BY <2>1, <2>2, <2>6, KeepsTwice
<1>3. CASE i = 0 /\ First(s.calls, <<from, to>>) = 0
  <2>1. Flip(s, from, to) = s
    BY <1>3 DEF Flip
  <2> QED BY <2>1, KeepsSelf
<1>4. CASE i = 0 /\ First(s.calls, <<from, to>>) # 0
  <2> DEFINE calls == Append(cut.calls, Link(to, from, TRUE))
  <2>1. Flip(s, from, to) = IF First(cut.calls, <<to, from>>) # 0 THEN cut ELSE [cut EXCEPT !.calls = calls]
    BY <1>4 DEF Flip
  <2>2. Keeps(s, uncalled, T)
    BY RemoveCallOK
  <2> HIDE DEF uncalled
  <2>3. Keeps(uncalled, cut, T)
    BY <2>2, EnsureTypeOK DEF Keeps, SpecTypes
  <2> HIDE DEF cut
  <2>4. Keeps(s, cut, T)
    BY <2>2, <2>3, KeepsTwice
  <2>5. IsSpec(cut) /\ cut.deps \in Seq(LinkSet) /\ cut.calls \in Seq(LinkSet)
    BY <2>4, SpecOK DEF Keeps
  <2>6. calls \in Seq(LinkSet) /\ Kept(cut.calls, T, calls)
    <3>1. Link(to, from, TRUE) \in LinkSet
      BY DEF Link, LinkSet
    <3> QED BY <2>5, <3>1, KeptAppend
  <2> HIDE DEF calls
  <2>7. Kept(cut.deps, T, cut.deps)
    BY <2>5, KeptInPlace
  <2>8. Keeps(cut, [cut EXCEPT !.calls = calls], T)
    BY <2>5, <2>6, <2>7, NewCalls DEF Keeps
  <2>9. Keeps(s, [cut EXCEPT !.calls = calls], T)
    BY <2>4, <2>8, KeepsTwice
  <2> QED BY <2>1, <2>4, <2>9
<1> QED BY <1>2, <1>3, <1>4

\* What a suffix tells.
Uses == {"split", "db", "number"} \X Nat

\* Names are closed under what the fixes append.
LEMMA SuffixedOK ==
    ASSUME NEW n \in Names, NEW use \in Uses
    PROVE  /\ Suffixed(n, use) \in Names
           /\ Suffixed(n, use) = [word |-> n.word, tail |-> Append(n.tail, use)]
           /\ n.tail \in Seq(Uses)
<1>1. n = [word |-> n.word, tail |-> n.tail] /\ n.word \in Words \cup {"bff"} /\ n.tail \in Seq(Uses)
  BY DEF Names, Uses
<1>2. Suffixed(n, use) = [word |-> n.word, tail |-> Append(n.tail, use)]
  <2> DEFINE tail == Append(n.tail, use)
  <2>1. Suffixed(n, use) = [n EXCEPT !.tail = tail]
    BY DEF Suffixed
  <2> HIDE DEF tail
  <2> QED BY <1>1, <2>1 DEF tail
<1>3. Append(n.tail, use) \in Seq(Uses)
  BY <1>1
<1> QED BY <1>1, <1>2, <1>3 DEF Names, Uses

\* The numbers that tell names apart.
NameNumbers == 1 .. 49 \cup {999}

\* A name is new while fewer than fifty are taken.
LEMMA UniqueOK ==
    ASSUME NEW s, NEW n \in Names
    PROVE  LET u == UniqueServiceName(s, n) IN
           /\ u \in Names
           /\ u = n \/ \E k \in NameNumbers : u = Suffixed(n, <<"number", k>>)
           /\ u \notin DOMAIN s.types \/ u = Suffixed(n, <<"number", 999>>)
<1> DEFINE Numbered(k) == Suffixed(n, <<"number", k>>)
           free == {k \in 1 .. 49 : Numbered(k) \notin DOMAIN s.types} \cup {999}
           u == UniqueServiceName(s, n)
<1>1. u = IF n \notin DOMAIN s.types THEN n ELSE Numbered(Min(free))
  BY DEF UniqueServiceName
<1>2. \A k \in free : k \in Nat /\ k \in NameNumbers /\ (k = 999 \/ Numbered(k) \notin DOMAIN s.types)
  <2> HIDE DEF Numbered
  <2> QED BY DEF NameNumbers
<1>3. Min(free) \in free
  <2>1. free \subseteq Nat /\ free # {}
    BY <1>2
  <2> HIDE DEF free
  <2> QED BY <2>1, LeastOK
<1> HIDE DEF free
<1>4. \A k \in Nat : Numbered(k) \in Names
  <2> SUFFICES ASSUME NEW k \in Nat PROVE Numbered(k) \in Names
    OBVIOUS
  <2>1. <<"number", k>> \in Uses
    BY DEF Uses
  <2> QED BY <2>1, SuffixedOK
<1> HIDE DEF u
<1>5. CASE n \notin DOMAIN s.types
  BY <1>1, <1>5 DEF u
<1>6. CASE n \in DOMAIN s.types
  <2>1. /\ u = Numbered(Min(free)) /\ Min(free) \in Nat /\ Min(free) \in NameNumbers
        /\ Min(free) = 999 \/ u \notin DOMAIN s.types
    BY <1>1, <1>2, <1>3, <1>6
  <2> DEFINE k == Min(free)
  <2> HIDE DEF k
  <2>2. k \in Nat /\ k \in NameNumbers /\ u = Numbered(k) /\ (k = 999 \/ u \notin DOMAIN s.types)
    BY <2>1 DEF k
  <2> QED BY <1>4, <2>2 DEF u
<1> QED BY <1>5, <1>6

\* A link that a fix is about.
About(d, e) == e.from \in Range(d.nodes) /\ (e.to \in Range(d.nodes) \/ d.kind = "god_service")

\* The fix of a detection is not about any link of the set.
Spares(d, T) == \A e \in T : ~About(d, e)

\* Nodes as they come with a detection.
Between(nodes, T) == \A e \in T : ~(e.from \in Range(nodes) /\ e.to \in Range(nodes))

\* A link between two nodes of a detection is not among those to be kept.
LEMMA BetweenOutside ==
    ASSUME NEW nodes, NEW T, Between(nodes, T), NEW i \in DOMAIN nodes, NEW j \in DOMAIN nodes
    PROVE  Outside(<<nodes[i], nodes[j]>>, T)
BY DEF Between, Outside, Range

\* The fix of a cycle keeps the links that are not between its services.
LEMMA BreakCycleOK ==
    ASSUME NEW s, IsSpec(s), NEW nodes \in Seq(Names), NEW T, Between(nodes, T)
    PROVE  Keeps(s, BreakCycle(s, nodes), T)
<1> DEFINE X == {p \in Names \X Names : Outside(p, T)}
           pairs == FlattenSeq([i \in DOMAIN nodes |-> [j \in DOMAIN nodes |-> <<nodes[i], nodes[j]>>]])
           P == {p \in Range(pairs) : p[1] # p[2]}
           tried == Only(pairs, P)
           changing == {i \in DOMAIN tried : RemoveDependencyOnce(s, tried[i]) # s}
<1>1. pairs \in Seq(X)
  <2> DEFINE Row(i) == [j \in DOMAIN nodes |-> <<nodes[i], nodes[j]>>]
             rows == [i \in DOMAIN nodes |-> Row(i)]
  <2>1. DOMAIN nodes = 1 .. Len(nodes) /\ Len(nodes) \in Nat
    OBVIOUS
  <2>2. ASSUME NEW i \in 1 .. Len(nodes) PROVE Row(i) \in Seq(X)
    <3>1. \A j \in 1 .. Len(nodes) : <<nodes[i], nodes[j]>> \in X
      BY <2>1, BetweenOutside
    <3> HIDE DEF X
    <3> QED BY <2>1, <3>1
  <2> HIDE DEF Row, X
  <2>3. rows \in Seq(Seq(X))
    <3> DEFINE Y == Seq(X)
    <3>1. \A i \in 1 .. Len(nodes) : Row(i) \in Y
      BY <2>2
    <3> HIDE DEF Y
    <3>2. rows \in Seq(Y)
      BY <2>1, <3>1
    <3> QED BY <3>2 DEF Y
  <2>4. pairs = FlattenSeq(rows)
    BY DEF Row
  <2> HIDE DEF rows, pairs
  <2> QED BY <2>3, <2>4, FlattenOK
<1>2. tried \in Seq(X)
  <2> HIDE DEF X, pairs, P
  <2>1. tried \in Seq(X \cap P)
    BY <1>1, OnlyOK
  <2> QED BY <2>1, SeqMonotonic
<1>3. BreakCycle(s, nodes) = IF changing = {} THEN s ELSE RemoveDependencyOnce(s, tried[Min(changing)])
  BY DEF BreakCycle, FirstThatChanges
<1> HIDE DEF tried
<1>4. CASE changing = {}
  BY <1>3, <1>4, KeepsSelf
<1>5. CASE changing # {}
  <2>1. changing \subseteq Nat /\ changing \subseteq DOMAIN tried
    BY <1>2
  <2> HIDE DEF changing
  <2>2. Min(changing) \in DOMAIN tried
    BY <1>5, <2>1, LeastOK
  <2>3. Outside(tried[Min(changing)], T)
    BY <1>2, <2>2
  <2> QED BY <1>3, <1>5, <2>3, RemoveDependencyOK
<1> QED BY <1>4, <1>5

\* The fix of a ping-pong keeps all links that are not between the two services.
LEMMA DropLegOK ==
    ASSUME NEW s, IsSpec(s), NEW nodes \in Seq(Names), Len(nodes) >= 2, NEW T, Between(nodes, T)
    PROVE  Keeps(s, DropLeg(s, nodes), T)
<1> DEFINE ab == <<nodes[1], nodes[2]>>
           ba == <<nodes[2], nodes[1]>>
           pairs == IF ~IsUIName(nodes[1]) /\ IsUIName(nodes[2]) THEN <<ab, ba>> ELSE <<ba, ab>>
           changing == {i \in DOMAIN pairs : RemoveDependencyOrLegacyCall(s, pairs[i]) # s}
<1>1. DropLeg(s, nodes) = IF changing = {} THEN s ELSE RemoveDependencyOrLegacyCall(s, pairs[Min(changing)])
  BY DEF DropLeg, FirstThatChanges
<1>2. Outside(ab, T) /\ Outside(ba, T)
  <2>1. 1 \in DOMAIN nodes /\ 2 \in DOMAIN nodes
    OBVIOUS
  <2> QED BY <2>1, BetweenOutside
<1> HIDE DEF ab, ba
<1>3. DOMAIN pairs = {1, 2} /\ \A i \in DOMAIN pairs : Outside(pairs[i], T)
  BY <1>2
<1> HIDE DEF pairs
<1>4. CASE changing = {}
  BY <1>1, <1>4, KeepsSelf
<1>5. CASE changing # {}
  <2>1. changing \subseteq Nat /\ changing \subseteq DOMAIN pairs
    BY <1>3
  <2> HIDE DEF changing
  <2>2. Min(changing) \in DOMAIN pairs
    BY <1>5, <2>1, LeastOK
  <2> QED BY <1>1, <1>3, <1>5, <2>2, RemoveEitherOK
<1> QED BY <1>4, <1>5

\* The fix of a tight coupling keeps all links that are not between the two services.
LEMMA LoosenOK ==
    ASSUME NEW s, IsSpec(s), NEW nodes \in Seq(Names), Len(nodes) >= 2, NEW T, Between(nodes, T)
    PROVE  Keeps(s, Loosen(s, nodes), T)
<1> DEFINE ab == <<nodes[1], nodes[2]>>
           ba == <<nodes[2], nodes[1]>>
           pairs == <<ba, ab>>
           changing == {i \in DOMAIN pairs : SetAsync(s, pairs[i]) # s}
<1>1. Loosen(s, nodes) = IF changing = {} THEN s ELSE SetAsync(s, pairs[Min(changing)])
  BY DEF Loosen, FirstThatChanges
<1>2. Outside(ab, T) /\ Outside(ba, T)
  <2>1. 1 \in DOMAIN nodes /\ 2 \in DOMAIN nodes
    OBVIOUS
  <2> QED BY <2>1, BetweenOutside
<1> HIDE DEF ab, ba
<1>3. DOMAIN pairs = {1, 2} /\ \A i \in DOMAIN pairs : Outside(pairs[i], T)
  BY <1>2
<1> HIDE DEF pairs
<1>4. CASE changing = {}
  BY <1>1, <1>4, KeepsSelf
<1>5. CASE changing # {}
  <2>1. changing \subseteq Nat /\ changing \subseteq DOMAIN pairs
    BY <1>3
  <2> HIDE DEF changing
  <2>2. Min(changing) \in DOMAIN pairs
    BY <1>5, <2>1, LeastOK
  <2> QED BY <1>1, <1>3, <1>5, <2>2, SetAsyncOK
<1> QED BY <1>4, <1>5

\* The fix of a chain keeps all links that are not between its services.
LEMMA CutChainOK ==
    ASSUME NEW s, IsSpec(s), NEW nodes \in Seq(Names), Len(nodes) >= 2, NEW T, Between(nodes, T)
    PROVE  Keeps(s, CutChain(s, nodes), T)
<1> DEFINE mid == (Len(nodes) - 2) \div 2 + 1
<1>1. Len(nodes) \in Nat /\ DOMAIN nodes = 1 .. Len(nodes)
  OBVIOUS
<1>2. mid \in 1 .. Len(nodes) /\ mid + 1 \in 1 .. Len(nodes)
  BY <1>1
<1>3. CutChain(s, nodes) = SetAsync(s, <<nodes[mid], nodes[mid + 1]>>)
  BY DEF CutChain
<1> HIDE DEF mid
<1>4. Outside(<<nodes[mid], nodes[mid + 1]>>, T)
  BY <1>1, <1>2, BetweenOutside
<1> QED BY <1>3, <1>4, SetAsyncOK

\* The YAMLs.
SpecSet ==
    {s \in [deps : Seq(LinkSet), calls : Seq(LinkSet), dbs : SUBSET Names,
            types : UNION {[X -> SpecTypes] : X \in SUBSET Names}] : IsSpec(s)}

\* The YAMLs are a set.
LEMMA SpecSetOK ==
    ASSUME NEW s
    PROVE  s \in SpecSet <=> IsSpec(s)
<1>1. ASSUME IsSpec(s) PROVE s \in SpecSet
  <2>1. s.types \in [DOMAIN s.types -> SpecTypes] /\ DOMAIN s.types \in SUBSET Names
    BY <1>1 DEF IsSpec, SpecTypes
  <2>2. s.types \in UNION {[X -> SpecTypes] : X \in SUBSET Names}
    BY <2>1
  <2>3. s \in [deps : Seq(LinkSet), calls : Seq(LinkSet), dbs : SUBSET Names, types : {s.types}]
    BY <1>1 DEF IsSpec
  <2> HIDE DEF SpecTypes
  <2> DEFINE X == UNION {[Y -> SpecTypes] : Y \in SUBSET Names}
  <2>4. s.types \in X
    BY <2>2
  <2> HIDE DEF X
  <2>5. s \in [deps : Seq(LinkSet), calls : Seq(LinkSet), dbs : SUBSET Names, types : X]
    BY <2>3, <2>4
  <2> QED BY <1>1, <2>5 DEF SpecSet, X
<1>2. ASSUME s \in SpecSet PROVE IsSpec(s)
  BY <1>2 DEF SpecSet
<1> QED BY <1>1, <1>2

\* The calls of a god service at these places begin at another service.
Halved(s, split, moved) ==
    [EnsureType(s, split, "service") EXCEPT !.deps =
       [i \in DOMAIN s.deps |-> IF i \in moved THEN [s.deps[i] EXCEPT !.from = split] ELSE s.deps[i]]]

\* What a god service's fix does: nothing, or it moves some of the service's calls to another
\* service, which the god service then calls.
LEMMA SplitGodShape ==
    ASSUME NEW s, IsSpec(s), NEW nodes \in Seq(Names), Len(nodes) = 1
    PROVE  \/ SplitGod(s, nodes) = s
           \/ \E split \in Names, moved \in SUBSET {i \in DOMAIN s.deps : s.deps[i].from = nodes[1]} :
                SplitGod(s, nodes) = AddDependencyIfMissing(Halved(s, split, moved), <<nodes[1], split>>, TRUE)
<1> DEFINE main == nodes[1]
           places == [i \in DOMAIN s.deps |-> i]
           from == {i \in DOMAIN s.deps : s.deps[i].from = main}
           outs == Only(places, from)
           n == Len(outs)
           moved == Range(SubSeq(outs, n \div 2 + 1, n))
           split == UniqueServiceName(s, Suffixed(main, <<"split", 0>>))
<1>1. s.deps \in Seq(LinkSet) /\ s.calls \in Seq(LinkSet) /\ main \in Names
  <2>1. main \in Names
    OBVIOUS
  <2> QED BY <2>1, SpecOK
<1>2. split \in Names
  <2>1. <<"split", 0>> \in Uses
    BY DEF Uses
  <2> QED BY <1>1, <2>1, SuffixedOK, UniqueOK
<1>3. moved \subseteq from
  <2>1. places \in Seq(DOMAIN s.deps)
    BY <1>1
  <2> HIDE DEF places
  <2>2. outs \in Seq(DOMAIN s.deps \cap from)
    <3> HIDE DEF from
    <3> QED BY <2>1, OnlyOK
  <2>3. outs \in Seq(from)
    BY <2>2
  <2> HIDE DEF outs, from
  <2>4. n \in Nat /\ DOMAIN outs = 1 .. n /\ \A i \in 1 .. n : outs[i] \in from
    BY <2>3
  <2> HIDE DEF n
  <2>5. n \div 2 + 1 \in 1 .. n + 1
    BY <2>4
  <2> DEFINE half == n \div 2 + 1
             later == SubSeq(outs, half, n)
  <2> HIDE DEF half
  <2>9. half \in 1 .. Len(outs) + 1 /\ n \in 0 .. Len(outs)
    BY <2>4, <2>5 DEF n, half
  <2>6. Len(later) = n - half + 1 /\ \A i \in 1 .. n - half + 1 : later[i] = outs[half + i - 1]
    <3>1. /\ Len(later) = IF half <= n THEN n - half + 1 ELSE 0
          /\ \A i \in 1 .. n - half + 1 : later[i] = outs[half + i - 1]
      BY <2>3, <2>9, SubSeqProperties
    <3>2. half <= n \/ n - half + 1 = 0
      BY <2>4, <2>5 DEF half
    <3> HIDE DEF later
    <3> QED BY <3>1, <3>2
  <2>7. DOMAIN later = 1 .. n - half + 1
    <3>1. later \in Seq(from)
      BY <2>3, <2>9, SubSeqProperties
    <3> HIDE DEF later
    <3> QED BY <2>6, <3>1
  <2> HIDE DEF later
  <2>8. \A i \in DOMAIN later : half + i - 1 \in 1 .. n
    BY <2>4, <2>5, <2>7 DEF half
  <2> QED BY <2>4, <2>6, <2>7, <2>8 DEF half, later, Range
<1>4. SplitGod(s, nodes) = IF n < 2 THEN s ELSE AddDependencyIfMissing(Halved(s, split, moved), <<main, split>>, TRUE)
  <2> DEFINE typed == EnsureType(s, split, "service")
             again == [EnsureType(s, split, "service") EXCEPT !.deps =
                     [i \in DOMAIN @ |-> IF i \in moved THEN [@[i] EXCEPT !.from = split] ELSE @[i]]]
  <2>1. typed.deps = s.deps
    BY <1>2, EnsureTypeOK DEF SpecTypes
  <2>2. SplitGod(s, nodes) = IF n < 2 THEN s ELSE AddDependencyIfMissing(again, <<main, split>>, TRUE)
    BY DEF SplitGod
  <2>3. again = Halved(s, split, moved)
    <3> HIDE DEF moved, split
    <3> QED BY <2>1 DEF Halved
  <2> HIDE DEF again
  <2> QED BY <2>2, <2>3
<1> HIDE DEF moved, split, n, from
<1>5. CASE n < 2
  BY <1>4, <1>5
<1>6. CASE ~(n < 2)
  <2>1. moved \in SUBSET from
    BY <1>3
  <2> QED BY <1>2, <1>4, <1>6, <2>1 DEF from
<1> QED BY <1>5, <1>6

\* The dependencies afterwards; links that do not begin at the god service stay.
IsHalved(s, t, main, split, moved) ==
    /\ IsSpec(t) /\ t.calls = s.calls /\ t.deps \in Seq(LinkSet)
    /\ t.deps = [i \in DOMAIN s.deps |-> IF i \in moved THEN [s.deps[i] EXCEPT !.from = split] ELSE s.deps[i]]
    /\ DOMAIN t.types = DOMAIN s.types \cup {split}
    /\ \A T : (\A e \in T : e.from # main) => Keeps(s, t, T)

\* Only calls of the god service are moved.
LEMMA HalvedOK ==
    ASSUME NEW s, IsSpec(s), NEW split \in Names, NEW main,
           NEW moved, \A i \in moved : s.deps[i].from = main
    PROVE  IsHalved(s, Halved(s, split, moved), main, split, moved)
<1> DEFINE typed == EnsureType(s, split, "service")
           deps == [i \in DOMAIN s.deps |-> IF i \in moved THEN [s.deps[i] EXCEPT !.from = split] ELSE s.deps[i]]
           t == Halved(s, split, moved)
<1>1. s.deps \in Seq(LinkSet) /\ s.calls \in Seq(LinkSet)
  BY SpecOK
<1>2. t = [typed EXCEPT !.deps = deps]
  BY DEF Halved
<1>3. deps \in Seq(LinkSet)
  <2>1. ASSUME NEW i \in DOMAIN s.deps PROVE deps[i] \in LinkSet
    <3>1. s.deps[i] \in LinkSet
      BY <1>1
    <3>2. [s.deps[i] EXCEPT !.from = split] \in LinkSet
      BY <3>1 DEF LinkSet
    <3> QED BY <3>1, <3>2
  <2>2. DOMAIN s.deps = 1 .. Len(s.deps) /\ Len(s.deps) \in Nat /\ DOMAIN deps = DOMAIN s.deps
    BY <1>1
  <2>3. deps = [i \in DOMAIN s.deps |-> deps[i]]
    OBVIOUS
  <2> HIDE DEF deps
  <2> DEFINE m == Len(s.deps)
  <2>4. m \in Nat /\ deps \in [1 .. m -> LinkSet]
    BY <2>1, <2>2, <2>3
  <2> HIDE DEF m
  <2> QED BY <2>4
<1>4. DOMAIN deps = DOMAIN s.deps /\ \A i \in DOMAIN s.deps \ moved : deps[i] = s.deps[i]
  OBVIOUS
<1>5. IsSpec(typed) /\ typed.deps = s.deps /\ typed.calls = s.calls /\ DOMAIN typed.types = DOMAIN s.types \cup {split}
  BY EnsureTypeOK DEF SpecTypes, Keeps
<1> HIDE DEF typed, deps, t
<1>6. IsSpec(t) /\ t.deps = deps /\ t.calls = s.calls /\ t.types = typed.types
  BY <1>2, <1>3, <1>5, NewDeps
<1>7. ASSUME NEW T, \A e \in T : e.from # main PROVE Keeps(s, t, T)
  <2>1. \A i \in DOMAIN s.deps : s.deps[i] \in T => deps[i] = s.deps[i]
    BY <1>4, <1>7
  <2>2. Kept(s.deps, T, deps)
    BY <1>1, <1>4, <2>1, KeptInPlace
  <2>3. Kept(s.calls, T, s.calls)
    BY <1>1, KeptInPlace
  <2> QED BY <1>6, <2>2, <2>3 DEF Keeps
<1> QED BY <1>3, <1>5, <1>6, <1>7 DEF t, deps, IsHalved

\* What does not begin at the service whose calls are split stays.
LEMMA SplitGodOK ==
    ASSUME NEW s, IsSpec(s), NEW nodes \in Seq(Names), Len(nodes) = 1, NEW T,
           \A e \in T : e.from # nodes[1]
    PROVE  Keeps(s, SplitGod(s, nodes), T)
<1>1. CASE SplitGod(s, nodes) = s
  BY <1>1, KeepsSelf
<1>2. CASE SplitGod(s, nodes) # s
  <2> DEFINE main == nodes[1]
             from == {i \in DOMAIN s.deps : s.deps[i].from = main}
  <2>1. PICK split \in Names, moved \in SUBSET from :
          SplitGod(s, nodes) = AddDependencyIfMissing(Halved(s, split, moved), <<main, split>>, TRUE)
    BY <1>2, SplitGodShape
  <2> DEFINE halved == Halved(s, split, moved)
  <2>2. main \in Names
    OBVIOUS
  <2>3. IsSpec(halved) /\ Keeps(s, halved, T)
    <3>1. \A i \in moved : s.deps[i].from = main
      OBVIOUS
    <3> HIDE DEF main
    <3>2. IsHalved(s, halved, main, split, moved)
      BY <3>1, HalvedOK
    <3>3. \A e \in T : e.from # main
      BY DEF main
    <3> HIDE DEF halved
    <3> QED BY <3>2, <3>3 DEF IsHalved
  <2> HIDE DEF halved, main
  <2>4. Keeps(halved, AddDependencyIfMissing(halved, <<main, split>>, TRUE), T)
    BY <2>2, <2>3, AddDependencyOK
  <2> QED BY <2>1, <2>3, <2>4, KeepsTwice DEF halved
<1> QED BY <1>1, <1>2

\* One client of a shared database gets its own.
MoveClient(t, c, shared) ==
    LET own == UniqueServiceName(t, Suffixed(c, <<"db", 0>>))
    IN IF ~HasDep(t, <<c, shared>>) THEN t
       ELSE [EnsureType(t, own, "database") EXCEPT !.deps[First(t.deps, <<c, shared>>)].to = own]

\* Giving a client its own database keeps all links but that to the shared one.
LEMMA MoveClientOK ==
    ASSUME NEW t, IsSpec(t), NEW c \in Names, NEW shared \in Names, NEW T, Outside(<<c, shared>>, T)
    PROVE  Keeps(t, MoveClient(t, c, shared), T)
<1> DEFINE own == UniqueServiceName(t, Suffixed(c, <<"db", 0>>))
           i == First(t.deps, <<c, shared>>)
           typed == EnsureType(t, own, "database")
           e == [t.deps[i] EXCEPT !.to = own]
           deps == [t.deps EXCEPT ![i] = e]
<1>1. t.deps \in Seq(LinkSet) /\ t.calls \in Seq(LinkSet)
  BY SpecOK
<1>2. own \in Names
  <2>1. <<"db", 0>> \in Uses
    BY DEF Uses
  <2> QED BY <2>1, SuffixedOK, UniqueOK
<1>3. CASE ~HasDep(t, <<c, shared>>)
  <2>1. MoveClient(t, c, shared) = t
    BY <1>3 DEF MoveClient
  <2> QED BY <2>1, KeepsSelf
<1>4. CASE HasDep(t, <<c, shared>>)
  <2>1. MoveClient(t, c, shared) = [typed EXCEPT !.deps[i].to = own]
    BY <1>4 DEF MoveClient
  <2>2. i \in DOMAIN t.deps /\ t.deps[i].from = c /\ t.deps[i].to = shared
    BY <1>1, <1>4, FirstOK DEF HasDep
  <2> HIDE DEF own, i
  <2>3. IsSpec(typed) /\ typed.deps = t.deps /\ typed.calls = t.calls
    BY <1>2, EnsureTypeOK DEF SpecTypes, Keeps
  <2> HIDE DEF typed
  <2>4. MoveClient(t, c, shared) = [typed EXCEPT !.deps = deps]
    BY <2>1, <2>3, SpecParts
  <2>5. t.deps[i] \in LinkSet /\ t.deps[i] \notin T
    BY <1>1, <2>2 DEF Outside
  <2>6. e \in LinkSet
    BY <1>2, <2>5 DEF LinkSet
  <2> HIDE DEF e
  <2>7. deps \in Seq(LinkSet) /\ Kept(t.deps, T, deps)
    BY <1>1, <2>2, <2>5, <2>6, KeptReplace
  <2> HIDE DEF deps
  <2> DEFINE u == [typed EXCEPT !.deps = deps]
  <2>8. IsSpec(u) /\ u.deps = deps /\ u.calls = t.calls
    BY <2>3, <2>7, NewDeps
  <2> HIDE DEF u
  <2>9. Keeps(t, u, T)
    BY <1>1, <2>7, <2>8, KeptInPlace DEF Keeps
  <2> QED BY <2>4, <2>9 DEF u
<1> QED BY <1>3, <1>4

\* The shared database leaves services, if a client has moved.
Unshared(s, all, nodes) ==
    IF Len(nodes) < 3 \/ all = s THEN s
    ELSE [all EXCEPT !.types = [n \in DOMAIN @ \ {nodes[1]} |-> @[n]]]

\* The clients of a shared database are moved one after another.
LEMMA MovedRecursion ==
    ASSUME NEW s, IsSpec(s), NEW nodes \in Seq(Names), Len(nodes) >= 1
    PROVE  \E moved :
             /\ moved[1] = s
             /\ \A i \in 2 .. Len(nodes) : moved[i] = MoveClient(moved[i - 1], nodes[i], nodes[1])
             /\ SplitFrom(s, nodes) = Unshared(s, moved[Len(nodes)], nodes)
<1> DEFINE n == Len(nodes)
           shared == nodes[1]
           step == [p \in SpecSet \X (1 + 1 .. n) |-> MoveClient(p[1], nodes[p[2]], shared)]
           Solves(f) == f = [i \in 1 .. n |-> IF i = 1 THEN s ELSE MoveClient(f[i - 1], nodes[i], shared)]
<1>1. n \in Nat /\ 1 <= n /\ s \in SpecSet /\ \A i \in 1 .. n : nodes[i] \in Names
  BY SpecSetOK
<1>2. IsStep(step, 1, n, SpecSet)
  <2>1. ASSUME NEW t \in SpecSet, NEW i \in 1 + 1 .. n PROVE MoveClient(t, nodes[i], shared) \in SpecSet
    <3>1. IsSpec(t) /\ nodes[i] \in Names /\ shared \in Names /\ Outside(<<nodes[i], shared>>, {})
      BY <1>1, SpecSetOK DEF Outside
    <3>2. Keeps(t, MoveClient(t, nodes[i], shared), {})
      BY <3>1, MoveClientOK
    <3> QED BY <3>2, SpecSetOK DEF Keeps
  <2> HIDE DEF n, shared
  <2>2. \A p \in SpecSet \X (1 + 1 .. n) : MoveClient(p[1], nodes[p[2]], shared) \in SpecSet
    BY <2>1
  <2> QED BY <2>2 DEF IsStep
<1>3. PICK f : IsRun(f, 1, n, SpecSet, s, step)
  <2> HIDE DEF step, n
  <2>1. 1 \in Nat
    OBVIOUS
  <2> QED BY <1>1, <1>2, <2>1, Iteration
<1>4. f \in [1 .. n -> SpecSet] /\ f[1] = s /\ \A i \in 1 + 1 .. n : f[i] = step[<<f[i - 1], i>>]
  BY <1>3 DEF IsRun
<1>5. \A i \in 2 .. n : f[i] = MoveClient(f[i - 1], nodes[i], shared)
  <2> SUFFICES ASSUME NEW i \in 2 .. n PROVE f[i] = MoveClient(f[i - 1], nodes[i], shared)
    OBVIOUS
  <2>1. i \in 1 + 1 .. n /\ i - 1 \in 1 .. n
    BY <1>1
  <2>2. f[i - 1] \in SpecSet
    BY <1>4, <2>1
  <2> QED BY <1>4, <2>1, <2>2
<1>6. Solves(f)
  <2>1. \A i \in 1 .. n : i = 1 \/ i \in 2 .. n
    BY <1>1
  <2> HIDE DEF n, shared, step
  <2> QED BY <1>4, <1>5, <2>1
<1> DEFINE moved == CHOOSE g : Solves(g)
<1>7. Solves(moved)
  <2> HIDE DEF Solves
  <2> QED BY <1>6
<1>8. SplitFrom(s, nodes) = Unshared(s, moved[n], nodes)
  BY DEF SplitFrom, MoveClient, Unshared
<1> HIDE DEF moved
<1>9. moved[1] = s
  BY <1>1, <1>7
<1>10. \A i \in 2 .. n : moved[i] = MoveClient(moved[i - 1], nodes[i], shared)
  <2>1. \A i \in 2 .. n : i \in 1 .. n /\ i # 1
    BY <1>1
  <2> HIDE DEF shared
  <2> QED BY <1>7, <2>1
<1> QED BY <1>8, <1>9, <1>10

\* Moving the clients of the first node keeps all links that are not between the nodes.
LEMMA SplitFromOK ==
    ASSUME NEW s, IsSpec(s), NEW nodes \in Seq(Names), Len(nodes) >= 2, NEW T, Between(nodes, T)
    PROVE  Keeps(s, SplitFrom(s, nodes), T)
<1> DEFINE n == Len(nodes)
           shared == nodes[1]
<1>1. n \in Nat /\ 2 <= n /\ DOMAIN nodes = 1 .. n /\ (\A i \in 1 .. n : nodes[i] \in Names) /\ shared \in Names
  OBVIOUS
<1>2. PICK moved :
        /\ moved[1] = s
        /\ \A i \in 2 .. n : moved[i] = MoveClient(moved[i - 1], nodes[i], shared)
        /\ SplitFrom(s, nodes) = Unshared(s, moved[n], nodes)
  BY <1>1, MovedRecursion
<1> HIDE DEF n
<1> DEFINE S0 == {i \in 1 .. n : Keeps(s, moved[i], T)}
           g == [i \in 1 .. n |-> i]
<1>3. g[1] \in S0
  BY <1>1, <1>2, KeepsSelf
<1>4. ASSUME NEW i \in 1 + 1 .. n, g[i - 1] \in S0 PROVE g[i] \in S0
  <2>1. i \in 2 .. n /\ i \in 1 .. n /\ i - 1 \in 1 .. n /\ g[i - 1] = i - 1 /\ g[i] = i /\ 1 \in 1 .. n
    BY <1>1
  <2>2. Keeps(s, moved[i - 1], T)
    BY <1>4, <2>1
  <2>3. nodes[i] \in Names /\ Outside(<<nodes[i], shared>>, T)
    BY <1>1, <2>1, BetweenOutside
  <2>4. IsSpec(moved[i - 1])
    BY <2>2 DEF Keeps
  <2>5. Keeps(moved[i - 1], MoveClient(moved[i - 1], nodes[i], shared), T)
    BY <1>1, <2>3, <2>4, MoveClientOK
  <2>6. Keeps(s, moved[i], T)
    BY <1>2, <2>1, <2>2, <2>5, KeepsTwice
  <2> QED BY <2>1, <2>6
<1>5. g[n] \in S0
  <2> HIDE DEF g, S0
  <2>1. \A i \in 1 + 1 .. n : g[i - 1] \in S0 => g[i] \in S0
    BY <1>4
  <2>2. 1 \in Nat /\ 1 <= n
    BY <1>1
  <2>3. \A i \in 1 .. n : g[i] \in S0
    BY <1>1, <1>3, <2>1, <2>2, Stays
  <2> QED BY <1>1, <2>3
<1> DEFINE all == moved[n]
           types == [m \in DOMAIN all.types \ {shared} |-> all.types[m]]
<1>6. Keeps(s, all, T)
  BY <1>1, <1>5
<1>7. SplitFrom(s, nodes) = IF n < 3 \/ all = s THEN s ELSE [all EXCEPT !.types = types]
  BY <1>2 DEF Unshared, n
<1> HIDE DEF all
<1>8. all.types \in [DOMAIN all.types -> SpecTypes] /\ DOMAIN all.types \subseteq Names
      /\ IsFiniteSet(DOMAIN all.types)
  BY <1>6 DEF Keeps, IsSpec, SpecTypes
<1>9. types \in [DOMAIN types -> SpecTypes] /\ DOMAIN types \subseteq DOMAIN all.types
  BY <1>8
<1> HIDE DEF types
<1>10. Keeps(s, [all EXCEPT !.types = types], T)
  <2>1. IsFiniteSet(DOMAIN types) /\ DOMAIN types \subseteq Names
    BY <1>8, <1>9, FS_Subset
  <2> DEFINE u == [all EXCEPT !.types = types]
  <2>2. IsSpec(u) /\ u.deps = all.deps /\ u.calls = all.calls
    BY <1>6, <1>9, <2>1, NewTypes DEF Keeps
  <2> HIDE DEF u
  <2>3. Keeps(s, u, T)
    BY <1>6, <2>2 DEF Keeps
  <2> QED BY <2>3 DEF u
<1> QED BY <1>7, <1>10, KeepsSelf

\* The place of the node taken for the database is one of the nodes.
LEMMA DatabaseAtOK ==
    ASSUME NEW nodes \in Seq(Names), Len(nodes) >= 1
    PROVE  DatabaseAt(nodes) \in DOMAIN nodes
<1> DEFINE at == {i \in 1 .. Len(nodes) : IsDatabaseLikeName(nodes[i])}
           like == SelectInSeq(nodes, IsDatabaseLikeName)
<1>1. like = IF at # {} THEN Min(at) ELSE 0
  BY DEF SelectInSeq
<1>2. DOMAIN nodes = 1 .. Len(nodes) /\ Len(nodes) \in Nat /\ 1 \in DOMAIN nodes
  OBVIOUS
<1>3. at # {} => Min(at) \in at
  <2>1. at \subseteq Nat
    BY <1>2
  <2> HIDE DEF at
  <2> QED BY <2>1, LeastOK
<1>4. DatabaseAt(nodes) = IF like = 0 THEN 1 ELSE like
  BY DEF DatabaseAt
<1>5. at \subseteq DOMAIN nodes
  BY <1>2
<1> HIDE DEF at, like
<1> QED BY <1>1, <1>2, <1>3, <1>4, <1>5

\* The same nodes with the database first; they stay as they are if it is.
LEMMA DatabaseFirstOK ==
    ASSUME NEW nodes \in Seq(Names), Len(nodes) >= 1
    PROVE  /\ DatabaseFirst(nodes) \in Seq(Names) /\ Len(DatabaseFirst(nodes)) = Len(nodes)
           /\ Range(DatabaseFirst(nodes)) \subseteq Range(nodes)
           /\ DatabaseAt(nodes) = 1 => DatabaseFirst(nodes) = nodes
<1> DEFINE k == DatabaseAt(nodes)
           head == <<nodes[k]>>
           rest == RemoveAt(nodes, k)
           all == head \o rest
<1>1. k \in DOMAIN nodes
  BY DatabaseAtOK
<1> HIDE DEF k
<1>2. head \in Seq(Names) /\ Len(head) = 1 /\ head[1] = nodes[k]
  BY <1>1
<1>3. /\ rest \in Seq(Names) /\ Len(rest) = Len(nodes) - 1
      /\ \A i \in 1 .. Len(nodes) - 1 : rest[i] = IF i < k THEN nodes[i] ELSE nodes[i + 1]
  BY <1>1, RemoveAtOK
<1> HIDE DEF head, rest
<1>4. PICK n \in Nat : n = Len(nodes) /\ DOMAIN nodes = 1 .. n /\ 1 <= n
  OBVIOUS
<1>5. /\ all \in Seq(Names) /\ Len(all) = 1 + (n - 1)
      /\ \A i \in 1 .. 1 + (n - 1) : all[i] = IF i <= 1 THEN head[i] ELSE rest[i - 1]
  <2>1. Len(rest) = n - 1 /\ Len(head) = 1
    BY <1>2, <1>3, <1>4
  <2>2. /\ all \in Seq(Names) /\ Len(all) = Len(head) + Len(rest)
        /\ \A i \in 1 .. Len(head) + Len(rest) : all[i] = IF i <= Len(head) THEN head[i] ELSE rest[i - Len(head)]
    <3>1. head \in Seq(Names) /\ rest \in Seq(Names) /\ all = head \o rest
      BY <1>2, <1>3
    <3> HIDE DEF all
    <3> QED BY <3>1, ConcatProperties
  <2> HIDE DEF all
  <2> QED BY <2>1, <2>2
<1> HIDE DEF all
<1>6. 1 + (n - 1) = n
  BY <1>4
<1>7. ASSUME NEW i \in 1 .. n
      PROVE  all[i] = IF i = 1 THEN nodes[k] ELSE IF i - 1 < k THEN nodes[i - 1] ELSE nodes[i]
  <2>1. CASE i = 1
    BY <1>2, <1>4, <1>5, <1>6, <2>1
  <2>2. CASE i # 1
    <3>1. i - 1 \in 1 .. n - 1 /\ ~(i <= 1) /\ (i - 1) + 1 = i
      BY <1>4, <2>2
    <3> QED BY <1>3, <1>4, <1>5, <1>6, <2>2, <3>1
  <2> QED BY <2>1, <2>2
<1>8. DOMAIN all = 1 .. n /\ Len(all) = n
  BY <1>5, <1>6
<1>9. Range(all) \subseteq Range(nodes)
  <2>1. ASSUME NEW i \in 1 .. n PROVE \E j \in 1 .. n : all[i] = nodes[j]
    <3>1. i = 1 \/ i - 1 \in 1 .. n
      BY <1>4
    <3> QED BY <1>1, <1>4, <1>7, <3>1
  <2> QED BY <1>4, <1>8, <2>1 DEF Range
<1>10. k = 1 => all = nodes
  <2> SUFFICES ASSUME k = 1 PROVE all = nodes
    OBVIOUS
  <2>1. ASSUME NEW i \in 1 .. n PROVE all[i] = nodes[i]
    <3>1. i # 1 => ~(i - 1 < 1)
      BY <1>4
    <3> QED BY <1>7, <3>1
  <2>2. all \in Seq(Names) /\ nodes \in Seq(Names) /\ Len(all) = Len(nodes)
    BY <1>4, <1>5, <1>8
  <2>3. \A i \in 1 .. Len(nodes) : all[i] = nodes[i]
    BY <1>4, <2>1
  <2> QED BY <2>2, <2>3, SeqEqual
<1> QED BY <1>4, <1>5, <1>8, <1>9, <1>10 DEF DatabaseFirst, all, head, rest, k

\* The fix of a shared database keeps all links that are not between its nodes.
LEMMA SplitDatabaseOK ==
    ASSUME NEW s, IsSpec(s), NEW nodes \in Seq(Names), Len(nodes) >= 2, NEW T, Between(nodes, T)
    PROVE  Keeps(s, SplitDatabase(s, nodes), T)
<1> DEFINE order == DatabaseFirst(nodes)
<1>1. order \in Seq(Names) /\ Len(order) = Len(nodes) /\ Range(order) \subseteq Range(nodes)
  BY DatabaseFirstOK
<1>2. SplitDatabase(s, nodes) = SplitFrom(s, order)
  BY DEF SplitDatabase
<1> HIDE DEF order
<1>3. Between(order, T)
  BY <1>1 DEF Between
<1> QED BY <1>1, <1>2, <1>3, SplitFromOK

\* The BFF takes over a call.
Through(t, page, bff, target) ==
    AddDependencyIfMissing(RemoveDependencyOnce(t, <<page, target>>), <<bff, target>>, TRUE)

\* Leading a call through the BFF keeps all links but the direct one.
LEMMA ThroughOK ==
    ASSUME NEW t, IsSpec(t), NEW page \in Names, NEW bff \in Names, NEW target \in Names,
           NEW T, Outside(<<page, target>>, T)
    PROVE  Keeps(t, Through(t, page, bff, target), T)
<1> DEFINE less == RemoveDependencyOnce(t, <<page, target>>)
<1>1. Keeps(t, less, T)
  BY RemoveDependencyOK
<1> HIDE DEF less
<1>2. Keeps(less, AddDependencyIfMissing(less, <<bff, target>>, TRUE), T)
  BY <1>1, AddDependencyOK DEF Keeps
<1>3. Through(t, page, bff, target) = AddDependencyIfMissing(less, <<bff, target>>, TRUE)
  BY DEF Through, less
<1> QED BY <1>1, <1>2, <1>3, KeepsTwice

\* The BFF has a name.
LEMMA BffName ==
    ASSUME NEW s
    PROVE  UniqueServiceName(s, Name("bff")) \in Names
<1>1. Name("bff") \in Names
  <2>1. <<>> \in Seq({"split", "db", "number"} \X Nat)
    OBVIOUS
  <2> QED BY <2>1 DEF Name, Names
<1> QED BY <1>1, UniqueOK

\* The page and its BFF, before the calls are taken over.
BffStart(s, page, bff) == AddDependencyIfMissing(EnsureType(s, bff, "api_gateway"), <<page, bff>>, TRUE)

\* Inserting the BFF keeps all links.
LEMMA BffStartOK ==
    ASSUME NEW s, IsSpec(s), NEW page \in Names, NEW bff \in Names, NEW T
    PROVE  Keeps(s, BffStart(s, page, bff), T)
<1> DEFINE typed == EnsureType(s, bff, "api_gateway")
<1>1. Keeps(s, typed, T)
  BY EnsureTypeOK DEF SpecTypes
<1> HIDE DEF typed
<1>2. Keeps(typed, AddDependencyIfMissing(typed, <<page, bff>>, TRUE), T)
  BY <1>1, AddDependencyOK DEF Keeps
<1>3. BffStart(s, page, bff) = AddDependencyIfMissing(typed, <<page, bff>>, TRUE)
  BY DEF BffStart, typed
<1> QED BY <1>1, <1>2, <1>3, KeepsTwice

\* The targets of the page are led through the BFF one after another.
LEMMA BffRecursion ==
    ASSUME NEW s, IsSpec(s), NEW nodes \in Seq(Names), Len(nodes) >= 1
    PROVE  LET bff == UniqueServiceName(s, Name("bff")) IN
           \E after :
             /\ after[1] = BffStart(s, nodes[1], bff)
             /\ \A i \in 2 .. Len(nodes) : after[i] = Through(after[i - 1], nodes[1], bff, nodes[i])
             /\ InsertBFF(s, nodes) = after[Len(nodes)]
<1> DEFINE n == Len(nodes)
           page == nodes[1]
           bff == UniqueServiceName(s, Name("bff"))
           start == BffStart(s, page, bff)
           step == [p \in SpecSet \X (1 + 1 .. n) |-> Through(p[1], page, bff, nodes[p[2]])]
           Solves(f) == f = [i \in 1 .. n |-> IF i = 1 THEN start ELSE Through(f[i - 1], page, bff, nodes[i])]
<1>1. n \in Nat /\ 1 <= n /\ \A i \in 1 .. n : nodes[i] \in Names
  OBVIOUS
<1>2. bff \in Names /\ page \in Names
  BY <1>1, BffName
<1>3. start \in SpecSet
  <2> HIDE DEF bff, page, start
  <2>1. Keeps(s, start, {})
    BY <1>2, BffStartOK DEF start
  <2> QED BY <2>1, SpecSetOK DEF Keeps
<1> HIDE DEF start, bff
<1>4. IsStep(step, 1, n, SpecSet)
  <2>1. ASSUME NEW t \in SpecSet, NEW i \in 1 + 1 .. n PROVE Through(t, page, bff, nodes[i]) \in SpecSet
    <3>1. IsSpec(t) /\ nodes[i] \in Names /\ Outside(<<page, nodes[i]>>, {})
      BY <1>1, SpecSetOK DEF Outside
    <3>2. Keeps(t, Through(t, page, bff, nodes[i]), {})
      BY <1>2, <3>1, ThroughOK
    <3> QED BY <3>2, SpecSetOK DEF Keeps
  <2> HIDE DEF n, page
  <2>2. \A p \in SpecSet \X (1 + 1 .. n) : Through(p[1], page, bff, nodes[p[2]]) \in SpecSet
    BY <2>1
  <2> QED BY <2>2 DEF IsStep
<1>5. PICK f : IsRun(f, 1, n, SpecSet, start, step)
  <2> HIDE DEF step, n
  <2>1. 1 \in Nat
    OBVIOUS
  <2> QED BY <1>1, <1>3, <1>4, <2>1, Iteration
<1>6. f \in [1 .. n -> SpecSet] /\ f[1] = start /\ \A i \in 1 + 1 .. n : f[i] = step[<<f[i - 1], i>>]
  BY <1>5 DEF IsRun
<1>7. \A i \in 2 .. n : f[i] = Through(f[i - 1], page, bff, nodes[i])
  <2> SUFFICES ASSUME NEW i \in 2 .. n PROVE f[i] = Through(f[i - 1], page, bff, nodes[i])
    OBVIOUS
  <2>1. i \in 1 + 1 .. n /\ i - 1 \in 1 .. n
    BY <1>1
  <2>2. f[i - 1] \in SpecSet
    BY <1>6, <2>1
  <2> QED BY <1>6, <2>1, <2>2
<1>8. Solves(f)
  <2>1. \A i \in 1 .. n : i = 1 \/ i \in 2 .. n
    BY <1>1
  <2> HIDE DEF n, page, step
  <2> QED BY <1>6, <1>7, <2>1
<1> DEFINE after == CHOOSE g : Solves(g)
<1>9. Solves(after)
  <2> HIDE DEF Solves
  <2> QED BY <1>8
<1>10. InsertBFF(s, nodes) = after[n]
  BY DEF InsertBFF, Through, BffStart, start, bff
<1> HIDE DEF after
<1>11. after[1] = start
  BY <1>1, <1>9
<1>12. \A i \in 2 .. n : after[i] = Through(after[i - 1], page, bff, nodes[i])
  <2>1. \A i \in 2 .. n : i \in 1 .. n /\ i # 1
    BY <1>1
  <2> HIDE DEF page
  <2> QED BY <1>9, <2>1
<1> QED BY <1>10, <1>11, <1>12 DEF start, bff

\* The fix of a UI orchestrator keeps all links that are not between its nodes.
LEMMA InsertBFFOK ==
    ASSUME NEW s, IsSpec(s), NEW nodes \in Seq(Names), Len(nodes) >= 2, NEW T, Between(nodes, T)
    PROVE  Keeps(s, InsertBFF(s, nodes), T)
<1> DEFINE n == Len(nodes)
           page == nodes[1]
           bff == UniqueServiceName(s, Name("bff"))
<1>1. n \in Nat /\ 2 <= n /\ DOMAIN nodes = 1 .. n /\ (\A i \in 1 .. n : nodes[i] \in Names) /\ page \in Names
  OBVIOUS
<1>2. PICK after :
        /\ after[1] = BffStart(s, page, bff)
        /\ \A i \in 2 .. n : after[i] = Through(after[i - 1], page, bff, nodes[i])
        /\ InsertBFF(s, nodes) = after[n]
  BY <1>1, BffRecursion
<1>3. bff \in Names
  BY BffName
<1> HIDE DEF n, bff
<1> DEFINE S0 == {i \in 1 .. n : Keeps(s, after[i], T)}
           g == [i \in 1 .. n |-> i]
<1>4. g[1] \in S0
  BY <1>1, <1>2, <1>3, BffStartOK
<1>5. ASSUME NEW i \in 1 + 1 .. n, g[i - 1] \in S0 PROVE g[i] \in S0
  <2>1. i \in 2 .. n /\ i \in 1 .. n /\ i - 1 \in 1 .. n /\ g[i - 1] = i - 1 /\ g[i] = i /\ 1 \in 1 .. n
    BY <1>1
  <2>2. Keeps(s, after[i - 1], T)
    BY <1>5, <2>1
  <2>3. nodes[i] \in Names /\ Outside(<<page, nodes[i]>>, T)
    BY <1>1, <2>1, BetweenOutside
  <2>4. IsSpec(after[i - 1])
    BY <2>2 DEF Keeps
  <2>5. Keeps(after[i - 1], Through(after[i - 1], page, bff, nodes[i]), T)
    BY <1>1, <1>3, <2>3, <2>4, ThroughOK
  <2>6. Keeps(s, after[i], T)
    BY <1>2, <2>1, <2>2, <2>5, KeepsTwice
  <2> QED BY <2>1, <2>6
<1>6. g[n] \in S0
  <2> HIDE DEF g, S0
  <2>1. \A i \in 1 + 1 .. n : g[i - 1] \in S0 => g[i] \in S0
    BY <1>5
  <2>2. 1 \in Nat /\ 1 <= n
    BY <1>1
  <2>3. \A i \in 1 .. n : g[i] \in S0
    BY <1>1, <1>4, <2>1, <2>2, Stays
  <2> QED BY <1>1, <2>3
<1> QED BY <1>1, <1>2, <1>6

\* Detections that a fix can be made for, whatever has become of the YAML.
Fixable(d) ==
    /\ d.kind \in {"cycles", "god_service"} \/ Len(d.nodes) >= 2
    /\ d.kind = "god_service" => Len(d.nodes) = 1

\* The detections that a fix can be made for.
FixableSet ==
    {d \in [kind : Kinds, severity : {"HIGH", "MEDIUM"}, nodes : Seq(Names)] : Fixable(d)}

\* A fix can be made for each sound detection.
LEMMA FoundFixable ==
    ASSUME NEW s, IsSpec(s)
    PROVE  SoundSet(s, Kinds) \subseteq FixableSet
<1> SUFFICES ASSUME NEW d \in SoundSet(s, Kinds) PROVE d \in FixableSet
  OBVIOUS
<1> DEFINE X == Seq(Nodes(s))
           Y == Seq(Names)
           levels == {"HIGH", "MEDIUM"}
<1>1. d \in [kind : Kinds, severity : levels, nodes : X] /\ Sound(s, d)
  BY DEF SoundSet
<1>2. X \subseteq Y
  BY SpecOK, SeqMonotonic
<1> HIDE DEF X, Y, levels
<1>3. d \in [kind : Kinds, severity : levels, nodes : Y]
  BY <1>1, <1>2
<1>4. Fixable(d)
  BY <1>1 DEF Fixable, Sound
<1> QED BY <1>3, <1>4 DEF FixableSet, Y, levels

\* A fix keeps every link that it is not about.
LEMMA FixOK ==
    ASSUME NEW s, IsSpec(s), NEW d \in FixableSet, NEW T, Spares(d, T)
    PROVE  Keeps(s, Fix(s, d), T)
<1> DEFINE nodes == d.nodes
<1>1. d.kind \in Kinds /\ nodes \in Seq(Names) /\ Fixable(d)
  BY DEF FixableSet
<1>2. d.kind # "god_service" => Between(nodes, T)
  BY DEF Spares, Between, About
<1>3. CASE d.kind = "cycles"
  <2>1. Fix(s, d) = BreakCycle(s, nodes)
    BY <1>3 DEF Fix
  <2> QED BY <1>1, <1>2, <1>3, <2>1, BreakCycleOK
<1>4. CASE d.kind = "god_service"
  <2>1. Fix(s, d) = SplitGod(s, nodes)
    BY <1>4 DEF Fix
  <2>2. Len(nodes) = 1
    BY <1>1, <1>4 DEF Fixable
  <2>3. nodes[1] \in Range(nodes)
    BY <1>1, <2>2 DEF Range
  <2>4. \A e \in T : e.from # nodes[1]
    BY <1>4, <2>3 DEF Spares, About
  <2> QED BY <1>1, <2>1, <2>2, <2>4, SplitGodOK
<1>5. CASE d.kind \in Kinds \ {"cycles", "god_service"}
  <2>1. Len(nodes) >= 2 /\ Between(nodes, T)
    BY <1>1, <1>2, <1>5 DEF Fixable
  <2> HIDE DEF nodes
  <2>2. CASE d.kind = "ping_pong_dependency"
    <3>1. Fix(s, d) = DropLeg(s, nodes)
      BY <2>2 DEF Fix, nodes
    <3> QED BY <1>1, <2>1, <3>1, DropLegOK
  <2>3. CASE d.kind = "reverse_dependency"
    <3>1. Fix(s, d) = Flip(s, nodes[1], nodes[2])
      BY <2>3 DEF Fix, nodes
    <3>2. 1 \in DOMAIN nodes /\ 2 \in DOMAIN nodes /\ nodes[1] \in Names /\ nodes[2] \in Names
      BY <1>1, <2>1
    <3>3. Outside(<<nodes[1], nodes[2]>>, T)
      BY <2>1, <3>2, BetweenOutside
    <3> QED BY <3>1, <3>2, <3>3, FlipOK
  <2>4. CASE d.kind = "shared_database"
    <3>1. Fix(s, d) = SplitDatabase(s, nodes)
      BY <2>4 DEF Fix, nodes
    <3> QED BY <1>1, <2>1, <3>1, SplitDatabaseOK
  <2>5. CASE d.kind = "sync_call_chain"
    <3>1. Fix(s, d) = CutChain(s, nodes)
      BY <2>5 DEF Fix, nodes
    <3> QED BY <1>1, <2>1, <3>1, CutChainOK
  <2>6. CASE d.kind = "tight_coupling"
    <3>1. Fix(s, d) = Loosen(s, nodes)
      BY <2>6 DEF Fix, nodes
    <3> QED BY <1>1, <2>1, <3>1, LoosenOK
  <2>7. CASE d.kind = "ui_orchestrator"
    <3>1. Fix(s, d) = InsertBFF(s, nodes)
      BY <2>7 DEF Fix, nodes
    <3> QED BY <1>1, <2>1, <3>1, InsertBFFOK
  <2> QED BY <1>5, <2>2, <2>3, <2>4, <2>5, <2>6, <2>7 DEF Kinds
<1> QED BY <1>1, <1>3, <1>4, <1>5

\* A merge brings back what an empty list of dependencies has lost, no less.
LEMMA MergeOK ==
    ASSUME NEW s, IsSpec(s), NEW t, NEW T, Keeps(s, t, T)
    PROVE  Keeps(s, Merge(s, t), T)
<1> DEFINE deps == IF t.deps = <<>> THEN s.deps ELSE t.deps
           u == Merge(s, t)
<1>1. IsSpec(t) /\ s.deps \in Seq(LinkSet) /\ t.deps \in Seq(LinkSet) /\ s.calls \in Seq(LinkSet)
  BY SpecOK DEF Keeps
<1>2. t.dbs = s.dbs
  BY <1>1 DEF IsSpec
<1>3. u = [t EXCEPT !.deps = deps]
  BY <1>1, <1>2, SpecParts DEF Merge
<1>4. deps \in Seq(LinkSet) /\ Kept(s.deps, T, deps)
  <2>1. Kept(s.deps, T, s.deps)
    BY <1>1, KeptInPlace
  <2> QED BY <1>1, <2>1 DEF Keeps
<1> HIDE DEF deps, u
<1>5. IsSpec(u) /\ u.deps = deps /\ u.calls = t.calls
  BY <1>1, <1>3, <1>4, NewDeps
<1> QED BY <1>4, <1>5 DEF u, Keeps

\* One fix after another.
Progress == [spec : SpecSet, applied : Seq(FixableSet)]

\* One fix of an apply request.
OneFix(acc, d) ==
    LET fixed == Fix(acc.spec, d)
    IN IF fixed = acc.spec THEN acc ELSE [spec |-> fixed, applied |-> Append(acc.applied, d)]

\* What has been reached: it keeps what no fix applied so far is about.
Sparing(s, acc) ==
    /\ acc.applied = <<>> => acc.spec = s
    /\ \A T : (\A d \in Range(acc.applied) : Spares(d, T)) => Keeps(s, acc.spec, T)

\* A fix leaves a YAML and a list of fixes applied.
LEMMA OneFixOK ==
    ASSUME NEW acc \in Progress, NEW d \in FixableSet
    PROVE  OneFix(acc, d) \in Progress
<1>1. acc.spec \in SpecSet /\ acc.applied \in Seq(FixableSet) /\ IsSpec(acc.spec)
  BY SpecSetOK DEF Progress
<1>2. Keeps(acc.spec, Fix(acc.spec, d), {})
  BY <1>1, FixOK DEF Spares
<1>3. Fix(acc.spec, d) \in SpecSet
  BY <1>2, SpecSetOK DEF Keeps
<1>4. Append(acc.applied, d) \in Seq(FixableSet)
  BY <1>1
<1> QED BY <1>3, <1>4 DEF OneFix, Progress

\* The members of a sequence and one more.
LEMMA AppendRange ==
    ASSUME NEW S, NEW a \in Seq(S), NEW d \in S
    PROVE  Append(a, d) # <<>> /\ Range(Append(a, d)) = Range(a) \cup {d}
<1> DEFINE n == Len(a)
           b == Append(a, d)
<1>1. /\ DOMAIN a = 1 .. n /\ n \in Nat /\ DOMAIN b = 1 .. n + 1
      /\ (\A i \in 1 .. n : b[i] = a[i]) /\ b[n + 1] = d
  BY AppendProperties
<1> HIDE DEF b, n
<1>2. \A i \in DOMAIN b : i \in DOMAIN a \/ i = n + 1
  BY <1>1
<1>3. n + 1 \in DOMAIN b /\ \A i \in DOMAIN a : i \in DOMAIN b
  BY <1>1
<1>4. DOMAIN <<>> = {}
  OBVIOUS
<1>5. Range(b) = Range(a) \cup {d}
  BY <1>1, <1>2, <1>3 DEF Range
<1> QED BY <1>3, <1>4, <1>5 DEF b

\* One more fix keeps what none of those applied is about.
LEMMA SparingStep ==
    ASSUME NEW s, IsSpec(s), NEW acc \in Progress, NEW d \in FixableSet, Sparing(s, acc)
    PROVE  Sparing(s, OneFix(acc, d))
<1> DEFINE fixed == Fix(acc.spec, d)
           applied == Append(acc.applied, d)
<1>1. IsSpec(acc.spec) /\ acc.applied \in Seq(FixableSet)
  BY SpecSetOK DEF Progress
<1>2. CASE fixed = acc.spec
  BY <1>2 DEF OneFix
<1>3. CASE fixed # acc.spec
  <2>1. OneFix(acc, d) = [spec |-> fixed, applied |-> applied]
    BY <1>3 DEF OneFix
  <2>2. applied # <<>> /\ Range(applied) = Range(acc.applied) \cup {d}
    BY <1>1, AppendRange
  <2> HIDE DEF applied, fixed
  <2>3. ASSUME NEW T, \A x \in Range(applied) : Spares(x, T) PROVE Keeps(s, fixed, T)
    <3>1. Keeps(s, acc.spec, T)
      BY <2>2, <2>3 DEF Sparing
    <3>2. Keeps(acc.spec, fixed, T)
      BY <1>1, <2>2, <2>3, FixOK DEF fixed
    <3> QED BY <3>1, <3>2, KeepsTwice
  <2> QED BY <2>1, <2>2, <2>3 DEF Sparing
<1> QED BY <1>2, <1>3

\* The fixes of an apply request are made one after another.
LEMMA FixedRecursion ==
    ASSUME IsSpec(spec), NEW chosen \in Seq(FixableSet)
    PROVE  \E after :
             /\ after[0] = [spec |-> spec, applied |-> <<>>]
             /\ \A i \in 1 .. Len(chosen) : after[i] = OneFix(after[i - 1], chosen[i])
             /\ \A i \in 0 .. Len(chosen) : after[i] \in Progress
             /\ Fixed(chosen) = after[Len(chosen)]
<1> DEFINE n == Len(chosen)
           start == [spec |-> spec, applied |-> <<>>]
           step == [p \in Progress \X (0 + 1 .. n) |-> OneFix(p[1], chosen[p[2]])]
           Solves(f) == f = [i \in 0 .. n |-> IF i = 0 THEN start ELSE OneFix(f[i - 1], chosen[i])]
<1>1. n \in Nat /\ 0 <= n /\ \A i \in 1 .. n : chosen[i] \in FixableSet
  OBVIOUS
<1>2. start \in Progress
  <2>1. <<>> \in Seq(FixableSet) /\ spec \in SpecSet
    BY SpecSetOK
  <2> QED BY <2>1 DEF Progress
<1>3. IsStep(step, 0, n, Progress)
  <2>1. ASSUME NEW acc \in Progress, NEW i \in 0 + 1 .. n PROVE OneFix(acc, chosen[i]) \in Progress
    <3>1. i \in 1 .. n
      BY <1>1
    <3> QED BY <1>1, <3>1, OneFixOK
  <2> HIDE DEF n
  <2>2. \A p \in Progress \X (0 + 1 .. n) : OneFix(p[1], chosen[p[2]]) \in Progress
    BY <2>1
  <2> QED BY <2>2 DEF IsStep
<1> HIDE DEF start
<1>4. PICK f : IsRun(f, 0, n, Progress, start, step)
  <2> HIDE DEF step, n
  <2>1. 0 \in Nat
    OBVIOUS
  <2> QED BY <1>1, <1>2, <1>3, <2>1, Iteration
<1>5. f \in [0 .. n -> Progress] /\ f[0] = start /\ \A i \in 0 + 1 .. n : f[i] = step[<<f[i - 1], i>>]
  BY <1>4 DEF IsRun
<1>6. \A i \in 1 .. n : f[i] = OneFix(f[i - 1], chosen[i])
  <2> SUFFICES ASSUME NEW i \in 1 .. n PROVE f[i] = OneFix(f[i - 1], chosen[i])
    OBVIOUS
  <2>1. i \in 0 + 1 .. n /\ i - 1 \in 0 .. n
    BY <1>1
  <2>2. f[i - 1] \in Progress
    BY <1>5, <2>1
  <2> QED BY <1>5, <2>1, <2>2
<1>7. Solves(f)
  <2>1. \A i \in 0 .. n : i = 0 \/ i \in 1 .. n
    BY <1>1
  <2> HIDE DEF n, step
  <2> QED BY <1>5, <1>6, <2>1
<1> DEFINE after == CHOOSE g : Solves(g)
<1>8. Solves(after)
  <2> HIDE DEF Solves
  <2> QED BY <1>7
<1>9. Fixed(chosen) = after[n]
  BY DEF Fixed, OneFix, start
<1> HIDE DEF after
<1>10. after[0] = start
  BY <1>1, <1>8
<1>11. \A i \in 1 .. n : after[i] = OneFix(after[i - 1], chosen[i])
  <2>1. \A i \in 1 .. n : i \in 0 .. n /\ i # 0
    BY <1>1
  <2> QED BY <1>8, <2>1
<1>12. \A i \in 0 .. n : after[i] \in Progress
  <2>1. \A i \in 0 + 1 .. n : after[i - 1] \in Progress => after[i] \in Progress
    <3> SUFFICES ASSUME NEW i \in 0 + 1 .. n, after[i - 1] \in Progress PROVE after[i] \in Progress
      OBVIOUS
    <3>1. i \in 1 .. n
      BY <1>1
    <3> QED BY <1>1, <1>11, <3>1, OneFixOK
  <2>2. after[0] \in Progress /\ 0 \in Nat
    BY <1>2, <1>10
  <2> HIDE DEF n
  <2> QED BY <1>1, <2>1, <2>2, Stays
<1> QED BY <1>9, <1>10, <1>11, <1>12 DEF start

\* After all of the fixes the YAML keeps what none of the applied ones is about.
LEMMA FixedOK ==
    ASSUME IsSpec(spec), NEW chosen \in Seq(FixableSet)
    PROVE  Fixed(chosen) \in Progress /\ Sparing(spec, Fixed(chosen))
<1> DEFINE n == Len(chosen)
<1>1. n \in Nat /\ 0 <= n /\ \A i \in 1 .. n : chosen[i] \in FixableSet
  OBVIOUS
<1>2. PICK after :
        /\ after[0] = [spec |-> spec, applied |-> <<>>]
        /\ \A i \in 1 .. n : after[i] = OneFix(after[i - 1], chosen[i])
        /\ \A i \in 0 .. n : after[i] \in Progress
        /\ Fixed(chosen) = after[n]
  BY FixedRecursion
<1> HIDE DEF n
<1> DEFINE S0 == {i \in 0 .. n : Sparing(spec, after[i])}
           g == [i \in 0 .. n |-> i]
<1>3. g[0] \in S0
  <2>1. after[0].spec = spec /\ after[0].applied = <<>>
    BY <1>2
  <2>2. Sparing(spec, after[0])
    BY <2>1, KeepsSelf DEF Sparing
  <2> QED BY <1>1, <2>2
<1>4. ASSUME NEW i \in 0 + 1 .. n, g[i - 1] \in S0 PROVE g[i] \in S0
  <2>1. i \in 1 .. n /\ i \in 0 .. n /\ i - 1 \in 0 .. n /\ g[i - 1] = i - 1 /\ g[i] = i
    BY <1>1
  <2>2. Sparing(spec, after[i - 1]) /\ after[i - 1] \in Progress
    BY <1>2, <1>4, <2>1
  <2>3. Sparing(spec, after[i])
    BY <1>1, <1>2, <2>1, <2>2, SparingStep
  <2> QED BY <2>1, <2>3
<1>5. g[n] \in S0
  <2> HIDE DEF g, S0
  <2>1. \A i \in 0 + 1 .. n : g[i - 1] \in S0 => g[i] \in S0
    BY <1>4
  <2>2. 0 \in Nat
    OBVIOUS
  <2>3. \A i \in 0 .. n : g[i] \in S0
    BY <1>1, <1>3, <2>1, <2>2, Stays
  <2> QED BY <1>1, <2>3
<1> QED BY <1>1, <1>2, <1>5

\* Severities rank detections, and drop none.
LEMMA RankedOK ==
    ASSUME NEW X, X \subseteq FixableSet, NEW dets \in Seq(X)
    PROVE  Ranked(dets) \in Seq(X) /\ Range(Ranked(dets)) = Range(dets)
<1> DEFINE High == {d \in Range(dets) : d.severity = "HIGH"}
           Medium == {d \in Range(dets) : d.severity = "MEDIUM"}
           a == Only(dets, High)
           b == Only(dets, Medium)
<1>1. High \cup Medium = Range(dets)
  <2>1. \A d \in Range(dets) : d \in FixableSet
    BY DEF Range
  <2>2. \A d \in FixableSet : d.severity \in {"HIGH", "MEDIUM"}
    BY DEF FixableSet
  <2> QED BY <2>1, <2>2
<1>2. Ranked(dets) = a \o b
  BY DEF Ranked
<1> HIDE DEF High, Medium
<1>3. a \in Seq(X \cap High) /\ Range(a) = Range(dets) \cap High
  BY OnlyOK
<1>4. b \in Seq(X \cap Medium) /\ Range(b) = Range(dets) \cap Medium
  BY OnlyOK
<1> HIDE DEF a, b
<1>5. a \in Seq(X) /\ b \in Seq(X)
  BY <1>3, <1>4, SeqMonotonic
<1>6. a \o b \in Seq(X) /\ Range(a \o b) = Range(a) \cup Range(b)
  BY <1>5, ConcatRange, ConcatProperties
<1> QED BY <1>1, <1>2, <1>3, <1>4, <1>6

\* What is chosen are the detections found anew whose keys are selected.
LEMMA ChosenOK ==
    ASSUME NEW X, X \subseteq FixableSet, NEW dets \in Seq(X), NEW keys
    PROVE  LET chosen == Chosen(Ranked(dets), keys) IN
           chosen \in Seq(X) /\ Range(chosen) = {d \in Range(dets) : DetectionKey(d) \in keys}
<1> DEFINE ranked == Ranked(dets)
           T == {d \in Range(ranked) : DetectionKey(d) \in keys}
<1>1. ranked \in Seq(X) /\ Range(ranked) = Range(dets)
  BY RankedOK
<1>2. Chosen(ranked, keys) = Only(ranked, T)
  BY DEF Chosen
<1> HIDE DEF ranked, T
<1>3. Only(ranked, T) \in Seq(X \cap T) /\ Range(Only(ranked, T)) = Range(ranked) \cap T
  BY <1>1, OnlyOK
<1>4. Only(ranked, T) \in Seq(X)
  BY <1>3, SeqMonotonic
<1>5. Range(ranked) \cap T = {d \in Range(dets) : DetectionKey(d) \in keys}
  BY <1>1 DEF T
<1> QED BY <1>2, <1>3, <1>4, <1>5 DEF ranked

\* The keys of the suggestions are those of the detections.
LEMMA OrderedKeysOK ==
    ASSUME NEW X, X \subseteq FixableSet, NEW dets \in Seq(X)
    PROVE  Range(OrderedDetectionKeys(dets)) = {DetectionKey(d) : d \in Range(dets)}
<1> DEFINE ranked == Ranked(dets)
           keys == [i \in DOMAIN ranked |-> DetectionKey(ranked[i])]
           K == {DetectionKey(d) : d \in X}
<1>1. ranked \in Seq(X) /\ Range(ranked) = Range(dets)
  BY RankedOK
<1>2. OrderedDetectionKeys(dets) = Distinct(keys)
  BY DEF OrderedDetectionKeys
<1> HIDE DEF ranked
<1>3. keys \in Seq(K)
  <2>1. DOMAIN ranked = 1 .. Len(ranked) /\ Len(ranked) \in Nat /\ \A i \in 1 .. Len(ranked) : ranked[i] \in X
    BY <1>1
  <2>2. \A i \in 1 .. Len(ranked) : DetectionKey(ranked[i]) \in K
    BY <2>1
  <2> HIDE DEF K
  <2> QED BY <2>1, <2>2
<1>4. Range(keys) = {DetectionKey(d) : d \in Range(ranked)}
  BY DEF Range
<1> HIDE DEF keys, K
<1>5. Range(Distinct(keys)) = Range(keys)
  BY <1>3, DistinctOK
<1> QED BY <1>1, <1>2, <1>4, <1>5

(***************************************************************************)
(* What services reach.                                                    *)
(***************************************************************************)

\* A dependency leads from one name to another.
Linked(s, a, b) == \E i \in DOMAIN s.deps : s.deps[i].from = a /\ s.deps[i].to = b

\* No dependency leaves the set.
ClosedUnder(s, set) == \A a \in set : \A b : Linked(s, a, b) => b \in set

\* What is reached in s is reached in t.
Serves(s, t) ==
    /\ Nodes(s) \subseteq Nodes(t)
    /\ \A set : ClosedUnder(t, set) => ClosedUnder(s, set)

\* Each dependency of s is one of t, or t leads around it: first from a to b.
Reroutes(s, t, a, b) ==
    /\ Linked(t, a, b)
    /\ \A x, y : Linked(s, x, y) => Linked(t, x, y) \/ (x = a /\ Linked(t, b, y))

\* A sequence that keeps the links of a set has all of them.
LEMMA KeptMembers ==
    ASSUME NEW a, NEW T, NEW b, Kept(a, T, b), NEW i \in DOMAIN a, a[i] \in T
    PROVE  \E j \in DOMAIN b : b[j] = a[i]
<1> DEFINE at == {k \in DOMAIN a : a[k] \in T}
<1>1. PICK f \in [at -> DOMAIN b] : \A k, l \in at : b[f[k]] = a[k] /\ (k < l => f[k] < f[l])
  BY DEF Kept
<1>2. i \in at
  OBVIOUS
<1> HIDE DEF at
<1> QED BY <1>1, <1>2

\* There are dependencies where one leads somewhere.
LEMMA LinkedSome ==
    ASSUME NEW s, NEW a, NEW b, Linked(s, a, b)
    PROVE  s.deps # <<>> /\ Edges(s) = s.deps
<1>1. DOMAIN <<>> = {}
  OBVIOUS
<1> QED BY <1>1 DEF Linked, Edges

\* The nodes of a YAML that has dependencies.
LEMMA NodesOK ==
    ASSUME NEW s, IsSpec(s), s.deps # <<>>, NEW n
    PROVE  n \in Nodes(s) <=> \/ n \in DOMAIN s.types
                              \/ n \in s.dbs
                              \/ \E m : Linked(s, n, m) \/ Linked(s, m, n)
<1> DEFINE E == Range(Edges(s))
<1>1. Edges(s) = s.deps
  BY DEF Edges
<1>2. \A x : (\E e \in E : x \in {e.from, e.to}) <=> (\E m : Linked(s, x, m) \/ Linked(s, m, x))
  BY <1>1 DEF Range, Linked
<1>3. Nodes(s) = DOMAIN s.types \cup s.dbs \cup UNION {{e.from, e.to} : e \in E}
  BY DEF Nodes
<1> HIDE DEF E
<1>4. n \in UNION {{e.from, e.to} : e \in E} <=> \E e \in E : n \in {e.from, e.to}
  OBVIOUS
<1> QED BY <1>2, <1>3, <1>4

\* Leading around a dependency cuts nothing off.
LEMMA ReroutesServes ==
    ASSUME NEW s, IsSpec(s), s.deps # <<>>, NEW t, IsSpec(t), NEW a, NEW b, Reroutes(s, t, a, b),
           DOMAIN s.types \subseteq DOMAIN t.types
    PROVE  t.deps # <<>> /\ Serves(s, t)
<1>1. Linked(t, a, b)
  BY DEF Reroutes
<1>2. t.deps # <<>>
  BY <1>1, LinkedSome
<1>3. ASSUME NEW x, NEW y, Linked(s, x, y) PROVE Linked(t, x, y) \/ (x = a /\ Linked(t, b, y))
  BY <1>3 DEF Reroutes
<1>4. ASSUME NEW n \in Nodes(s) PROVE n \in Nodes(t)
  <2>1. CASE n \in DOMAIN s.types \/ n \in s.dbs
    <3>1. s.dbs = t.dbs
      BY DEF IsSpec
    <3> QED BY <1>2, <2>1, <3>1, NodesOK
  <2>2. CASE \E m : Linked(s, n, m) \/ Linked(s, m, n)
    <3>1. \E m : Linked(t, n, m) \/ Linked(t, m, n)
      BY <1>1, <1>3, <2>2
    <3> QED BY <1>2, <3>1, NodesOK
  <2> QED BY <2>1, <2>2, NodesOK
<1>5. ASSUME NEW set, ClosedUnder(t, set) PROVE ClosedUnder(s, set)
  <2> SUFFICES ASSUME NEW x \in set, NEW y, Linked(s, x, y) PROVE y \in set
    BY DEF ClosedUnder
  <2>1. \A u \in set : \A v : Linked(t, u, v) => v \in set
    BY <1>5 DEF ClosedUnder
  <2>2. CASE Linked(t, x, y)
    BY <2>1, <2>2
  <2>3. CASE x = a /\ Linked(t, b, y)
    <3>1. b \in set
      BY <1>1, <2>1, <2>3
    <3> QED BY <2>1, <2>3, <3>1
  <2> QED BY <1>3, <2>2, <2>3
<1> QED BY <1>2, <1>4, <1>5 DEF Serves

\* Nothing is cut off if two fixes after one another cut nothing off.
LEMMA ServesTwice ==
    ASSUME NEW s, NEW t, NEW u, Serves(s, t), Serves(t, u)
    PROVE  Serves(s, u)
<1>1. Nodes(s) \subseteq Nodes(u)
  BY DEF Serves
<1>2. \A set : ClosedUnder(u, set) => ClosedUnder(s, set)
  BY DEF Serves
<1> QED BY <1>1, <1>2 DEF Serves

\* Where nothing is cut off, all is reached that was.
LEMMA ServesReach ==
    ASSUME NEW s, IsSpec(s), s.deps # <<>>, NEW t, IsSpec(t), t.deps # <<>>, Serves(s, t), NEW n \in Nodes(s)
    PROVE  Reach(s, Nodes(s), n) \subseteq Reach(t, Nodes(t), n)
<1> DEFINE V == Nodes(s)
           W == Nodes(t)
           ClosedS(set) == \A e \in Range(Edges(s)) : e.from \in set /\ e.to \in V => e.to \in set
           ClosedT(set) == \A e \in Range(Edges(t)) : e.from \in set /\ e.to \in W => e.to \in set
<1> SUFFICES ASSUME NEW m \in Reach(s, V, n) PROVE m \in Reach(t, W, n)
  OBVIOUS
<1>1. m \in V /\ \A set \in SUBSET V : n \in set /\ ClosedS(set) => m \in set
  BY DEF Reach
<1>2. V \subseteq W
  BY DEF Serves
<1>3. ASSUME NEW set \in SUBSET W, n \in set, ClosedT(set) PROVE m \in set
  <2>1. ClosedUnder(t, set)
    <3> SUFFICES ASSUME NEW x \in set, NEW y, Linked(t, x, y) PROVE y \in set
      BY DEF ClosedUnder
    <3>1. PICK i \in DOMAIN t.deps : t.deps[i].from = x /\ t.deps[i].to = y
      BY DEF Linked
    <3>2. Edges(t) = t.deps /\ t.deps[i] \in Range(Edges(t))
      BY DEF Edges, Range
    <3>3. y \in W
      BY NodesOK
    <3> QED BY <1>3, <3>1, <3>2, <3>3
  <2>2. ClosedUnder(s, set)
    BY <2>1 DEF Serves
  <2>3. ClosedS(set \cap V)
    <3> SUFFICES ASSUME NEW e \in Range(Edges(s)), e.from \in set \cap V, e.to \in V PROVE e.to \in set \cap V
      OBVIOUS
    <3>1. Linked(s, e.from, e.to)
      BY DEF Linked, Edges, Range
    <3> QED BY <2>2, <3>1 DEF ClosedUnder
  <2>4. set \cap V \in SUBSET V /\ n \in set \cap V
    BY <1>3
  <2> HIDE DEF ClosedS
  <2>5. m \in set \cap V
    BY <1>1, <2>3, <2>4
  <2> QED BY <2>5
<1> HIDE DEF V, ClosedS
<1> QED BY <1>1, <1>2, <1>3 DEF Reach

\* Every dependency but those between the two names of a pair stays, if the edit keeps all links
\* between others.
LEMMA LinkedKept ==
    ASSUME NEW s, IsSpec(s), NEW t, NEW p, NEW T, T = {e \in LinkSet : ~(e.from = p[1] /\ e.to = p[2])},
           Keeps(s, t, T), NEW x, NEW y, Linked(s, x, y), ~(x = p[1] /\ y = p[2])
    PROVE  Linked(t, x, y)
<1>1. PICK i \in DOMAIN s.deps : s.deps[i].from = x /\ s.deps[i].to = y
  BY DEF Linked
<1>2. s.deps \in Seq(LinkSet)
  BY SpecOK
<1>3. s.deps[i] \in T
  BY <1>1, <1>2
<1>4. Kept(s.deps, T, t.deps)
  BY DEF Keeps
<1>5. \E j \in DOMAIN t.deps : t.deps[j] = s.deps[i]
  BY <1>3, <1>4, KeptMembers
<1> QED BY <1>1, <1>5 DEF Linked

\* All that is removed is a dependency between the two.
LEMMA RemovedLinks ==
    ASSUME NEW s, IsSpec(s), NEW p, NEW x, NEW y, Linked(s, x, y), ~(x = p[1] /\ y = p[2])
    PROVE  Linked(RemoveDependencyOnce(s, p), x, y)
<1> DEFINE T == {e \in LinkSet : ~(e.from = p[1] /\ e.to = p[2])}
           t == RemoveDependencyOnce(s, p)
<1>1. Outside(p, T)
  BY DEF Outside
<1>2. Keeps(s, t, T)
  BY <1>1, RemoveDependencyOK
<1> DEFINE U == T
<1>3. U = {e \in LinkSet : ~(e.from = p[1] /\ e.to = p[2])} /\ Keeps(s, t, U)
  BY <1>2
<1> HIDE DEF U, t
<1>4. Linked(t, x, y)
  BY <1>3, LinkedKept
<1> QED BY <1>4 DEF t

\* The added dependency is there, and so are all others.
LEMMA AddedLinks ==
    ASSUME NEW s, IsSpec(s), NEW a \in Names, NEW b \in Names, NEW sync \in BOOLEAN
    PROVE  LET t == AddDependencyIfMissing(s, <<a, b>>, sync) IN
           Linked(t, a, b) /\ \A x, y : Linked(s, x, y) => Linked(t, x, y)
<1> DEFINE t == AddDependencyIfMissing(s, <<a, b>>, sync)
           e == Link(a, b, sync)
<1>1. s.deps \in Seq(LinkSet) /\ e \in LinkSet /\ e.from = a /\ e.to = b
  BY SpecOK DEF Link, LinkSet
<1>2. CASE HasDep(s, <<a, b>>)
  <2>1. t = s
    BY <1>2 DEF AddDependencyIfMissing
  <2>2. First(s.deps, <<a, b>>) \in DOMAIN s.deps
        /\ s.deps[First(s.deps, <<a, b>>)].from = a /\ s.deps[First(s.deps, <<a, b>>)].to = b
    BY <1>1, <1>2, FirstOK DEF HasDep
  <2>3. Linked(s, a, b)
    BY <2>2 DEF Linked
  <2> QED BY <2>1, <2>3
<1>3. CASE ~HasDep(s, <<a, b>>)
  <2> DEFINE deps == Append(s.deps, e)
  <2>1. t = [s EXCEPT !.deps = deps]
    BY <1>3 DEF AddDependencyIfMissing
  <2> HIDE DEF e
  <2>2. /\ deps \in Seq(LinkSet) /\ DOMAIN s.deps = 1 .. Len(s.deps) /\ Len(s.deps) \in Nat
        /\ DOMAIN deps = 1 .. Len(s.deps) + 1
        /\ (\A i \in 1 .. Len(s.deps) : deps[i] = s.deps[i]) /\ deps[Len(s.deps) + 1] = e
    BY <1>1, AppendProperties
  <2> HIDE DEF deps, t
  <2>3. t.deps = deps
    BY <2>1, <2>2, NewDeps
  <2>4. Len(s.deps) + 1 \in DOMAIN deps /\ \A i \in DOMAIN s.deps : i \in DOMAIN deps /\ deps[i] = s.deps[i]
    BY <2>2
  <2>5. Linked(t, a, b)
    BY <1>1, <2>2, <2>3, <2>4 DEF Linked
  <2>6. \A x, y : Linked(s, x, y) => Linked(t, x, y)
    BY <2>3, <2>4 DEF Linked
  <2> QED BY <2>5, <2>6 DEF t
<1> QED BY <1>2, <1>3

\* What a service called is behind the one that took over a part of its calls.
LEMMA SplitGodReroutes ==
    ASSUME NEW s, IsSpec(s), NEW nodes \in Seq(Names), Len(nodes) = 1, SplitGod(s, nodes) # s
    PROVE  LET t == SplitGod(s, nodes) IN
           /\ DOMAIN s.types \subseteq DOMAIN t.types
           /\ \E split : Reroutes(s, t, nodes[1], split)
<1> DEFINE main == nodes[1]
           from == {i \in DOMAIN s.deps : s.deps[i].from = main}
           t == SplitGod(s, nodes)
<1>1. PICK split \in Names, moved \in SUBSET from :
        t = AddDependencyIfMissing(Halved(s, split, moved), <<main, split>>, TRUE)
  BY SplitGodShape
<1> DEFINE h == Halved(s, split, moved)
<1>2. main \in Names
  OBVIOUS
<1>3. /\ IsSpec(h)
      /\ h.deps = [i \in DOMAIN s.deps |-> IF i \in moved THEN [s.deps[i] EXCEPT !.from = split] ELSE s.deps[i]]
      /\ DOMAIN h.types = DOMAIN s.types \cup {split}
  <2> DEFINE places == moved
  <2>0. \A i \in places : s.deps[i].from = main
    OBVIOUS
  <2> HIDE DEF main, places
  <2>1. IsHalved(s, Halved(s, split, places), main, split, places)
    BY <2>0, HalvedOK
  <2>2. IsHalved(s, h, main, split, moved)
    BY <2>1 DEF places
  <2> HIDE DEF h
  <2> QED BY <2>2 DEF IsHalved
<1>4. s.deps \in Seq(LinkSet)
  BY SpecOK
<1>5. ASSUME NEW x, NEW y, Linked(s, x, y)
      PROVE  Linked(h, x, y) \/ (x = main /\ Linked(h, split, y))
  <2>1. PICK i \in DOMAIN s.deps : s.deps[i].from = x /\ s.deps[i].to = y
    BY <1>5 DEF Linked
  <2>2. i \in DOMAIN h.deps /\ h.deps[i] = IF i \in moved THEN [s.deps[i] EXCEPT !.from = split] ELSE s.deps[i]
    BY <1>3, <2>1
  <2>3. CASE i \in moved
    <3>1. x = main
      BY <2>1, <2>3
    <3>2. s.deps[i] \in LinkSet
      BY <1>4
    <3>3. h.deps[i].from = split /\ h.deps[i].to = y
      BY <2>1, <2>2, <2>3, <3>2 DEF LinkSet
    <3> QED BY <2>2, <3>1, <3>3 DEF Linked
  <2>4. CASE i \notin moved
    BY <2>1, <2>2, <2>4 DEF Linked
  <2> QED BY <2>3, <2>4
<1> HIDE DEF h, t, main
<1>6. Linked(t, main, split) /\ \A x, y : Linked(h, x, y) => Linked(t, x, y)
  BY <1>1, <1>2, <1>3, AddedLinks DEF h
<1>7. t.types = h.types
  BY <1>1, <1>2, <1>3, AddDependencyOK DEF h
<1>8. Reroutes(s, t, main, split)
  BY <1>5, <1>6 DEF Reroutes
<1>9. DOMAIN s.types \subseteq DOMAIN t.types
  BY <1>3, <1>7
<1> QED BY <1>8, <1>9 DEF main, t

\* The services are the same when the BFF takes over a call.
LEMMA ThroughTypes ==
    ASSUME NEW t, IsSpec(t), NEW page \in Names, NEW bff \in Names, NEW target \in Names
    PROVE  Through(t, page, bff, target).types = t.types
<1> DEFINE less == RemoveDependencyOnce(t, <<page, target>>)
<1>1. Outside(<<page, target>>, {})
  BY DEF Outside
<1>2. IsSpec(less) /\ less.types = t.types
  BY <1>1, RemoveDependencyOK DEF Keeps
<1> HIDE DEF less
<1>3. AddDependencyIfMissing(less, <<bff, target>>, TRUE).types = t.types
  BY <1>2, AddDependencyOK
<1> QED BY <1>3 DEF Through, less

\* The BFF takes over a call, and what it took over before stays.
LEMMA ThroughReroutes ==
    ASSUME NEW s, NEW t, IsSpec(t), NEW page \in Names, NEW bff \in Names, NEW target \in Names,
           target # bff, Reroutes(s, t, page, bff)
    PROVE  Reroutes(s, Through(t, page, bff, target), page, bff)
<1> DEFINE less == RemoveDependencyOnce(t, <<page, target>>)
           u == AddDependencyIfMissing(less, <<bff, target>>, TRUE)
<1>1. Outside(<<page, target>>, {})
  BY DEF Outside
<1>2. IsSpec(less) /\ less.types = t.types
  BY <1>1, RemoveDependencyOK DEF Keeps
<1>3. \A x, y : Linked(t, x, y) /\ ~(x = page /\ y = target) => Linked(less, x, y)
  <2> SUFFICES ASSUME NEW x, NEW y, Linked(t, x, y), ~(x = page /\ y = target) PROVE Linked(less, x, y)
    OBVIOUS
  <2> DEFINE p == <<page, target>>
  <2>1. p[1] = page /\ p[2] = target
    OBVIOUS
  <2> HIDE DEF p
  <2>2. Linked(RemoveDependencyOnce(t, p), x, y)
    BY <2>1, RemovedLinks
  <2> QED BY <2>2 DEF p
<1> HIDE DEF less
<1>4. Linked(u, bff, target) /\ \A x, y : Linked(less, x, y) => Linked(u, x, y)
  BY <1>2, AddedLinks
<1>6. u = Through(t, page, bff, target)
  BY DEF Through, less
<1> HIDE DEF u
<1>7. Linked(u, page, bff)
  BY <1>3, <1>4 DEF Reroutes
<1>8. ASSUME NEW y, Linked(t, bff, y) PROVE Linked(u, bff, y)
  BY <1>3, <1>4, <1>8
<1>9. ASSUME NEW x, NEW y, Linked(s, x, y) PROVE Linked(u, x, y) \/ (x = page /\ Linked(u, bff, y))
  <2>1. Linked(t, x, y) \/ (x = page /\ Linked(t, bff, y))
    BY <1>9 DEF Reroutes
  <2>2. CASE Linked(t, x, y) /\ x = page /\ y = target
    BY <1>4, <2>2
  <2>3. CASE Linked(t, x, y) /\ ~(x = page /\ y = target)
    BY <1>3, <1>4, <2>3
  <2> QED BY <1>8, <2>1, <2>2, <2>3
<1>10. Reroutes(s, u, page, bff)
  BY <1>7, <1>9 DEF Reroutes
<1> QED BY <1>6, <1>10

\* There is one service more, and what a page called is behind it unless it has the name of
\* one of these.
LEMMA InsertBFFReroutes ==
    ASSUME NEW s, IsSpec(s), NEW nodes \in Seq(Names), Len(nodes) >= 2
    PROVE  LET t == InsertBFF(s, nodes)
               bff == UniqueServiceName(s, Name("bff"))
           IN /\ DOMAIN t.types = DOMAIN s.types \cup {bff}
              /\ (\A i \in 2 .. Len(nodes) : nodes[i] # bff) => Reroutes(s, t, nodes[1], bff)
<1> DEFINE n == Len(nodes)
           page == nodes[1]
           bff == UniqueServiceName(s, Name("bff"))
           Apart == \A i \in 2 .. n : nodes[i] # bff
           Right(u) == /\ IsSpec(u) /\ (Apart => Reroutes(s, u, page, bff))
                       /\ DOMAIN u.types = DOMAIN s.types \cup {bff}
<1>1. n \in Nat /\ 2 <= n /\ DOMAIN nodes = 1 .. n /\ (\A i \in 1 .. n : nodes[i] \in Names) /\ page \in Names
  OBVIOUS
<1>2. PICK after :
        /\ after[1] = BffStart(s, page, bff)
        /\ \A i \in 2 .. n : after[i] = Through(after[i - 1], page, bff, nodes[i])
        /\ InsertBFF(s, nodes) = after[n]
  BY <1>1, BffRecursion
<1>3. bff \in Names
  BY BffName
<1> HIDE DEF n, bff, page
<1>5. Right(after[1])
  <2> DEFINE typed == EnsureType(s, bff, "api_gateway")
             u == AddDependencyIfMissing(typed, <<page, bff>>, TRUE)
  <2>1. IsSpec(typed) /\ typed.deps = s.deps /\ DOMAIN typed.types = DOMAIN s.types \cup {bff}
    BY <1>3, EnsureTypeOK DEF SpecTypes, Keeps
  <2>2. after[1] = u
    BY <1>2 DEF BffStart
  <2> HIDE DEF typed
  <2>3. Linked(u, page, bff) /\ \A x, y : Linked(typed, x, y) => Linked(u, x, y)
    BY <1>1, <1>3, <2>1, AddedLinks
  <2>4. IsSpec(u) /\ u.types = typed.types
    BY <1>1, <1>3, <2>1, AddDependencyOK DEF Keeps
  <2> HIDE DEF u
  <2>5. \A x, y : Linked(s, x, y) => Linked(typed, x, y)
    BY <2>1 DEF Linked
  <2>6. Reroutes(s, u, page, bff)
    BY <2>3, <2>5 DEF Reroutes
  <2> QED BY <2>1, <2>2, <2>4, <2>6
<1> DEFINE S0 == {i \in 1 .. n : Right(after[i])}
           g == [i \in 1 .. n |-> i]
<1>6. g[1] \in S0
  BY <1>1, <1>5
<1> HIDE DEF Right
<1>7. ASSUME NEW i \in 1 + 1 .. n, g[i - 1] \in S0 PROVE g[i] \in S0
  <2>1. i \in 2 .. n /\ i \in 1 .. n /\ i - 1 \in 1 .. n /\ g[i - 1] = i - 1 /\ g[i] = i
    BY <1>1
  <2>2. Right(after[i - 1])
    BY <1>7, <2>1
  <2>3. nodes[i] \in Names /\ (Apart => nodes[i] # bff)
    BY <1>1, <2>1
  <2> DEFINE t == after[i - 1]
             target == nodes[i]
             u == Through(t, page, bff, target)
  <2> HIDE DEF t, target
  <2>4. IsSpec(t) /\ (Apart => Reroutes(s, t, page, bff)) /\ DOMAIN t.types = DOMAIN s.types \cup {bff}
    BY <2>2 DEF Right, t
  <2>5. target \in Names /\ (Apart => target # bff)
    BY <2>3 DEF target
  <2>6. (Apart => Reroutes(s, u, page, bff)) /\ u.types = t.types
    <3> HIDE DEF Apart
    <3> QED BY <1>1, <1>3, <2>4, <2>5, ThroughReroutes, ThroughTypes
  <2>7. IsSpec(u)
    <3>1. Outside(<<page, target>>, {})
      BY DEF Outside
    <3> QED BY <1>1, <1>3, <2>4, <2>5, <3>1, ThroughOK DEF Keeps
  <2>8. Right(u) /\ after[i] = u
    BY <1>2, <2>1, <2>4, <2>6, <2>7 DEF Right, t, target
  <2> QED BY <2>1, <2>8
<1>8. g[n] \in S0
  <2> HIDE DEF g, S0
  <2>1. \A i \in 1 + 1 .. n : g[i - 1] \in S0 => g[i] \in S0
    BY <1>7
  <2>2. 1 \in Nat /\ 1 <= n
    BY <1>1
  <2>3. \A i \in 1 .. n : g[i] \in S0
    BY <1>1, <1>6, <2>1, <2>2, Stays
  <2> QED BY <1>1, <2>3
<1>9. Right(after[n])
  BY <1>1, <1>8
<1> QED BY <1>2, <1>9 DEF Right, bff, page, n

\* Fixes that lead around dependencies.
Rerouting == {"god_service", "ui_orchestrator"}

\* A new BFF has one of the names of BFFs.
LEMMA NewBFFName ==
    ASSUME NEW s
    PROVE  LET bff == UniqueServiceName(s, Name("bff"))
           IN bff \in BFFNames /\ (bff \notin DOMAIN s.types \/ bff = LastBFF)
<1> DEFINE bff == UniqueServiceName(s, Name("bff"))
<1>1. Name("bff") \in Names
  <2>1. <<>> \in Seq({"split", "db", "number"} \X Nat)
    OBVIOUS
  <2> QED BY <2>1 DEF Name, Names
<1>2. /\ bff = Name("bff") \/ \E k \in NameNumbers : bff = Suffixed(Name("bff"), <<"number", k>>)
      /\ bff \notin DOMAIN s.types \/ bff = LastBFF
  BY <1>1, UniqueOK DEF LastBFF
<1> HIDE DEF bff
<1>3. bff \in BFFNames
  BY <1>2 DEF BFFNames, NameNumbers, LastBFF
<1> QED BY <1>2, <1>3 DEF bff

\* One of these fixes, made after others for a detection of the first YAML.
LEMMA FixReroutes ==
    ASSUME NEW first, BFFsListed(first), NEW s, IsSpec(s), s.deps # <<>>,
           DOMAIN first.types \subseteq DOMAIN s.types,
           NEW d \in FixableSet, d.kind \in Rerouting, d.nodes \in Seq(Nodes(first)),
           Fix(s, d) # s, LastBFF \notin DOMAIN Fix(s, d).types
    PROVE  /\ DOMAIN s.types \subseteq DOMAIN Fix(s, d).types
           /\ Fix(s, d).deps # <<>> /\ Serves(s, Fix(s, d))
<1> DEFINE nodes == d.nodes
           t == Fix(s, d)
<1>1. nodes \in Seq(Names) /\ Fixable(d)
  BY DEF FixableSet
<1>2. IsSpec(t)
  <2>1. Spares(d, {})
    BY DEF Spares
  <2>2. Keeps(s, Fix(s, d), {})
    BY <2>1, FixOK
  <2> QED BY <2>2 DEF Keeps
<1>3. CASE d.kind = "god_service"
  <2>1. t = SplitGod(s, nodes) /\ Len(nodes) = 1
    BY <1>1, <1>3 DEF Fix, Fixable
  <2> HIDE DEF nodes, t
  <2>2. DOMAIN s.types \subseteq DOMAIN t.types /\ \E split : Reroutes(s, t, nodes[1], split)
    BY <1>1, <2>1, SplitGodReroutes DEF t
  <2>3. t.deps # <<>> /\ Serves(s, t)
    BY <1>2, <2>2, ReroutesServes
  <2> QED BY <2>2, <2>3 DEF t
<1>4. CASE d.kind = "ui_orchestrator"
  <2>1. t = InsertBFF(s, nodes) /\ Len(nodes) >= 2
    BY <1>1, <1>4 DEF Fix, Fixable
  <2> DEFINE bff == UniqueServiceName(s, Name("bff"))
  <2>2. bff \in BFFNames /\ (bff \notin DOMAIN s.types \/ bff = LastBFF)
    BY NewBFFName
  <2>3. LastBFF \notin DOMAIN t.types
    OBVIOUS
  <2>4. \A i \in DOMAIN nodes : nodes[i] \in Nodes(first)
    OBVIOUS
  <2> HIDE DEF nodes, t
  <2>5. DOMAIN t.types = DOMAIN s.types \cup {bff}
    BY <1>1, <2>1, InsertBFFReroutes
  <2> HIDE DEF bff
  <2>6. bff \notin DOMAIN s.types
    BY <2>2, <2>3, <2>5
  <2>7. \A i \in 2 .. Len(nodes) : nodes[i] # bff
    <3> SUFFICES ASSUME NEW i \in 2 .. Len(nodes), nodes[i] = bff PROVE FALSE
      OBVIOUS
    <3>1. i \in DOMAIN nodes
      BY <1>1
    <3>2. bff \in Nodes(first) \cap BFFNames
      BY <2>2, <2>4, <3>1
    <3> QED BY <2>6, <3>2 DEF BFFsListed
  <2>8. Reroutes(s, t, nodes[1], bff)
    BY <1>1, <2>1, <2>7, InsertBFFReroutes DEF bff
  <2>9. t.deps # <<>> /\ Serves(s, t)
    BY <1>2, <2>5, <2>8, ReroutesServes
  <2> QED BY <2>5, <2>9 DEF t
<1> QED BY <1>3, <1>4 DEF Rerouting

\* As long as only such fixes have changed the YAML, nothing is cut off.
Reaching(first, acc) ==
    ((\A d \in Range(acc.applied) : d.kind \in Rerouting) /\ LastBFF \notin DOMAIN acc.spec.types) =>
        /\ DOMAIN first.types \subseteq DOMAIN acc.spec.types
        /\ acc.spec.deps # <<>> /\ Serves(first, acc.spec)

\* What a BFF inserted and a service split leave among the services, even where they cut off.
LEMMA TypesGrow ==
    ASSUME NEW s, IsSpec(s), NEW d \in FixableSet, d.kind \in Rerouting
    PROVE  DOMAIN s.types \subseteq DOMAIN Fix(s, d).types
<1> DEFINE nodes == d.nodes
<1>1. nodes \in Seq(Names) /\ Fixable(d)
  BY DEF FixableSet
<1>2. CASE d.kind = "god_service"
  <2>1. Fix(s, d) = SplitGod(s, nodes) /\ Len(nodes) = 1
    BY <1>1, <1>2 DEF Fix, Fixable
  <2> HIDE DEF nodes
  <2>2. CASE SplitGod(s, nodes) = s
    BY <2>1, <2>2
  <2>3. CASE SplitGod(s, nodes) # s
    BY <1>1, <2>1, <2>3, SplitGodReroutes
  <2> QED BY <2>2, <2>3
<1>3. CASE d.kind = "ui_orchestrator"
  <2>1. Fix(s, d) = InsertBFF(s, nodes) /\ Len(nodes) >= 2
    BY <1>1, <1>3 DEF Fix, Fixable
  <2> HIDE DEF nodes
  <2> DEFINE t == InsertBFF(s, nodes)
             bff == UniqueServiceName(s, Name("bff"))
  <2>2. DOMAIN t.types = DOMAIN s.types \cup {bff}
    BY <1>1, <2>1, InsertBFFReroutes
  <2> HIDE DEF t, bff
  <2>3. DOMAIN s.types \subseteq DOMAIN t.types
    BY <2>2
  <2> QED BY <2>1, <2>3 DEF t
<1> QED BY <1>2, <1>3 DEF Rerouting

\* One more fix cuts nothing off.
LEMMA ReachingStep ==
    ASSUME NEW first, BFFsListed(first), NEW acc \in Progress,
           NEW d \in FixableSet, d.nodes \in Seq(Nodes(first)), Reaching(first, acc)
    PROVE  Reaching(first, OneFix(acc, d))
<1> DEFINE fixed == Fix(acc.spec, d)
           applied == Append(acc.applied, d)
<1>1. IsSpec(acc.spec) /\ acc.applied \in Seq(FixableSet)
  BY SpecSetOK DEF Progress
<1>2. CASE fixed = acc.spec
  BY <1>2 DEF OneFix
<1>3. CASE fixed # acc.spec
  <2>1. OneFix(acc, d) = [spec |-> fixed, applied |-> applied]
    BY <1>3 DEF OneFix
  <2>2. Range(applied) = Range(acc.applied) \cup {d}
    BY <1>1, AppendRange
  <2> HIDE DEF applied, fixed
  <2>3. ASSUME \A x \in Range(applied) : x.kind \in Rerouting, LastBFF \notin DOMAIN fixed.types
        PROVE  /\ DOMAIN first.types \subseteq DOMAIN fixed.types
               /\ fixed.deps # <<>> /\ Serves(first, fixed)
    <3>1. d.kind \in Rerouting /\ \A x \in Range(acc.applied) : x.kind \in Rerouting
      BY <2>2, <2>3
    <3>2. DOMAIN acc.spec.types \subseteq DOMAIN fixed.types
      BY <1>1, <3>1, TypesGrow DEF fixed
    <3>3. /\ DOMAIN first.types \subseteq DOMAIN acc.spec.types
          /\ acc.spec.deps # <<>> /\ Serves(first, acc.spec)
      BY <2>3, <3>1, <3>2 DEF Reaching
    <3>4. fixed.deps # <<>> /\ Serves(acc.spec, fixed)
      BY <1>1, <1>3, <2>3, <3>1, <3>3, FixReroutes DEF fixed
    <3>5. Serves(first, fixed)
      BY <3>3, <3>4, ServesTwice
    <3> QED BY <3>2, <3>3, <3>4, <3>5
  <2> QED BY <2>1, <2>3 DEF Reaching
<1> QED BY <1>2, <1>3

\* All of the fixes.
LEMMA FixedReaching ==
    ASSUME IsSpec(spec), spec.deps # <<>>, BFFsListed(spec), NEW chosen \in Seq(FixableSet),
           \A i \in DOMAIN chosen : chosen[i].nodes \in Seq(Nodes(spec))
    PROVE  Reaching(spec, Fixed(chosen))
<1> DEFINE n == Len(chosen)
<1>1. n \in Nat /\ 0 <= n /\ \A i \in 1 .. n : chosen[i] \in FixableSet /\ chosen[i].nodes \in Seq(Nodes(spec))
  OBVIOUS
<1>2. PICK after :
        /\ after[0] = [spec |-> spec, applied |-> <<>>]
        /\ \A i \in 1 .. n : after[i] = OneFix(after[i - 1], chosen[i])
        /\ \A i \in 0 .. n : after[i] \in Progress
        /\ Fixed(chosen) = after[n]
  BY FixedRecursion
<1> HIDE DEF n
<1> DEFINE S0 == {i \in 0 .. n : Reaching(spec, after[i])}
           g == [i \in 0 .. n |-> i]
<1>3. g[0] \in S0
  <2>1. after[0].spec = spec
    BY <1>2
  <2>2. Serves(spec, spec)
    BY DEF Serves
  <2>3. Reaching(spec, after[0])
    BY <2>1, <2>2 DEF Reaching
  <2> QED BY <1>1, <2>3
<1>4. ASSUME NEW i \in 0 + 1 .. n, g[i - 1] \in S0 PROVE g[i] \in S0
  <2>1. i \in 1 .. n /\ i \in 0 .. n /\ i - 1 \in 0 .. n /\ g[i - 1] = i - 1 /\ g[i] = i
    BY <1>1
  <2>2. Reaching(spec, after[i - 1]) /\ after[i - 1] \in Progress
    BY <1>2, <1>4, <2>1
  <2>3. Reaching(spec, after[i])
    BY <1>1, <1>2, <2>1, <2>2, ReachingStep
  <2> QED BY <2>1, <2>3
<1>5. g[n] \in S0
  <2> HIDE DEF g, S0
  <2>1. \A i \in 0 + 1 .. n : g[i - 1] \in S0 => g[i] \in S0
    BY <1>4
  <2>2. 0 \in Nat
    OBVIOUS
  <2>3. \A i \in 0 .. n : g[i] \in S0
    BY <1>1, <1>3, <2>1, <2>2, Stays
  <2> QED BY <1>1, <2>3
<1> QED BY <1>1, <1>2, <1>5

(***************************************************************************)
(* The invariant.                                                          *)
(***************************************************************************)

\* Between a preview and the apply request that follows it, the YAML is the one that was
\* analysed; and a result is that of the last request.
FixInv ==
    /\ FixTypeOK
    /\ phase = "edit" => result = NoResult
    /\ phase = "select" => shown \in Analyses(spec)
    /\ SelectedIsFound
    /\ OthersKept
    /\ ReachKept

\* A word is a name.
LEMMA WordNames ==
    ASSUME NEW w \in Words
    PROVE  Name(w) \in Names
<1>1. <<>> \in Seq({"split", "db", "number"} \X Nat)
  OBVIOUS
<1> QED BY <1>1 DEF Name, Names

\* What the client writes are links between names.
LEMMA LinkNames ==
    ASSUME NEW l \in Links
    PROVE  Name(l[1]) \in Names /\ Name(l[2]) \in Names /\ l[3] \in BOOLEAN
BY FixAssumption, WordNames

\* Where nothing has been applied, there is nothing to say of it.
LEMMA NoResultOK ==
    ASSUME result = NoResult
    PROVE  SelectedIsFound /\ OthersKept /\ ReachKept /\ result.how \in {"none", "key", "index"}
BY DEF NoResult, SelectedIsFound, OthersKept, ReachKept, Rerouted

\* The YAML is at first one without links.
LEMMA FixInitOK ==
    ASSUME FixInit
    PROVE  FixInv
<1> DEFINE types == [n \in {x \in Written : Types[x.word] # "none"} |-> Types[n.word]]
           dbs == {Name(w) : w \in Listed}
<1>1. spec = [deps |-> <<>>, calls |-> <<>>, dbs |-> dbs, types |-> types]
  BY DEF FixInit
<1>2. IsFiniteSet(Written) /\ Written \subseteq Names /\ \A x \in Written : x.word \in Words
  <2> DEFINE f == [w \in Words |-> Name(w)]
  <2>1. f \in [Words -> Range(f)] /\ Range(f) = Written
    BY DEF Range, Written
  <2>2. IsFiniteSet(Words)
    BY FixAssumption
  <2> HIDE DEF f
  <2>3. IsFiniteSet(Written)
    BY <2>1, <2>2, RangeFinite
  <2>4. \A x \in Written : x \in Names /\ x.word \in Words
    BY WordNames DEF Written, Name
  <2> QED BY <2>3, <2>4
<1>3. types \in [DOMAIN types -> SpecTypes] /\ DOMAIN types \subseteq Written
  BY <1>2, FixAssumption DEF SpecTypes
<1> HIDE DEF types, dbs
<1>4. IsSpec(spec)
  <2>1. IsFiniteSet(DOMAIN types) /\ DOMAIN types \subseteq Names
    BY <1>2, <1>3, FS_Subset
  <2>2. <<>> \in Seq(LinkSet)
    OBVIOUS
  <2> QED BY <1>1, <1>3, <2>1, <2>2, SpecOf DEF dbs
<1>5. MaxRounds \in Nat
  BY FixAssumption
<1>6. phase = "edit" /\ rounds = 0 /\ shown = <<>> /\ result = NoResult
  BY DEF FixInit
<1> QED BY <1>4, <1>5, <1>6, NoResultOK DEF FixInv, FixTypeOK

\* The client only adds links, and has no result.
LEMMA WriteOK ==
    ASSUME FixInv, NEW l \in Links,
           \/ WriteDependency(Name(l[1]), Name(l[2]), l[3])
           \/ l[3] /\ WriteCall(Name(l[1]), Name(l[2]))
    PROVE  FixInv'
<1>1. phase = "edit" /\ phase' = "edit" /\ UNCHANGED <<phase, rounds, shown, result>> /\ result = NoResult
  BY DEF WriteDependency, WriteCall, FixInv
<1>2. IsSpec(spec) /\ spec.deps \in Seq(LinkSet) /\ spec.calls \in Seq(LinkSet)
  BY SpecOK DEF FixInv, FixTypeOK
<1>3. IsSpec(spec)'
  <2>1. CASE WriteDependency(Name(l[1]), Name(l[2]), l[3])
    <3> DEFINE new == Link(Name(l[1]), Name(l[2]), l[3])
               deps == Append(spec.deps, new)
    <3>1. spec' = [spec EXCEPT !.deps = deps]
      BY <2>1 DEF WriteDependency
    <3>2. new \in LinkSet
      BY LinkNames DEF Link, LinkSet
    <3> HIDE DEF new
    <3>3. deps \in Seq(LinkSet)
      BY <1>2, <3>2
    <3> HIDE DEF deps
    <3>4. IsSpec(spec')
      BY <1>2, <3>1, <3>3, NewDeps
    <3> QED BY <3>4 DEF IsSpec
  <2>2. CASE WriteCall(Name(l[1]), Name(l[2]))
    <3> DEFINE new == Link(Name(l[1]), Name(l[2]), TRUE)
               calls == Append(spec.calls, new)
    <3>1. spec' = [spec EXCEPT !.calls = calls]
      BY <2>2 DEF WriteCall
    <3>2. new \in LinkSet
      BY LinkNames DEF Link, LinkSet
    <3> HIDE DEF new
    <3>3. calls \in Seq(LinkSet)
      BY <1>2, <3>2
    <3> HIDE DEF calls
    <3>4. IsSpec(spec')
      BY <1>2, <3>1, <3>3, NewCalls
    <3> QED BY <3>4 DEF IsSpec
  <2> QED BY <2>1, <2>2
<1>4. result' = NoResult /\ (SelectedIsFound /\ OthersKept /\ ReachKept)'
  <2>1. SelectedIsFound'
    BY <1>1 DEF SelectedIsFound, NoResult
  <2>2. OthersKept'
    BY <1>1 DEF OthersKept, NoResult
  <2>3. ReachKept'
    BY <1>1 DEF ReachKept, Rerouted, NoResult
  <2> QED BY <1>1, <2>1, <2>2, <2>3
<1>5. FixTypeOK'
  BY <1>1, <1>3 DEF FixInv, FixTypeOK
<1>6. phase' # "select"
  BY <1>1
<1> QED BY <1>4, <1>5, <1>6 DEF FixInv

\* A preview shows an analysis of the YAML.
LEMMA PreviewOK ==
    ASSUME FixInv, Preview
    PROVE  FixInv'
<1>1. /\ rounds < MaxRounds /\ rounds' = rounds + 1 /\ phase' = "select" /\ result' = NoResult /\ spec' = spec
      /\ shown' # <<>> /\ shown' \in Analyses(spec)
  BY DEF Preview
<1>2. IsSpec(spec) /\ rounds \in 0 .. MaxRounds
  BY DEF FixInv, FixTypeOK
<1>3. IsSpec(spec') /\ shown' \in Analyses(spec')
  BY <1>1, <1>2
<1>4. rounds' \in 0 .. MaxRounds
  BY <1>1, <1>2, FixAssumption
<1>5. SelectedIsFound'
  BY <1>1 DEF SelectedIsFound, NoResult
<1>6. OthersKept'
  BY <1>1 DEF OthersKept, NoResult
<1>7. result'.how = "none"
  BY <1>1 DEF NoResult
<1>8. FixTypeOK'
  BY <1>1, <1>3, <1>4, <1>7 DEF FixTypeOK
<1>9. phase' # "edit"
  BY <1>1
<1>10. ReachKept'
  BY <1>1 DEF ReachKept, Rerouted, NoResult
<1> QED BY <1>3, <1>5, <1>6, <1>8, <1>9, <1>10 DEF FixInv

\* What the fixes of an apply request leave.
LEMMA AppliedOK ==
    ASSUME FixInv, NEW how \in {"key", "index"}, NEW asked, NEW chosen \in Seq(FixableSet),
           Apply(how, asked, chosen), phase = "select"
    PROVE  FixTypeOK' /\ OthersKept'
<1>1. IsSpec(spec) /\ rounds \in 0 .. MaxRounds
  BY DEF FixInv, FixTypeOK
<1> DEFINE fixed == Fixed(chosen)
           Unaffected(T) == \A d \in Range(fixed.applied) : Spares(d, T)
<1>2. Sparing(spec, fixed)
  BY <1>1, FixedOK
<1>3. /\ spec' = (IF fixed.applied = <<>> THEN spec ELSE Merge(spec, fixed.spec))
      /\ result' = [how |-> how, before |-> spec, asked |-> asked,
                    selected |-> {DetectionKey(d) : d \in Range(chosen)}, applied |-> fixed.applied]
      /\ phase' = "fixed" /\ shown' = <<>> /\ rounds' = rounds
  BY DEF Apply
<1>4. result'.how = how /\ result'.before = spec /\ result'.applied = fixed.applied
  BY <1>3
<1> HIDE DEF fixed
<1>5. ASSUME NEW T, Unaffected(T) PROVE Keeps(spec, spec', T)
  <2>1. CASE fixed.applied = <<>>
    BY <1>1, <1>3, <2>1, KeepsSelf
  <2>2. CASE fixed.applied # <<>>
    <3>1. Keeps(spec, fixed.spec, T)
      BY <1>2, <1>5 DEF Sparing
    <3>2. Keeps(spec, Merge(spec, fixed.spec), T)
      BY <1>1, <3>1, MergeOK
    <3> QED BY <1>3, <2>2, <3>2
  <2> QED BY <2>1, <2>2
<1>6. IsSpec(spec')
  <2>1. Unaffected({})
    BY DEF Spares
  <2> QED BY <1>5, <2>1 DEF Keeps
<1>7. FixTypeOK'
  BY <1>1, <1>3, <1>4, <1>6 DEF FixTypeOK
<1>8. OthersKept'
  <2> DEFINE Others(links) == {e \in Range(links) : \A d \in Range(fixed.applied) : ~About(d, e)}
  <2>1. \A links : Unaffected(Others(links))
    BY DEF Spares
  <2> HIDE DEF Unaffected, Others
  <2>2. Kept(spec.deps, Others(spec.deps), spec'.deps)
    BY <1>5, <2>1 DEF Keeps
  <2>3. Kept(spec.calls, Others(spec.calls), spec'.calls)
    BY <1>5, <2>1 DEF Keeps
  <2> QED BY <1>4, <2>2, <2>3 DEF OthersKept, Others, About
<1> QED BY <1>7, <1>8

\* What the fixes made for detections of the YAML cut off.
LEMMA AppliedReach ==
    ASSUME FixInv, NEW how \in {"key", "index"}, NEW asked, NEW chosen \in Seq(FixableSet),
           \A i \in DOMAIN chosen : chosen[i].nodes \in Seq(Nodes(spec)), Apply(how, asked, chosen)
    PROVE  ReachKept'
<1> DEFINE fixed == Fixed(chosen)
<1>1. /\ spec' = (IF fixed.applied = <<>> THEN spec ELSE Merge(spec, fixed.spec))
      /\ result'.before = spec /\ result'.applied = fixed.applied
  BY DEF Apply
<1>2. IsSpec(spec)
  BY DEF FixInv, FixTypeOK
<1>3. Sparing(spec, fixed)
  BY <1>2, FixedOK
<1>4. SUFFICES ASSUME Rerouted', BFFsListed(spec), LastBFF \notin DOMAIN spec'.types
               PROVE  ReachAlwaysKept'
  BY <1>1 DEF ReachKept
<1>5. fixed.applied # <<>> /\ spec.deps # <<>> /\ \A d \in Range(fixed.applied) : d.kind \in Rerouting
  BY <1>1, <1>4 DEF Rerouted, AppliedKinds, Rerouting
<1>6. Reaching(spec, fixed)
  BY <1>2, <1>4, <1>5, FixedReaching
<1>7. Keeps(spec, fixed.spec, {})
  <2>1. \A d \in Range(fixed.applied) : Spares(d, {})
    BY DEF Spares
  <2> HIDE DEF fixed
  <2> QED BY <1>3, <2>1 DEF Sparing
<1> HIDE DEF fixed
<1>8. IsSpec(fixed.spec) /\ IsSpec(Merge(spec, fixed.spec))
  <2>1. Keeps(spec, Merge(spec, fixed.spec), {})
    BY <1>2, <1>7, MergeOK
  <2> QED BY <1>7, <2>1 DEF Keeps
<1>9. /\ spec' = Merge(spec, fixed.spec) /\ spec'.types = fixed.spec.types
      /\ fixed.spec.deps # <<>> => spec'.deps = fixed.spec.deps /\ spec'.dbs = fixed.spec.dbs
  BY <1>1, <1>2, <1>5, <1>8 DEF Merge, IsSpec
<1>10. fixed.spec.deps # <<>> /\ Serves(spec, fixed.spec)
  BY <1>4, <1>5, <1>6, <1>9 DEF Reaching
<1>11. IsSpec(spec') /\ spec'.deps = fixed.spec.deps /\ spec'.dbs = fixed.spec.dbs
  BY <1>8, <1>9, <1>10
<1>12. Serves(spec, spec')
  <2>1. Nodes(spec') = Nodes(fixed.spec)
    BY <1>9, <1>10, <1>11 DEF Nodes, Edges
  <2>2. \A a, b : Linked(spec', a, b) <=> Linked(fixed.spec, a, b)
    BY <1>11 DEF Linked
  <2>3. \A set : ClosedUnder(spec', set) => ClosedUnder(fixed.spec, set)
    BY <2>2 DEF ClosedUnder
  <2> QED BY <1>10, <2>1, <2>3 DEF Serves
<1>13. \A n \in Nodes(spec) : Reach(spec, Nodes(spec), n) \subseteq Reach(spec', Nodes(spec'), n)
  BY <1>2, <1>5, <1>10, <1>11, <1>12, ServesReach
<1> QED BY <1>1, <1>13 DEF ReachAlwaysKept

\* What was shown and what is found anew are detections of the same YAML.
LEMMA SelectOK ==
    ASSUME FixInv, phase = "select", NEW dets \in Analyses(spec)
    PROVE  /\ shown \in Analyses(spec)
           /\ SoundSet(spec, Kinds) \subseteq FixableSet
           /\ \A d \in SoundSet(spec, Kinds) : d.nodes \in Seq(Nodes(spec))
           /\ dets \in Seq(SoundSet(spec, Kinds))
<1>1. IsSpec(spec) /\ shown \in Analyses(spec)
  BY DEF FixInv, FixTypeOK
<1>2. PICK parts : IsParts(spec, parts) /\ dets = FlattenSeq(parts)
  BY <1>1, AnalysisParts
<1>3. \A d \in SoundSet(spec, Kinds) : d.nodes \in Seq(Nodes(spec))
  BY DEF SoundSet
<1> QED BY <1>1, <1>2, <1>3, PartsFound, FoundFixable

\* What the client selects by key is found anew, unless it is a chain: all analyses of a YAML
\* have the same keys but for chains.
LEMMA ApplyKeysOK ==
    ASSUME FixInv, ApplyKeys
    PROVE  FixInv'
<1>1. phase = "select"
  BY DEF ApplyKeys
<1>2. PICK keys \in UNION {kSubset(k, Range(OrderedDetectionKeys(shown))) : k \in 1 .. MaxSelected} :
        \E chosen \in {Chosen(ranked, keys) : ranked \in {Ranked(dets) : dets \in Analyses(spec)}} :
          Apply("key", keys, chosen)
  BY DEF ApplyKeys
<1>3. PICK dets \in Analyses(spec) : Apply("key", keys, Chosen(Ranked(dets), keys))
  BY <1>2
<1>4. keys \subseteq Range(OrderedDetectionKeys(shown))
  BY <1>2 DEF kSubset
<1> DEFINE X == SoundSet(spec, Kinds)
           chosen == Chosen(Ranked(dets), keys)
<1>5. X \subseteq FixableSet /\ (\A d \in X : d.nodes \in Seq(Nodes(spec))) /\ dets \in Seq(X)
      /\ shown \in Seq(X) /\ shown \in Analyses(spec) /\ IsSpec(spec)
  BY <1>1, SelectOK DEF FixInv, FixTypeOK
<1> HIDE DEF X
<1>6. chosen \in Seq(X) /\ Range(chosen) = {d \in Range(dets) : DetectionKey(d) \in keys}
  BY <1>5, ChosenOK
<1>7. chosen \in Seq(FixableSet)
  BY <1>5, <1>6, SeqMonotonic
<1> HIDE DEF chosen
<1>8. FixTypeOK' /\ OthersKept' /\ ReachKept'
  <2>1. \A i \in DOMAIN chosen : chosen[i].nodes \in Seq(Nodes(spec))
    BY <1>5, <1>6
  <2>2. Apply("key", keys, chosen)
    BY <1>3 DEF chosen
  <2> QED BY <1>1, <1>7, <2>1, <2>2, AppliedOK, AppliedReach
<1>9. phase' = "fixed" /\ result'.asked = keys /\ result'.selected = {DetectionKey(d) : d \in Range(chosen)}
  BY <1>3 DEF Apply, chosen
<1>10. SelectedIsFound'
  <2> SUFFICES ASSUME NEW key \in keys, key \notin {DetectionKey(d) : d \in Range(chosen)},
                      key[1] # "sync_call_chain"
               PROVE  FALSE
    BY <1>9 DEF SelectedIsFound
  <2>1. PICK d \in Range(shown) : key = DetectionKey(d)
    BY <1>4, <1>5, OrderedKeysOK
  <2>2. d.kind # "sync_call_chain"
    BY <2>1 DEF DetectionKey
  <2>3. PICK e \in Range(dets) : DetectionKey(e) = DetectionKey(d)
    BY <1>5, <2>2, AnalysesAgree
  <2> QED BY <1>6, <2>1, <2>3
<1> QED BY <1>8, <1>9, <1>10 DEF FixInv

\* What the client selects by place.
LEMMA ApplyIndexOK ==
    ASSUME FixInv, ApplyIndex
    PROVE  FixInv'
<1>1. phase = "select"
  BY DEF ApplyIndex
<1> DEFINE KeysAt(n, ranked) == LET keys == OrderedDetectionKeys(ranked) IN {keys[i] : i \in {n} \cap DOMAIN keys}
<1>2. PICK n \in DOMAIN OrderedDetectionKeys(shown) :
        \E chosen \in {Chosen(ranked, KeysAt(n, ranked)) : ranked \in {Ranked(dets) : dets \in Analyses(spec)}} :
          Apply("index", {OrderedDetectionKeys(shown)[n]}, chosen)
  BY DEF ApplyIndex
<1> HIDE DEF KeysAt
<1>3. PICK dets \in Analyses(spec) :
        Apply("index", {OrderedDetectionKeys(shown)[n]}, Chosen(Ranked(dets), KeysAt(n, Ranked(dets))))
  BY <1>2
<1> DEFINE X == SoundSet(spec, Kinds)
           keys == KeysAt(n, Ranked(dets))
           chosen == Chosen(Ranked(dets), keys)
<1>4. X \subseteq FixableSet /\ (\A d \in X : d.nodes \in Seq(Nodes(spec))) /\ dets \in Seq(X)
  BY <1>1, SelectOK
<1> HIDE DEF X, keys
<1>5. chosen \in Seq(X)
  BY <1>4, ChosenOK
<1>6. chosen \in Seq(FixableSet)
  BY <1>4, <1>5, SeqMonotonic
<1> HIDE DEF chosen
<1>7. FixTypeOK' /\ OthersKept' /\ ReachKept'
  <2>1. \A i \in DOMAIN chosen : chosen[i].nodes \in Seq(Nodes(spec))
    BY <1>4, <1>5
  <2>2. Apply("index", {OrderedDetectionKeys(shown)[n]}, chosen)
    BY <1>3 DEF chosen, keys
  <2> QED BY <1>1, <1>6, <2>1, <2>2, AppliedOK, AppliedReach
<1>8. phase' = "fixed" /\ result'.how = "index"
  BY <1>3 DEF Apply
<1>9. SelectedIsFound'
  BY <1>8 DEF SelectedIsFound
<1> QED BY <1>7, <1>8, <1>9 DEF FixInv

\* A step that changes nothing.
LEMMA FixStutter ==
    ASSUME FixInv, UNCHANGED fixVars
    PROVE  FixInv'
<1>1. spec' = spec /\ phase' = phase /\ rounds' = rounds /\ shown' = shown /\ result' = result
  BY DEF fixVars
<1>2. FixTypeOK'
  BY <1>1 DEF FixInv, FixTypeOK
<1>3. SelectedIsFound'
  BY <1>1 DEF FixInv, SelectedIsFound
<1>4. OthersKept'
  BY <1>1 DEF FixInv, OthersKept
<1>5. (phase = "edit" => result = NoResult)' /\ (phase = "select" => shown \in Analyses(spec))'
  BY <1>1 DEF FixInv
<1>6. ReachKept'
  BY <1>1 DEF FixInv, ReachKept, ReachAlwaysKept, Rerouted, AppliedKinds
<1> QED BY <1>2, <1>3, <1>4, <1>5, <1>6 DEF FixInv

\* The invariant of the suggestions: it holds between all requests, for any words and links.
THEOREM FixInvariant == FixSpec => []FixInv
<1>1. FixInit => FixInv
  BY FixInitOK
<1>2. FixInv /\ [FixNext]_fixVars => FixInv'
  <2> SUFFICES ASSUME FixInv, [FixNext]_fixVars PROVE FixInv'
    OBVIOUS
  <2>1. ASSUME NEW l \in Links, WriteDependency(Name(l[1]), Name(l[2]), l[3]) PROVE FixInv'
    BY <2>1, WriteOK
  <2>2. ASSUME NEW l \in Links, l[3] /\ WriteCall(Name(l[1]), Name(l[2])) PROVE FixInv'
    BY <2>2, WriteOK
  <2>3. CASE Preview
    BY <2>3, PreviewOK
  <2>4. CASE ApplyKeys
    BY <2>4, ApplyKeysOK
  <2>5. CASE ApplyIndex
    BY <2>5, ApplyIndexOK
  <2>6. CASE UNCHANGED fixVars
    BY <2>6, FixStutter
  <2> QED BY <2>1, <2>2, <2>3, <2>4, <2>5, <2>6 DEF FixNext
<1> QED BY <1>1, <1>2, PTL DEF FixSpec

\* After any edits and fixes there is a YAML: every fix leaves types for finitely many
\* services, and links between names.
THEOREM FixTypeCorrect == FixSpec => []FixTypeOK
<1>1. FixInv => FixTypeOK
  BY DEF FixInv
<1> QED BY <1>1, FixInvariant, PTL

\* A suggestion selected by its key is found by the apply request, which analyses the YAML
\* anew; only chains may be missed.
THEOREM SelectionsFound == FixSpec => []SelectedIsFound
<1>1. FixInv => SelectedIsFound
  BY DEF FixInv
<1> QED BY <1>1, FixInvariant, PTL

\* Fixes, however many are applied after one another, keep every link that is not between the
\* nodes they are about and does not leave a god service, in its order.
THEOREM FixesKeepOthers == FixSpec => []OthersKept
<1>1. FixInv => OthersKept
  BY DEF FixInv
<1> QED BY <1>1, FixInvariant, PTL

\* Splitting god services and inserting BFFs, however many after one another, leave whatever a
\* node reached within its reach, where a BFF takes no name in use.
THEOREM NothingCutOff == FixSpec => []ReachKept
<1>1. FixInv => ReachKept
  BY DEF FixInv
<1> QED BY <1>1, FixInvariant, PTL

\* Tarjan's algorithm, in whatever order it meets services and calls, finds exactly the sets of
\* two or more services that reach one another, each once.
THEOREM CyclesFound == FixSpec => []CyclesAreComponents
<1>1. ASSUME FixInv PROVE CyclesAreComponents
  <2> SUFFICES ASSUME phase = "select" PROVE CyclesAreComponents
    BY DEF CyclesAreComponents
  <2> DEFINE V == Services(spec)
             calls == CallsOf(spec)
             FromOf == [n \in V |-> Reach(spec, V, n)]
             components == {{m \in V : m \in FromOf[n] /\ n \in FromOf[m]} : n \in V}
             found == {i \in DOMAIN shown : shown[i].kind = "cycles"}
  <2>1. IsSpec(spec) /\ shown \in Analyses(spec)
    BY <1>1 DEF FixInv, FixTypeOK
  <2>2. PICK cycles \in Cycles(spec) :
             found = DOMAIN cycles /\ \A i \in DOMAIN cycles : shown[i] = cycles[i]
    BY <2>1, AnalysisCycles
  <2>3. FoundComponents(calls, cycles, V)
    BY <2>1, CyclesOK
  <2>4. DOMAIN calls = V /\ \A n \in V : FromOf[n] = Reached(calls, n)
    BY <2>1, CallsOK
  <2> HIDE DEF V, calls, FromOf, found
  <2>5. components = {Component(calls, n) : n \in V}
    BY <2>4 DEF Component
  <2> HIDE DEF components
  <2>6. {Range(shown[i].nodes) : i \in found} = {c \in components : Cardinality(c) > 1}
    BY <2>2, <2>3, <2>5 DEF FoundComponents
  <2>7. \A i, j \in found : Range(shown[i].nodes) = Range(shown[j].nodes) => i = j
    BY <2>2, <2>3 DEF FoundComponents
  <2> QED BY <2>6, <2>7 DEF CyclesAreComponents, components, FromOf, found, V
<1> QED BY <1>1, FixInvariant, PTL

(***************************************************************************)
(* What the fixes mend: the links that they take away.                     *)
(***************************************************************************)

\* A link leads from one name to another.
Has(links, a, b) == \E i \in DOMAIN links : links[i].from = a /\ links[i].to = b

\* A synchronous one does.
HasSync(links, a, b) == \E i \in DOMAIN links : links[i].from = a /\ links[i].to = b /\ links[i].sync

\* No link between two names is there twice.
Plain(links) ==
    \A i, j \in DOMAIN links : links[i].from = links[j].from /\ links[i].to = links[j].to => i = j

\* Where links are taken from.
LEMMA FirstHas ==
    ASSUME NEW links \in Seq(LinkSet), NEW p
    PROVE  /\ First(links, p) # 0 <=> Has(links, p[1], p[2])
           /\ First(links, p) # 0 => /\ First(links, p) \in DOMAIN links
                                     /\ links[First(links, p)].from = p[1] /\ links[First(links, p)].to = p[2]
<1> DEFINE i == First(links, p)
<1>1. \/ i = 0 /\ \A j \in DOMAIN links : ~(links[j].from = p[1] /\ links[j].to = p[2])
      \/ i \in DOMAIN links /\ i # 0 /\ links[i].from = p[1] /\ links[i].to = p[2]
  BY FirstOK
<1> HIDE DEF i
<1> QED BY <1>1 DEF Has, i

\* The only link between two names is taken out.
LEMMA RemoveHas ==
    ASSUME NEW links \in Seq(LinkSet), NEW k \in DOMAIN links, Plain(links)
    PROVE  LET less == RemoveAt(links, k) IN
           /\ less \in Seq(LinkSet) /\ Len(less) = Len(links) - 1 /\ Plain(less)
           /\ ~Has(less, links[k].from, links[k].to)
           /\ \A x, y : Has(less, x, y) => Has(links, x, y)
<1> DEFINE n == Len(links)
           less == RemoveAt(links, k)
           Whence(i) == IF i < k THEN i ELSE i + 1
<1>1. n \in Nat /\ DOMAIN links = 1 .. n /\ k \in 1 .. n
  OBVIOUS
<1>2. less \in Seq(LinkSet) /\ Len(less) = n - 1 /\ \A i \in 1 .. n - 1 : less[i] = links[Whence(i)]
  BY RemoveAtOK
<1>3. DOMAIN less = 1 .. n - 1
  BY <1>1, <1>2
<1> HIDE DEF n, less
<1>4. \A i \in 1 .. n - 1 : Whence(i) \in 1 .. n /\ Whence(i) # k
  BY <1>1
<1>5. \A i, j \in 1 .. n - 1 : Whence(i) = Whence(j) => i = j
  BY <1>1
<1> HIDE DEF Whence
<1>6. Plain(less)
  BY <1>1, <1>2, <1>3, <1>4, <1>5 DEF Plain
<1>7. ~Has(less, links[k].from, links[k].to)
  BY <1>1, <1>2, <1>3, <1>4 DEF Plain, Has
<1>8. \A x, y : Has(less, x, y) => Has(links, x, y)
  BY <1>1, <1>2, <1>3, <1>4 DEF Has
<1> QED BY <1>2, <1>6, <1>7, <1>8 DEF less, n

\* One link more.
LEMMA AppendHas ==
    ASSUME NEW links \in Seq(LinkSet), NEW e \in LinkSet
    PROVE  LET more == Append(links, e) IN
           /\ more \in Seq(LinkSet) /\ more # <<>>
           /\ \A x, y : Has(more, x, y) <=> Has(links, x, y) \/ (x = e.from /\ y = e.to)
           /\ Plain(links) /\ ~Has(links, e.from, e.to) => Plain(more)
<1> DEFINE n == Len(links)
           more == Append(links, e)
<1>1. /\ more \in Seq(LinkSet) /\ DOMAIN links = 1 .. n /\ n \in Nat /\ DOMAIN more = 1 .. n + 1
      /\ (\A i \in 1 .. n : more[i] = links[i]) /\ more[n + 1] = e
  BY AppendProperties
<1> HIDE DEF n, more
<1>2. n + 1 \in DOMAIN more /\ \A i \in DOMAIN more : i \in DOMAIN links \/ i = n + 1
  BY <1>1
<1>3. \A i \in DOMAIN links : i \in DOMAIN more
  BY <1>1
<1>4. more # <<>>
  <2>1. DOMAIN <<>> = {}
    OBVIOUS
  <2> QED BY <1>2, <2>1
<1>5. \A x, y : Has(more, x, y) <=> Has(links, x, y) \/ (x = e.from /\ y = e.to)
  BY <1>1, <1>2, <1>3 DEF Has
<1>6. Plain(links) /\ ~Has(links, e.from, e.to) => Plain(more)
  BY <1>1, <1>2, <1>3 DEF Has, Plain
<1> QED BY <1>1, <1>4, <1>5, <1>6 DEF more

\* A dependency is taken out.
LEMMA RemovedDependency ==
    ASSUME NEW s, IsSpec(s), Plain(s.deps), NEW p
    PROVE  LET t == RemoveDependencyOnce(s, p) IN
           /\ IsSpec(t) /\ Plain(t.deps) /\ t.calls = s.calls /\ t.types = s.types
           /\ ~Has(t.deps, p[1], p[2])
           /\ \A x, y : Has(t.deps, x, y) => Has(s.deps, x, y)
           /\ Len(s.deps) # 1 /\ s.deps # <<>> => t.deps # <<>>
<1> DEFINE t == RemoveDependencyOnce(s, p)
           i == First(s.deps, p)
           less == RemoveAt(s.deps, i)
<1>1. s.deps \in Seq(LinkSet)
  BY SpecOK
<1>2. CASE ~HasDep(s, p)
  <2>1. t = s
    BY <1>2 DEF RemoveDependencyOnce
  <2>2. ~Has(s.deps, p[1], p[2])
    BY <1>1, <1>2, FirstHas DEF HasDep
  <2> HIDE DEF t
  <2> QED BY <2>1, <2>2 DEF t
<1>3. CASE HasDep(s, p)
  <2>1. t = [s EXCEPT !.deps = less]
    BY <1>3 DEF RemoveDependencyOnce
  <2>2. i \in DOMAIN s.deps /\ s.deps[i].from = p[1] /\ s.deps[i].to = p[2]
    BY <1>1, <1>3, FirstHas DEF HasDep
  <2> HIDE DEF i
  <2>3. /\ less \in Seq(LinkSet) /\ Len(less) = Len(s.deps) - 1 /\ Plain(less)
        /\ ~Has(less, s.deps[i].from, s.deps[i].to)
        /\ \A x, y : Has(less, x, y) => Has(s.deps, x, y)
    BY <1>1, <2>2, RemoveHas
  <2> HIDE DEF less
  <2>4. IsSpec(t) /\ t.deps = less /\ t.calls = s.calls /\ t.types = s.types
    BY <2>1, <2>3, NewDeps
  <2>5. Len(s.deps) # 1 => less # <<>>
    <3>1. Len(s.deps) \in Nat
      BY <1>1
    <3>2. less = <<>> => Len(less) = 0
      OBVIOUS
    <3> QED BY <2>3, <3>1, <3>2
  <2> HIDE DEF t
  <2> QED BY <2>2, <2>3, <2>4, <2>5 DEF t
<1> QED BY <1>2, <1>3

\* A dependency is added.
LEMMA AddedDependency ==
    ASSUME NEW s, IsSpec(s), NEW a \in Names, NEW b \in Names, NEW sync \in BOOLEAN
    PROVE  LET t == AddDependencyIfMissing(s, <<a, b>>, sync) IN
           /\ IsSpec(t) /\ t.calls = s.calls /\ t.types = s.types /\ t.deps # <<>>
           /\ \A x, y : Has(t.deps, x, y) <=> Has(s.deps, x, y) \/ (x = a /\ y = b)
           /\ Plain(s.deps) => Plain(t.deps)
<1> DEFINE t == AddDependencyIfMissing(s, <<a, b>>, sync)
           e == Link(a, b, sync)
           more == Append(s.deps, e)
<1>1. s.deps \in Seq(LinkSet) /\ e \in LinkSet /\ e.from = a /\ e.to = b
  BY SpecOK DEF Link, LinkSet
<1>2. HasDep(s, <<a, b>>) <=> Has(s.deps, a, b)
  <2> DEFINE p == <<a, b>>
  <2>1. p[1] = a /\ p[2] = b
    OBVIOUS
  <2> HIDE DEF p
  <2>2. HasDep(s, p) <=> Has(s.deps, a, b)
    BY <1>1, <2>1, FirstHas DEF HasDep
  <2> QED BY <2>2 DEF p
<1>3. CASE HasDep(s, <<a, b>>)
  <2>1. t = s
    BY <1>3 DEF AddDependencyIfMissing
  <2>2. s.deps # <<>>
    <3>1. DOMAIN <<>> = {}
      OBVIOUS
    <3> QED BY <1>2, <1>3, <3>1 DEF Has
  <2> HIDE DEF t
  <2> QED BY <1>2, <1>3, <2>1, <2>2 DEF t
<1>4. CASE ~HasDep(s, <<a, b>>)
  <2>1. t = [s EXCEPT !.deps = more]
    BY <1>4 DEF AddDependencyIfMissing
  <2> HIDE DEF e
  <2>2. /\ more \in Seq(LinkSet) /\ more # <<>>
        /\ \A x, y : Has(more, x, y) <=> Has(s.deps, x, y) \/ (x = e.from /\ y = e.to)
        /\ Plain(s.deps) /\ ~Has(s.deps, e.from, e.to) => Plain(more)
    BY <1>1, AppendHas
  <2> HIDE DEF more, t
  <2>3. IsSpec(t) /\ t.deps = more /\ t.calls = s.calls /\ t.types = s.types
    BY <2>1, <2>2, NewDeps
  <2> QED BY <1>1, <1>2, <1>4, <2>2, <2>3 DEF t
<1> QED BY <1>3, <1>4

\* A merge changes nothing unless the fixes have taken the last dependency.
LEMMA MergeSame ==
    ASSUME NEW s, IsSpec(s), NEW t, IsSpec(t), t.deps # <<>> \/ s.deps = <<>>
    PROVE  Merge(s, t) = t
<1> DEFINE deps == IF t.deps = <<>> THEN s.deps ELSE t.deps
<1>1. t.dbs = s.dbs
  BY DEF IsSpec
<1>2. deps = t.deps
  OBVIOUS
<1>3. Merge(s, t) = [t EXCEPT !.deps = deps, !.dbs = s.dbs]
  BY DEF Merge
<1> HIDE DEF deps
<1> QED BY <1>1, <1>2, <1>3, SpecParts

\* After a link has been taken from the graph it is not in it.
LEMMA RemovedEither ==
    ASSUME NEW s, IsSpec(s), Plain(Edges(s)), Len(s.deps) # 1, NEW p, Has(Edges(s), p[1], p[2])
    PROVE  LET t == Merge(s, RemoveDependencyOrLegacyCall(s, p)) IN ~Has(Edges(t), p[1], p[2])
<1> DEFINE u == RemoveDependencyOrLegacyCall(s, p)
<1>1. s.deps \in Seq(LinkSet) /\ s.calls \in Seq(LinkSet)
  BY SpecOK
<1>2. CASE s.deps # <<>>
  <2>1. Edges(s) = s.deps
    BY <1>2 DEF Edges
  <2>2. HasDep(s, p)
    BY <1>1, <2>1, FirstHas DEF HasDep
  <2>3. u = RemoveDependencyOnce(s, p)
    BY <2>2 DEF RemoveDependencyOrLegacyCall
  <2> HIDE DEF u
  <2>4. IsSpec(u) /\ ~Has(u.deps, p[1], p[2]) /\ u.deps # <<>>
    BY <1>2, <2>1, <2>3, RemovedDependency
  <2>5. Merge(s, u) = u /\ Edges(u) = u.deps
    BY <2>4, MergeSame DEF Edges
  <2> QED BY <2>4, <2>5 DEF u
<1>3. CASE s.deps = <<>>
  <2>1. Edges(s) = s.calls
    BY <1>3 DEF Edges
  <2> DEFINE i == First(s.calls, p)
             less == RemoveAt(s.calls, i)
  <2>2. ~HasDep(s, p)
    <3>1. ~Has(s.deps, p[1], p[2])
      <4>1. DOMAIN <<>> = {}
        OBVIOUS
      <4> QED BY <1>3, <4>1 DEF Has
    <3> QED BY <1>1, <3>1, FirstHas DEF HasDep
  <2>3. i # 0 /\ i \in DOMAIN s.calls /\ s.calls[i].from = p[1] /\ s.calls[i].to = p[2]
    BY <1>1, <2>1, FirstHas
  <2>4. u = [s EXCEPT !.calls = less]
    BY <2>2, <2>3 DEF RemoveDependencyOrLegacyCall, RemoveLegacyCall
  <2> HIDE DEF i
  <2>5. less \in Seq(LinkSet) /\ ~Has(less, p[1], p[2])
    BY <1>1, <2>1, <2>3, RemoveHas
  <2> HIDE DEF less
  <2>6. IsSpec(u) /\ u.deps = s.deps /\ u.calls = less
    BY <2>4, <2>5, NewCalls
  <2> HIDE DEF u
  <2>7. Merge(s, u) = u /\ Edges(u) = less
    BY <1>3, <2>6, MergeSame DEF Edges
  <2> QED BY <2>5, <2>7 DEF u
<1> QED BY <1>2, <1>3

\* The fix of a ping-pong takes one of the two links away.
LEMMA DropLegMends ==
    ASSUME NEW s, IsSpec(s), Plain(Edges(s)), Len(s.deps) # 1, NEW nodes, DropLeg(s, nodes) # s,
           Has(Edges(s), nodes[1], nodes[2]), Has(Edges(s), nodes[2], nodes[1])
    PROVE  LET t == Merge(s, DropLeg(s, nodes)) IN
           ~(Has(Edges(t), nodes[1], nodes[2]) /\ Has(Edges(t), nodes[2], nodes[1]))
<1> DEFINE ab == <<nodes[1], nodes[2]>>
           ba == <<nodes[2], nodes[1]>>
           pairs == IF ~IsUIName(nodes[1]) /\ IsUIName(nodes[2]) THEN <<ab, ba>> ELSE <<ba, ab>>
           changing == {i \in DOMAIN pairs : RemoveDependencyOrLegacyCall(s, pairs[i]) # s}
<1>1. DropLeg(s, nodes) = IF changing = {} THEN s ELSE RemoveDependencyOrLegacyCall(s, pairs[Min(changing)])
  BY DEF DropLeg, FirstThatChanges
<1>2. /\ ab[1] = nodes[1] /\ ab[2] = nodes[2] /\ ba[1] = nodes[2] /\ ba[2] = nodes[1]
      /\ DOMAIN pairs = {1, 2} /\ \A i \in DOMAIN pairs : pairs[i] = ab \/ pairs[i] = ba
  OBVIOUS
<1> HIDE DEF pairs, ab, ba
<1>3. PICK p \in {ab, ba} : DropLeg(s, nodes) = RemoveDependencyOrLegacyCall(s, p)
  <2>1. changing # {} /\ changing \subseteq Nat /\ changing \subseteq DOMAIN pairs
    BY <1>1, <1>2
  <2> HIDE DEF changing
  <2>2. Min(changing) \in DOMAIN pairs
    BY <2>1, LeastOK
  <2> QED BY <1>1, <1>2, <2>1, <2>2
<1>4. Has(Edges(s), p[1], p[2])
  BY <1>2, <1>3
<1>5. ~Has(Edges(Merge(s, RemoveDependencyOrLegacyCall(s, p))), p[1], p[2])
  BY <1>4, RemovedEither
<1> QED BY <1>2, <1>3, <1>5

\* A link turned round is not there as it was.
LEMMA FlipMends ==
    ASSUME NEW s, IsSpec(s), Plain(Edges(s)), NEW from \in Names, NEW to \in Names, from # to,
           Has(Edges(s), from, to)
    PROVE  ~Has(Edges(Merge(s, Flip(s, from, to))), from, to)
<1> DEFINE p == <<from, to>>
           i == First(s.deps, p)
           j == First(s.calls, p)
           less == RemoveDependencyOnce(s, p)
           uncalled == RemoveLegacyCall(s, p)
           cut == EnsureType(uncalled, to, "service")
           t == Flip(s, from, to)
<1>1. s.deps \in Seq(LinkSet) /\ s.calls \in Seq(LinkSet) /\ p[1] = from /\ p[2] = to
  BY SpecOK
<1>2. CASE s.deps # <<>>
  <2>1. Edges(s) = s.deps
    BY <1>2 DEF Edges
  <2> HIDE DEF p
  <2>2. i # 0 /\ i \in DOMAIN s.deps
    BY <1>1, <2>1, FirstHas
  <2>3. t = AddDependencyIfMissing(less, <<to, from>>, s.deps[i].sync)
    BY <2>2 DEF Flip, p
  <2>4. s.deps[i] \in LinkSet
    BY <1>1, <2>2
  <2>5. s.deps[i].sync \in BOOLEAN
    BY <2>4 DEF LinkSet
  <2>6. IsSpec(less) /\ ~Has(less.deps, from, to)
    BY <1>1, <2>1, RemovedDependency
  <2> HIDE DEF less, i, t
  <2>7. IsSpec(t) /\ t.deps # <<>> /\ ~Has(t.deps, from, to)
    BY <2>3, <2>5, <2>6, AddedDependency
  <2>8. Merge(s, t) = t /\ Edges(t) = t.deps
    BY <2>7, MergeSame DEF Edges
  <2> QED BY <2>7, <2>8 DEF t
<1>3. CASE s.deps = <<>>
  <2>1. Edges(s) = s.calls
    BY <1>3 DEF Edges
  <2> HIDE DEF p
  <2>2. i = 0
    <3>1. ~Has(s.deps, from, to)
      <4>1. DOMAIN <<>> = {}
        OBVIOUS
      <4> QED BY <1>3, <4>1 DEF Has
    <3> QED BY <1>1, <3>1, FirstHas
  <2>3. j # 0 /\ j \in DOMAIN s.calls /\ s.calls[j].from = from /\ s.calls[j].to = to
    BY <1>1, <2>1, FirstHas
  <2> DEFINE fewer == RemoveAt(s.calls, j)
             back == Link(to, from, TRUE)
             more == Append(fewer, back)
  <2>4. uncalled = [s EXCEPT !.calls = fewer]
    BY <2>3 DEF RemoveLegacyCall
  <2>5. t = IF First(cut.calls, <<to, from>>) # 0 THEN cut ELSE [cut EXCEPT !.calls = Append(cut.calls, back)]
    BY <2>2, <2>3 DEF Flip, p
  <2> HIDE DEF i, j
  <2>6. fewer \in Seq(LinkSet) /\ ~Has(fewer, from, to)
    BY <1>1, <2>1, <2>3, RemoveHas
  <2>7. back \in LinkSet /\ back.from = to /\ back.to = from
    BY DEF Link, LinkSet
  <2> HIDE DEF fewer, back
  <2>8. more \in Seq(LinkSet) /\ ~Has(more, from, to)
    BY <2>6, <2>7, AppendHas
  <2> HIDE DEF uncalled
  <2>9. IsSpec(uncalled) /\ uncalled.deps = s.deps /\ uncalled.calls = fewer
    BY <2>4, <2>6, NewCalls
  <2>10. IsSpec(cut) /\ cut.deps = s.deps /\ cut.calls = fewer
    BY <2>9, EnsureTypeOK DEF SpecTypes, Keeps
  <2> HIDE DEF cut, t
  <2>11. IsSpec(t) /\ t.deps = s.deps /\ ~Has(t.calls, from, to)
    <3>1. CASE t = cut
      BY <2>6, <2>10, <3>1
    <3>2. CASE t = [cut EXCEPT !.calls = more]
      <4> HIDE DEF more
      <4>1. IsSpec(t) /\ t.deps = cut.deps /\ t.calls = more
        BY <2>8, <2>10, <3>2, NewCalls
      <4> QED BY <2>8, <2>10, <4>1
    <3> QED BY <2>5, <2>10, <3>1, <3>2
  <2>12. Merge(s, t) = t /\ Edges(t) = t.calls
    BY <1>3, <2>11, MergeSame DEF Edges
  <2> QED BY <2>11, <2>12 DEF t
<1> QED BY <1>2, <1>3

\* A dependency that a fix has made asynchronous is no synchronous one any more.
LEMMA SetAsyncMends ==
    ASSUME NEW s, IsSpec(s), Plain(Edges(s)), NEW p, SetAsync(s, p) # s
    PROVE  ~HasSync(Edges(Merge(s, SetAsync(s, p))), p[1], p[2])
<1> DEFINE i == First(s.deps, p)
           e == [s.deps[i] EXCEPT !.sync = FALSE]
           deps == [s.deps EXCEPT ![i] = e]
           t == SetAsync(s, p)
<1>1. s.deps \in Seq(LinkSet)
  BY SpecOK
<1>2. HasDep(s, p)
  BY DEF SetAsync
<1>3. i \in DOMAIN s.deps /\ s.deps[i].from = p[1] /\ s.deps[i].to = p[2]
  BY <1>1, <1>2, FirstHas DEF HasDep
<1>4. t = [s EXCEPT !.deps = deps]
  <2>1. t = [s EXCEPT !.deps[i].sync = FALSE]
    BY <1>2 DEF SetAsync
  <2> HIDE DEF i
  <2> QED BY <2>1, SpecParts
<1> HIDE DEF i
<1>5. s.deps[i] \in LinkSet
  BY <1>1, <1>3
<1>6. e \in LinkSet /\ e.from = p[1] /\ e.to = p[2] /\ e.sync = FALSE
  BY <1>3, <1>5 DEF LinkSet
<1> HIDE DEF e
<1>7. deps \in Seq(LinkSet) /\ DOMAIN deps = DOMAIN s.deps
      /\ \A k \in DOMAIN deps : deps[k] = IF k = i THEN e ELSE s.deps[k]
  BY <1>1, <1>3, <1>6
<1> HIDE DEF deps, t
<1>8. IsSpec(t) /\ t.deps = deps
  BY <1>4, <1>7, NewDeps
<1>9. DOMAIN <<>> = {}
  OBVIOUS
<1>10. s.deps # <<>> /\ deps # <<>>
  BY <1>3, <1>7, <1>9
<1>11. Edges(s) = s.deps /\ Merge(s, t) = t /\ Edges(t) = deps
  BY <1>8, <1>10, MergeSame DEF Edges
<1>12. ASSUME NEW k \in DOMAIN deps, deps[k].from = p[1], deps[k].to = p[2], deps[k].sync PROVE FALSE
  <2>1. CASE k = i
    BY <1>6, <1>7, <1>12, <2>1
  <2>2. CASE k # i
    <3>1. s.deps[k].from = p[1] /\ s.deps[k].to = p[2] /\ k \in DOMAIN s.deps
      BY <1>7, <1>12, <2>2
    <3> QED BY <1>3, <1>11, <2>2, <3>1 DEF Plain
  <2> QED BY <2>1, <2>2
<1> QED BY <1>11, <1>12 DEF HasSync, t

\* The fix of a tight coupling does that to one of the two dependencies.
LEMMA LoosenMends ==
    ASSUME NEW s, IsSpec(s), Plain(Edges(s)), NEW nodes, Loosen(s, nodes) # s
    PROVE  LET t == Merge(s, Loosen(s, nodes)) IN
           ~(HasSync(Edges(t), nodes[1], nodes[2]) /\ HasSync(Edges(t), nodes[2], nodes[1]))
<1> DEFINE ab == <<nodes[1], nodes[2]>>
           ba == <<nodes[2], nodes[1]>>
           pairs == <<ba, ab>>
           changing == {i \in DOMAIN pairs : SetAsync(s, pairs[i]) # s}
<1>1. Loosen(s, nodes) = IF changing = {} THEN s ELSE SetAsync(s, pairs[Min(changing)])
  BY DEF Loosen, FirstThatChanges
<1>2. /\ ab[1] = nodes[1] /\ ab[2] = nodes[2] /\ ba[1] = nodes[2] /\ ba[2] = nodes[1]
      /\ DOMAIN pairs = {1, 2} /\ \A i \in DOMAIN pairs : pairs[i] = ab \/ pairs[i] = ba
  OBVIOUS
<1> HIDE DEF pairs, ab, ba
<1>3. PICK p \in {ab, ba} : Loosen(s, nodes) = SetAsync(s, p)
  <2>1. changing # {} /\ changing \subseteq Nat /\ changing \subseteq DOMAIN pairs
    BY <1>1, <1>2
  <2> HIDE DEF changing
  <2>2. Min(changing) \in DOMAIN pairs
    BY <2>1, LeastOK
  <2> QED BY <1>1, <1>2, <2>1, <2>2
<1>4. ~HasSync(Edges(Merge(s, SetAsync(s, p))), p[1], p[2])
  BY <1>3, SetAsyncMends
<1> QED BY <1>2, <1>3, <1>4

\* The name of a database made for a client.
IsOwn(c, own) ==
    LET db == Suffixed(c, <<"db", 0>>)
    IN own = db \/ \E k \in NameNumbers : own = Suffixed(db, <<"number", k>>)

\* It looks like one, and tells the client.
LEMMA OwnOK ==
    ASSUME NEW c \in Names, NEW own, IsOwn(c, own)
    PROVE  own \in Names /\ LooksLikeDB(own) /\ \A d \in Names : IsOwn(d, own) => d = c
<1> DEFINE db(x) == Suffixed(x, <<"db", 0>>)
           use(k) == <<"number", k>>
<1>1. <<"db", 0>> \in Uses /\ \A k \in NameNumbers : use(k) \in Uses
  BY DEF Uses, NameNumbers
<1>2. ASSUME NEW x \in Names
      PROVE  db(x) \in Names /\ db(x) = [word |-> x.word, tail |-> Append(x.tail, <<"db", 0>>)] /\ x.tail \in Seq(Uses)
  BY <1>1, SuffixedOK
<1>3. ASSUME NEW x \in Names, NEW use1 \in Uses, NEW y \in Names, NEW use2 \in Uses,
             Suffixed(x, use1) = Suffixed(y, use2)
      PROVE  x = y /\ use1 = use2
  <2>1. /\ x.word = y.word /\ Append(x.tail, use1) = Append(y.tail, use2)
        /\ x.tail \in Seq(Uses) /\ y.tail \in Seq(Uses)
    <3>1. /\ Suffixed(x, use1) = [word |-> x.word, tail |-> Append(x.tail, use1)] /\ x.tail \in Seq(Uses)
          /\ Suffixed(y, use2) = [word |-> y.word, tail |-> Append(y.tail, use2)] /\ y.tail \in Seq(Uses)
      BY SuffixedOK
    <3> DEFINE a == Append(x.tail, use1)
               b == Append(y.tail, use2)
    <3> HIDE DEF a, b
    <3>2. [word |-> x.word, tail |-> a] = [word |-> y.word, tail |-> b]
      BY <1>3, <3>1 DEF a, b
    <3>3. x.word = y.word /\ a = b
      BY <3>2
    <3> QED BY <3>1, <3>3 DEF a, b
  <2>2. x.tail = y.tail /\ use1 = use2
    <3> DEFINE a == x.tail
               b == y.tail
    <3> HIDE DEF a, b
    <3>1. a \in Seq(Uses) /\ b \in Seq(Uses) /\ Append(a, use1) = Append(b, use2)
      BY <2>1 DEF a, b
    <3>2. Len(a) + 1 = Len(b) + 1 /\ Len(a) \in Nat /\ Len(b) \in Nat
      BY <3>1, AppendProperties
    <3>3. Append(a, use1)[Len(a) + 1] = use1 /\ Append(b, use2)[Len(b) + 1] = use2
      BY <3>1, AppendProperties
    <3>4. \A i \in 1 .. Len(a) : Append(a, use1)[i] = a[i] /\ Append(b, use2)[i] = b[i]
      BY <3>1, <3>2, AppendProperties
    <3>5. Len(a) = Len(b) /\ use1 = use2
      BY <3>1, <3>2, <3>3
    <3>6. a = b
      BY <3>1, <3>4, <3>5, SeqEqual
    <3> QED BY <3>5, <3>6 DEF a, b
  <2>3. x = [word |-> x.word, tail |-> x.tail] /\ y = [word |-> y.word, tail |-> y.tail]
    BY DEF Names
  <2> QED BY <2>1, <2>2, <2>3
<1> HIDE DEF db
<1>4. ASSUME NEW x \in Names, NEW k \in NameNumbers
      PROVE  LET n == Suffixed(db(x), use(k)) IN
             n \in Names /\ n = [word |-> x.word, tail |-> Append(db(x).tail, use(k))]
             /\ db(x).tail \in Seq(Uses)
  <2> DEFINE m == db(x)
             u == use(k)
  <2>1. m \in Names /\ u \in Uses /\ m.word = x.word
    BY <1>1, <1>2
  <2> HIDE DEF m, u
  <2>2. Suffixed(m, u) \in Names /\ Suffixed(m, u) = [word |-> m.word, tail |-> Append(m.tail, u)] /\ m.tail \in Seq(Uses)
    BY <2>1, SuffixedOK
  <2> QED BY <2>1, <2>2 DEF m, u
<1>5. ASSUME NEW n, NEW t \in Seq(Uses), n.tail = Append(t, <<"db", 0>>) PROVE LooksLikeDB(n)
  <2>1. n.tail[Len(t) + 1][1] = "db" /\ Len(t) + 1 \in DOMAIN n.tail
    BY <1>1, <1>5, AppendProperties
  <2> QED BY <2>1 DEF LooksLikeDB
<1>6. LooksLikeDB(db(c)) /\ db(c).tail = Append(c.tail, <<"db", 0>>)
  <2>1. db(c).tail = Append(c.tail, <<"db", 0>>) /\ c.tail \in Seq(Uses)
    BY <1>2
  <2> QED BY <1>5, <2>1
<1>7. ASSUME NEW k \in NameNumbers PROVE LooksLikeDB(Suffixed(db(c), use(k)))
  <2> DEFINE n == Suffixed(db(c), use(k))
             t == c.tail
             t1 == db(c).tail
  <2>1. t1 = Append(t, <<"db", 0>>) /\ n.tail = Append(t1, use(k)) /\ t1 \in Seq(Uses) /\ t \in Seq(Uses)
        /\ use(k) \in Uses /\ <<"db", 0>> \in Uses
    <3>1. n = [word |-> c.word, tail |-> Append(t1, use(k))] /\ t1 \in Seq(Uses)
      BY <1>4
    <3>2. n.tail = Append(t1, use(k))
      <4> HIDE DEF n, t1, use
      <4> QED BY <3>1
    <3>3. t \in Seq(Uses)
      BY <1>2
    <3> QED BY <1>1, <1>6, <3>1, <3>2, <3>3
  <2> HIDE DEF n, t, t1, use
  <2>2. t1[Len(t) + 1] = <<"db", 0>> /\ Len(t) + 1 \in 1 .. Len(t1) /\ Len(t1) \in Nat
    BY <2>1, AppendProperties
  <2>3. DOMAIN n.tail = 1 .. Len(t1) + 1 /\ \A i \in 1 .. Len(t1) : n.tail[i] = t1[i]
    BY <2>1, AppendProperties
  <2>4. Len(t) + 1 \in DOMAIN n.tail /\ n.tail[Len(t) + 1][1] = "db"
    BY <2>2, <2>3
  <2> QED BY <2>4 DEF LooksLikeDB, n
<1>8. \A x \in Names : IsOwn(x, own) <=> own = db(x) \/ \E k \in NameNumbers : own = Suffixed(db(x), use(k))
  BY DEF IsOwn, db
<1>9. own \in Names /\ LooksLikeDB(own)
  BY <1>2, <1>4, <1>6, <1>7, <1>8
<1>10. ASSUME NEW x \in Names, NEW y \in Names, db(x) = db(y) PROVE x = y
  BY <1>1, <1>3, <1>10 DEF db
<1>11. ASSUME NEW x \in Names, NEW y \in Names, NEW k \in NameNumbers, db(x) = Suffixed(db(y), use(k)) PROVE FALSE
  <2>1. db(y) \in Names /\ use(k) \in Uses /\ <<"db", 0>> \in Uses
    BY <1>1, <1>2
  <2>2. <<"db", 0>> = use(k)
    BY <1>3, <1>11, <2>1 DEF db
  <2> QED BY <2>2
<1>12. ASSUME NEW x \in Names, NEW y \in Names, NEW k \in NameNumbers, NEW l \in NameNumbers,
              Suffixed(db(x), use(k)) = Suffixed(db(y), use(l))
       PROVE  x = y
  <2>1. db(x) \in Names /\ db(y) \in Names /\ use(k) \in Uses /\ use(l) \in Uses
    BY <1>1, <1>2
  <2>2. db(x) = db(y)
    <3> HIDE DEF use
    <3> QED BY <1>3, <1>12, <2>1
  <2> QED BY <1>10, <2>2
<1> HIDE DEF use
<1>13. ASSUME NEW d \in Names, IsOwn(d, own) PROVE d = c
  <2>1. own = db(d) \/ \E k \in NameNumbers : own = Suffixed(db(d), use(k))
    BY <1>8, <1>13
  <2>2. own = db(c) \/ \E k \in NameNumbers : own = Suffixed(db(c), use(k))
    BY <1>8
  <2> QED BY <1>10, <1>11, <1>12, <2>1, <2>2
<1> QED BY <1>9, <1>13

\* Some of the clients of a shared database have been moved.
Moving(s, t, shared, moved) ==
    /\ IsSpec(t) /\ DOMAIN t.deps = DOMAIN s.deps
    /\ s.deps = <<>> => t = s
    /\ \A i, j \in DOMAIN t.deps :
         t.deps[i].from = t.deps[j].from /\ t.deps[i].to = shared /\ t.deps[j].to = shared => i = j
    /\ \A x : Has(t.deps, x, shared) => Has(s.deps, x, shared) /\ (x \in moved => IsOwn(x, shared))
    /\ \A m \in DOMAIN s.types : m \in DOMAIN t.types /\ t.types[m] = s.types[m]
    /\ \A m \in DOMAIN t.types \ DOMAIN s.types : LooksLikeDB(m)

\* One more has.
LEMMA MovingStep ==
    ASSUME NEW s, NEW t, NEW c \in Names, NEW shared \in Names, NEW done, Moving(s, t, shared, done)
    PROVE  Moving(s, MoveClient(t, c, shared), shared, done \cup {c})
<1> DEFINE own == UniqueServiceName(t, Suffixed(c, <<"db", 0>>))
           p == <<c, shared>>
           i == First(t.deps, p)
           typed == EnsureType(t, own, "database")
           e == [t.deps[i] EXCEPT !.to = own]
           deps == [t.deps EXCEPT ![i] = e]
           u == MoveClient(t, c, shared)
<1>1. IsSpec(t) /\ t.deps \in Seq(LinkSet) /\ p[1] = c /\ p[2] = shared
  BY SpecOK DEF Moving
<1>2. own \in Names /\ IsOwn(c, own)
  <2>1. <<"db", 0>> \in Uses
    BY DEF Uses
  <2>2. Suffixed(c, <<"db", 0>>) \in Names
    BY <2>1, SuffixedOK
  <2> QED BY <2>2, UniqueOK DEF IsOwn
<1>3. CASE ~HasDep(t, p)
  <2>1. u = t
    BY <1>3 DEF MoveClient
  <2> HIDE DEF p, u
  <2>2. ~Has(t.deps, c, shared)
    BY <1>1, <1>3, FirstHas DEF HasDep
  <2> QED BY <2>1, <2>2 DEF Moving, u
<1>4. CASE HasDep(t, p)
  <2>1. u = [typed EXCEPT !.deps[i].to = own]
    BY <1>4 DEF MoveClient
  <2> HIDE DEF p
  <2>2. i \in DOMAIN t.deps /\ t.deps[i].from = c /\ t.deps[i].to = shared /\ Has(t.deps, c, shared)
    BY <1>1, <1>4, FirstHas DEF HasDep
  <2> HIDE DEF own, i
  <2>3. /\ IsSpec(typed) /\ typed.deps = t.deps /\ typed.calls = t.calls
        /\ DOMAIN typed.types = DOMAIN t.types \cup {own}
        /\ \A m \in DOMAIN t.types : typed.types[m] = t.types[m]
    BY <1>1, <1>2, EnsureTypeOK DEF SpecTypes, Keeps
  <2> HIDE DEF typed
  <2>4. u = [typed EXCEPT !.deps = deps]
    BY <2>1, <2>3, SpecParts
  <2>5. t.deps[i] \in LinkSet
    BY <1>1, <2>2
  <2>6. e \in LinkSet /\ e.from = c /\ e.to = own
    BY <1>2, <2>2, <2>5 DEF LinkSet
  <2> HIDE DEF e
  <2>7. deps \in Seq(LinkSet) /\ DOMAIN deps = DOMAIN t.deps
        /\ \A k \in DOMAIN deps : deps[k] = IF k = i THEN e ELSE t.deps[k]
    BY <1>1, <2>2, <2>6
  <2> HIDE DEF deps, u
  <2>8. IsSpec(u) /\ u.deps = deps /\ u.types = typed.types
    BY <2>3, <2>4, <2>7, NewDeps
  <2>9. DOMAIN u.deps = DOMAIN s.deps
    BY <2>7, <2>8 DEF Moving
  <2>10. s.deps # <<>>
    <3>1. DOMAIN <<>> = {}
      OBVIOUS
    <3> QED BY <2>2, <3>1 DEF Moving
  <2>11. ASSUME NEW k \in DOMAIN u.deps, NEW l \in DOMAIN u.deps,
                u.deps[k].from = u.deps[l].from, u.deps[k].to = shared, u.deps[l].to = shared
         PROVE  k = l
    <3>1. \A m \in DOMAIN u.deps : u.deps[m].to = shared =>
            m \in DOMAIN t.deps /\ u.deps[m].from = t.deps[m].from /\ t.deps[m].to = shared
      BY <2>2, <2>6, <2>7, <2>8
    <3> QED BY <2>11, <3>1 DEF Moving
  <2>12. ASSUME NEW x, Has(u.deps, x, shared)
         PROVE  Has(s.deps, x, shared) /\ (x \in done \cup {c} => IsOwn(x, shared))
    <3>1. PICK k \in DOMAIN deps : deps[k].from = x /\ deps[k].to = shared
      BY <2>8, <2>12 DEF Has
    <3>2. CASE k = i
      <4>1. x = c /\ own = shared
        BY <2>6, <2>7, <3>1, <3>2
      <4> QED BY <1>2, <2>2, <4>1 DEF Moving
    <3>3. CASE k # i
      <4>1. k \in DOMAIN t.deps /\ t.deps[k].from = x /\ t.deps[k].to = shared
        BY <2>7, <3>1, <3>3
      <4>2. x # c
        BY <2>2, <3>3, <4>1 DEF Moving
      <4>3. Has(t.deps, x, shared)
        BY <4>1 DEF Has
      <4> QED BY <4>2, <4>3 DEF Moving
    <3> QED BY <3>2, <3>3
  <2>13. \A m \in DOMAIN s.types : m \in DOMAIN u.types /\ u.types[m] = s.types[m]
    BY <2>3, <2>8 DEF Moving
  <2>14. \A m \in DOMAIN u.types \ DOMAIN s.types : LooksLikeDB(m)
    <3>1. LooksLikeDB(own)
      BY <1>2, OwnOK
    <3> QED BY <2>3, <2>8, <3>1 DEF Moving
  <2>15. Moving(s, u, shared, done \cup {c})
    BY <2>8, <2>9, <2>10, <2>11, <2>12, <2>13, <2>14 DEF Moving
  <2> QED BY <2>15 DEF u
<1> QED BY <1>3, <1>4

\* All of them have, and the shared one has left the services.
IsMoved(s, t, all, shared, moved) ==
    /\ Moving(s, all, shared, moved) /\ all # s
    /\ IsSpec(t) /\ t.deps = all.deps
    /\ t.types = [m \in DOMAIN all.types \ {shared} |-> all.types[m]]

\* That is what the fix leaves.
LEMMA AllMoved ==
    ASSUME NEW s, IsSpec(s), Plain(s.deps), NEW nodes \in Seq(Names), Len(nodes) >= 2,
           SplitFrom(s, nodes) # s
    PROVE  \E all : IsMoved(s, SplitFrom(s, nodes), all, nodes[1], {nodes[i] : i \in 2 .. Len(nodes)})
<1> DEFINE n == Len(nodes)
           shared == nodes[1]
           Done(i) == {nodes[j] : j \in 2 .. i}
<1>1. n \in Nat /\ 2 <= n /\ DOMAIN nodes = 1 .. n /\ (\A i \in 1 .. n : nodes[i] \in Names) /\ shared \in Names
  OBVIOUS
<1>2. PICK moved :
        /\ moved[1] = s
        /\ \A i \in 2 .. n : moved[i] = MoveClient(moved[i - 1], nodes[i], shared)
        /\ SplitFrom(s, nodes) = Unshared(s, moved[n], nodes)
  BY <1>1, MovedRecursion
<1> HIDE DEF n
<1> DEFINE S0 == {i \in 1 .. n : Moving(s, moved[i], shared, Done(i))}
           g == [i \in 1 .. n |-> i]
<1>3. g[1] \in S0
  <2>1. Done(1) = {}
    OBVIOUS
  <2>2. Moving(s, s, shared, {})
    BY DEF Moving, Plain
  <2> HIDE DEF Done
  <2>3. Moving(s, moved[1], shared, Done(1))
    BY <1>2, <2>1, <2>2, Zenon
  <2>4. 1 \in 1 .. n /\ g[1] = 1
    BY <1>1
  <2> HIDE DEF g
  <2> QED BY <2>3, <2>4
<1>4. ASSUME NEW i \in 1 + 1 .. n, g[i - 1] \in S0 PROVE g[i] \in S0
  <2>1. i \in 2 .. n /\ i \in 1 .. n /\ i - 1 \in 1 .. n /\ g[i - 1] = i - 1 /\ g[i] = i
    BY <1>1
  <2>2. Done(i) = Done(i - 1) \cup {nodes[i]}
    <3>1. \A j : j \in 2 .. i <=> j \in 2 .. i - 1 \/ j = i
      BY <2>1
    <3> QED BY <3>1
  <2> HIDE DEF Done
  <2>3. Moving(s, moved[i - 1], shared, Done(i - 1)) /\ nodes[i] \in Names
    BY <1>1, <1>4, <2>1
  <2>4. Moving(s, MoveClient(moved[i - 1], nodes[i], shared), shared, Done(i - 1) \cup {nodes[i]})
    BY <1>1, <2>3, MovingStep
  <2>5. Moving(s, moved[i], shared, Done(i))
    BY <1>2, <2>1, <2>2, <2>4
  <2> QED BY <2>1, <2>5
<1>5. g[n] \in S0
  <2> HIDE DEF g, S0
  <2>1. \A i \in 1 + 1 .. n : g[i - 1] \in S0 => g[i] \in S0
    BY <1>4
  <2>2. 1 \in Nat /\ 1 <= n
    BY <1>1
  <2>3. \A i \in 1 .. n : g[i] \in S0
    BY <1>1, <1>3, <2>1, <2>2, Stays
  <2> QED BY <1>1, <2>3
<1> DEFINE all == moved[n]
           types == [m \in DOMAIN all.types \ {shared} |-> all.types[m]]
           t == SplitFrom(s, nodes)
<1>6. Moving(s, all, shared, Done(n))
  BY <1>1, <1>5
<1>7. t = [all EXCEPT !.types = types] /\ all # s
  BY <1>2 DEF Unshared
<1> HIDE DEF all, t, Done
<1>8. all.types \in [DOMAIN all.types -> SpecTypes] /\ DOMAIN all.types \subseteq Names
      /\ IsFiniteSet(DOMAIN all.types) /\ IsSpec(all)
  BY <1>6 DEF Moving, IsSpec, SpecTypes
<1>9. types \in [DOMAIN types -> SpecTypes] /\ DOMAIN types \subseteq DOMAIN all.types
  BY <1>8
<1>10. types = [m \in DOMAIN all.types \ {shared} |-> all.types[m]]
  OBVIOUS
<1> HIDE DEF types
<1>11. IsSpec(t) /\ t.deps = all.deps /\ t.types = types
  <2>1. IsFiniteSet(DOMAIN types) /\ DOMAIN types \subseteq Names
    BY <1>8, <1>9, FS_Subset
  <2> QED BY <1>7, <1>8, <1>9, <2>1, NewTypes
<1>12. IsMoved(s, t, all, shared, Done(n))
  BY <1>6, <1>7, <1>10, <1>11 DEF IsMoved
<1> QED BY <1>12 DEF t, Done, n

\* The services that use a database.
ClientsOf(s, d) == {e.from : e \in {x \in Range(Edges(s)) : x.to = d}} \cap (Services(s) \ {d})

\* What a page calls.
TargetsOf(s, u) ==
    {e.to : e \in {x \in Range(Edges(s)) :
        x.from = u /\ x.to # u /\ Kind(s, x.to) \in {"service", "api_gateway"}}}

\* Who they are.
LEMMA ClientsMembers ==
    ASSUME NEW s, NEW d, NEW f
    PROVE  f \in ClientsOf(s, d) <=> Has(Edges(s), f, d) /\ f \in Services(s) /\ f # d
BY DEF ClientsOf, Has, Range

\* What these are.
LEMMA TargetsMembers ==
    ASSUME NEW s, NEW u, NEW x
    PROVE  x \in TargetsOf(s, u) <=> Has(Edges(s), u, x) /\ x # u /\ Kind(s, x) \in {"service", "api_gateway"}
BY DEF TargetsOf, Has, Range

\* Links once in the graph are once among the dependencies.
LEMMA PlainDeps ==
    ASSUME NEW s, Plain(Edges(s))
    PROVE  Plain(s.deps)
<1>1. s.deps # <<>> => Edges(s) = s.deps
  BY DEF Edges
<1>2. s.deps = <<>> => DOMAIN s.deps = {}
  OBVIOUS
<1> QED BY <1>1, <1>2 DEF Plain

\* A link's ends are names and nodes.
LEMMA HasEnds ==
    ASSUME NEW s, IsSpec(s), NEW x, NEW y, Has(Edges(s), x, y)
    PROVE  x \in Names /\ y \in Names /\ x \in Nodes(s) /\ y \in Nodes(s)
<1>1. PICK e \in Range(Edges(s)) : e.from = x /\ e.to = y
  BY DEF Has, Range
<1> QED BY <1>1, SpecOK DEF LinkSet

\* A database whose clients were moved has at most the one whose own has its name.
LEMMA SplitFromMends ==
    ASSUME NEW s, IsSpec(s), Plain(Edges(s)), NEW nodes \in Seq(Names), Len(nodes) >= 2,
           SplitFrom(s, nodes) # s, ClientsOf(s, nodes[1]) = {nodes[i] : i \in 2 .. Len(nodes)}
    PROVE  \A f, g \in ClientsOf(Merge(s, SplitFrom(s, nodes)), nodes[1]) : f = g
<1> DEFINE t == SplitFrom(s, nodes)
           shared == nodes[1]
           done == {nodes[i] : i \in 2 .. Len(nodes)}
<1>1. Plain(s.deps)
  BY PlainDeps
<1>2. PICK all : IsMoved(s, t, all, shared, done)
  <2>1. \E all : IsMoved(s, SplitFrom(s, nodes), all, nodes[1], {nodes[i] : i \in 2 .. Len(nodes)})
    BY <1>1, AllMoved
  <2> QED BY <2>1
<1> HIDE DEF done
<1>3. s.deps # <<>> /\ t.deps # <<>> /\ ClientsOf(s, shared) = done /\ shared \in Names
  <2>1. ClientsOf(s, shared) = done /\ shared \in Names
    BY DEF done
  <2> HIDE DEF t, shared
  <2>2. s.deps # <<>> /\ s.deps \in Seq(LinkSet) /\ DOMAIN t.deps = DOMAIN s.deps
    BY <1>2, SpecOK DEF IsMoved, Moving
  <2>3. 1 \in DOMAIN s.deps
    <3>1. Len(s.deps) \in Nat /\ DOMAIN s.deps = 1 .. Len(s.deps) /\ (Len(s.deps) = 0 => s.deps = <<>>)
      BY <2>2
    <3> QED BY <2>2, <3>1
  <2>4. DOMAIN <<>> = {}
    OBVIOUS
  <2>5. t.deps # <<>>
    BY <2>2, <2>3, <2>4
  <2> QED BY <2>1, <2>2, <2>5
<1> HIDE DEF t, shared
<1> USE DEF IsMoved
<1>4. Merge(s, t) = t /\ Edges(t) = t.deps /\ Edges(s) = s.deps
  BY <1>2, <1>3, MergeSame DEF Edges
<1>5. ASSUME NEW f \in ClientsOf(t, shared) PROVE f \in Names /\ IsOwn(f, shared)
  <2>1. Has(t.deps, f, shared) /\ f \in Services(t) /\ f # shared
    BY <1>4, ClientsMembers
  <2>2. Has(s.deps, f, shared) /\ (f \in done => IsOwn(f, shared))
    BY <1>2, <2>1 DEF Moving, Has
  <2>3. f \in Names /\ f \in Nodes(s)
    BY <1>4, <2>2, HasEnds
  <2>4. Kind(t, f) = "service"
    BY <2>1 DEF Services
  <2>5. t.dbs = s.dbs
    BY <1>2 DEF IsSpec
  <2>6. f \notin s.dbs /\ ~LooksLikeDB(f)
    BY <2>4, <2>5 DEF Kind
  <2>7. Kind(s, f) = "service"
    <3>1. CASE f \in DOMAIN s.types
      <4>1. f \in DOMAIN t.types /\ t.types[f] = s.types[f]
        BY <1>2, <2>1, <3>1 DEF Moving
      <4> QED BY <2>4, <2>5, <2>6, <3>1, <4>1 DEF Kind
    <3>2. CASE f \notin DOMAIN s.types
      BY <2>6, <3>2 DEF Kind
    <3> QED BY <3>1, <3>2
  <2>8. f \in Services(s)
    BY <2>3, <2>7 DEF Services
  <2>9. f \in done
    BY <1>3, <1>4, <2>1, <2>2, <2>8, ClientsMembers
  <2> QED BY <2>2, <2>3, <2>9
<1>6. \A f, g \in ClientsOf(t, shared) : f = g
  BY <1>5, OwnOK
<1> QED BY <1>4, <1>6 DEF t, shared

\* Some of a page's calls have been led through its BFF.
Leading(s, t, page, bff, led) ==
    /\ IsSpec(t) /\ t.deps # <<>> /\ Plain(t.deps)
    /\ \A x : Has(t.deps, page, x) => x = bff \/ (Has(s.deps, page, x) /\ x \notin led)
    /\ DOMAIN t.types = DOMAIN s.types \cup {bff}
    /\ \A m \in DOMAIN s.types : t.types[m] = s.types[m]

\* One more is.
LEMMA LeadingStep ==
    ASSUME NEW s, NEW t, NEW page \in Names, NEW bff \in Names, page # bff, NEW target \in Names,
           NEW done, Leading(s, t, page, bff, done)
    PROVE  Leading(s, Through(t, page, bff, target), page, bff, done \cup {target})
<1> DEFINE p == <<page, target>>
           less == RemoveDependencyOnce(t, p)
           u == AddDependencyIfMissing(less, <<bff, target>>, TRUE)
<1>1. IsSpec(t) /\ Plain(t.deps) /\ p[1] = page /\ p[2] = target
  BY DEF Leading
<1>2. u = Through(t, page, bff, target)
  BY DEF Through
<1> HIDE DEF p
<1>3. /\ IsSpec(less) /\ Plain(less.deps) /\ less.types = t.types /\ ~Has(less.deps, page, target)
      /\ \A x, y : Has(less.deps, x, y) => Has(t.deps, x, y)
  BY <1>1, RemovedDependency
<1> HIDE DEF less
<1>4. /\ IsSpec(u) /\ u.types = less.types /\ u.deps # <<>> /\ Plain(u.deps)
      /\ \A x, y : Has(u.deps, x, y) <=> Has(less.deps, x, y) \/ (x = bff /\ y = target)
  <2> DEFINE sync == TRUE
  <2>1. sync \in BOOLEAN /\ IsSpec(less) /\ Plain(less.deps)
    BY <1>3
  <2>2. u = AddDependencyIfMissing(less, <<bff, target>>, sync)
    BY DEF u
  <2> HIDE DEF u, sync
  <2> QED BY <2>1, <2>2, AddedDependency
<1> HIDE DEF u
<1>5. \A x : Has(u.deps, page, x) => x = bff \/ (Has(s.deps, page, x) /\ x \notin done \cup {target})
  BY <1>3, <1>4 DEF Leading
<1>6. Leading(s, u, page, bff, done \cup {target})
  BY <1>3, <1>4, <1>5 DEF Leading
<1> QED BY <1>2, <1>6

\* The BFF is there, and called by the page.
LEMMA LeadingStart ==
    ASSUME NEW s, IsSpec(s), Plain(s.deps), NEW page \in Names, NEW bff \in Names
    PROVE  Leading(s, BffStart(s, page, bff), page, bff, {})
<1> DEFINE typed == EnsureType(s, bff, "api_gateway")
           u == AddDependencyIfMissing(typed, <<page, bff>>, TRUE)
<1>1. /\ IsSpec(typed) /\ typed.deps = s.deps /\ DOMAIN typed.types = DOMAIN s.types \cup {bff}
      /\ \A m \in DOMAIN s.types : typed.types[m] = s.types[m]
  BY EnsureTypeOK DEF SpecTypes, Keeps
<1>2. u = BffStart(s, page, bff)
  BY DEF BffStart
<1> HIDE DEF typed
<1>3. /\ IsSpec(u) /\ u.types = typed.types /\ u.deps # <<>> /\ Plain(u.deps)
      /\ \A x, y : Has(u.deps, x, y) <=> Has(s.deps, x, y) \/ (x = page /\ y = bff)
  <2> DEFINE sync == TRUE
  <2>1. sync \in BOOLEAN /\ IsSpec(typed) /\ Plain(typed.deps)
    BY <1>1
  <2>2. u = AddDependencyIfMissing(typed, <<page, bff>>, sync)
    BY DEF u
  <2> HIDE DEF u, sync
  <2>3. /\ IsSpec(u) /\ u.types = typed.types /\ u.deps # <<>> /\ Plain(u.deps)
        /\ \A x, y : Has(u.deps, x, y) <=> Has(typed.deps, x, y) \/ (x = page /\ y = bff)
    BY <2>1, <2>2, AddedDependency
  <2> QED BY <1>1, <2>3
<1> HIDE DEF u
<1>4. Leading(s, u, page, bff, {})
  BY <1>1, <1>3 DEF Leading
<1> QED BY <1>2, <1>4

\* All of them are.
LEMMA AllLed ==
    ASSUME NEW s, IsSpec(s), Plain(s.deps), NEW nodes \in Seq(Names), Len(nodes) >= 2,
           nodes[1] # UniqueServiceName(s, Name("bff"))
    PROVE  Leading(s, InsertBFF(s, nodes), nodes[1], UniqueServiceName(s, Name("bff")),
                   {nodes[i] : i \in 2 .. Len(nodes)})
<1> DEFINE n == Len(nodes)
           page == nodes[1]
           bff == UniqueServiceName(s, Name("bff"))
           Done(i) == {nodes[j] : j \in 2 .. i}
<1>1. n \in Nat /\ 2 <= n /\ DOMAIN nodes = 1 .. n /\ (\A i \in 1 .. n : nodes[i] \in Names) /\ page \in Names
  OBVIOUS
<1>2. PICK after :
        /\ after[1] = BffStart(s, page, bff)
        /\ \A i \in 2 .. n : after[i] = Through(after[i - 1], page, bff, nodes[i])
        /\ InsertBFF(s, nodes) = after[n]
  BY <1>1, BffRecursion
<1>3. bff \in Names /\ page # bff
  BY BffName
<1> HIDE DEF n, bff, page
<1> DEFINE S0 == {i \in 1 .. n : Leading(s, after[i], page, bff, Done(i))}
           g == [i \in 1 .. n |-> i]
<1>4. g[1] \in S0
  <2>1. Done(1) = {}
    OBVIOUS
  <2> HIDE DEF Done
  <2>2. Leading(s, after[1], page, bff, {})
    BY <1>1, <1>2, <1>3, LeadingStart
  <2>3. 1 \in 1 .. n /\ g[1] = 1
    BY <1>1
  <2> HIDE DEF g
  <2> QED BY <2>1, <2>2, <2>3
<1>5. ASSUME NEW i \in 1 + 1 .. n, g[i - 1] \in S0 PROVE g[i] \in S0
  <2>1. i \in 2 .. n /\ i \in 1 .. n /\ i - 1 \in 1 .. n /\ g[i - 1] = i - 1 /\ g[i] = i
    BY <1>1
  <2>2. Done(i) = Done(i - 1) \cup {nodes[i]}
    <3>1. \A j : j \in 2 .. i <=> j \in 2 .. i - 1 \/ j = i
      BY <2>1
    <3> QED BY <3>1
  <2> HIDE DEF Done
  <2>3. Leading(s, after[i - 1], page, bff, Done(i - 1)) /\ nodes[i] \in Names
    BY <1>1, <1>5, <2>1
  <2>4. Leading(s, Through(after[i - 1], page, bff, nodes[i]), page, bff, Done(i - 1) \cup {nodes[i]})
    BY <1>1, <1>3, <2>3, LeadingStep
  <2>5. Leading(s, after[i], page, bff, Done(i))
    BY <1>2, <2>1, <2>2, <2>4
  <2> QED BY <2>1, <2>5
<1>6. g[n] \in S0
  <2> HIDE DEF g, S0
  <2>1. \A i \in 1 + 1 .. n : g[i - 1] \in S0 => g[i] \in S0
    BY <1>5
  <2>2. 1 \in Nat /\ 1 <= n
    BY <1>1
  <2>3. \A i \in 1 .. n : g[i] \in S0
    BY <1>1, <1>4, <2>1, <2>2, Stays
  <2> QED BY <1>1, <2>3
<1>7. Leading(s, after[n], page, bff, Done(n))
  BY <1>1, <1>6
<1> QED BY <1>2, <1>7 DEF n, bff, page, Done

\* A page whose calls were led through its BFF calls at most that.
LEMMA InsertBFFMends ==
    ASSUME NEW s, IsSpec(s), Plain(Edges(s)), NEW nodes \in Seq(Names), Len(nodes) >= 2,
           nodes[1] # UniqueServiceName(s, Name("bff")),
           TargetsOf(s, nodes[1]) = {nodes[i] : i \in 2 .. Len(nodes)}
    PROVE  TargetsOf(Merge(s, InsertBFF(s, nodes)), nodes[1]) \subseteq {UniqueServiceName(s, Name("bff"))}
<1> DEFINE t == InsertBFF(s, nodes)
           page == nodes[1]
           bff == UniqueServiceName(s, Name("bff"))
           led == {nodes[i] : i \in 2 .. Len(nodes)}
<1>1. Leading(s, t, page, bff, led)
  BY PlainDeps, AllLed
<1>2. TargetsOf(s, page) = led
  OBVIOUS
<1> HIDE DEF t, page, bff, led
<1>3. Merge(s, t) = t /\ Edges(t) = t.deps
  BY <1>1, MergeSame DEF Leading, Edges
<1>4. ASSUME NEW x \in TargetsOf(t, page), x # bff PROVE FALSE
  <2>1. Has(t.deps, page, x) /\ x # page /\ Kind(t, x) \in {"service", "api_gateway"}
    BY <1>3, TargetsMembers
  <2>2. Has(s.deps, page, x) /\ x \notin led
    BY <1>1, <1>4, <2>1 DEF Leading
  <2>3. Edges(s) = s.deps
    <3>1. DOMAIN <<>> = {}
      OBVIOUS
    <3> QED BY <2>2, <3>1 DEF Has, Edges
  <2>4. Kind(t, x) = Kind(s, x)
    <3>1. t.dbs = s.dbs
      BY <1>1 DEF Leading, IsSpec
    <3>2. /\ x \in DOMAIN t.types <=> x \in DOMAIN s.types
          /\ x \in DOMAIN s.types => t.types[x] = s.types[x]
      BY <1>1, <1>4 DEF Leading
    <3> QED BY <3>1, <3>2 DEF Kind
  <2>5. x \in TargetsOf(s, page)
    BY <2>1, <2>2, <2>3, <2>4, TargetsMembers
  <2> QED BY <1>2, <2>2, <2>5
<1>5. TargetsOf(t, page) \subseteq {bff}
  BY <1>4
<1> QED BY <1>3, <1>5 DEF t, page, bff

(***************************************************************************)
(* What the detections that the fixes mend say of the graph.               *)
(***************************************************************************)

\* Two services that call each other.
IsPingPong(s, d) ==
    /\ d.kind = "ping_pong_dependency"
    /\ \E a, b : d.nodes = <<a, b>> /\ Has(Edges(s), a, b) /\ Has(Edges(s), b, a)

\* A backend service that calls a page.
IsReverse(s, d) ==
    /\ d.kind = "reverse_dependency"
    /\ \E a, b : d.nodes = <<a, b>> /\ ~IsUIName(a) /\ IsUIName(b) /\ Has(Edges(s), a, b)

\* Two services that wait for each other.
IsTight(s, d) ==
    /\ d.kind = "tight_coupling"
    /\ \E a, b : d.nodes = <<a, b>> /\ HasSync(Edges(s), a, b) /\ HasSync(Edges(s), b, a)

\* A node, followed by those around it.
IsCentre(nodes, set) == {nodes[i] : i \in 2 .. Len(nodes)} = set /\ Len(nodes) >= 2

\* A database with its clients.
IsShared(s, d) ==
    /\ d.kind = "shared_database"
    /\ IsCentre(d.nodes, ClientsOf(s, d.nodes[1])) /\ Cardinality(ClientsOf(s, d.nodes[1])) >= DbClients

\* A page with what it calls.
IsOrchestrator(s, d) ==
    /\ d.kind = "ui_orchestrator" /\ IsUIName(d.nodes[1])
    /\ IsCentre(d.nodes, TargetsOf(s, d.nodes[1])) /\ Cardinality(TargetsOf(s, d.nodes[1])) >= UITargets

\* What is in a sequence of a set is in the set.
LEMMA InSequence ==
    ASSUME NEW S, NEW r \in SetToSeqs(S), NEW d \in Range(r)
    PROVE  d \in S
BY DEF SetToSeqs, Range

\* Ping-pongs are found where two services call each other.
LEMMA PingPongsDescribe ==
    ASSUME NEW s, NEW r \in PingPongs(s), NEW d \in Range(r)
    PROVE  IsPingPong(s, d)
<1> DEFINE V == Services(s)
           has == {<<e.from, e.to>> : e \in {x \in Range(Edges(s)) : {x.from, x.to} \subseteq V}}
           pairs == {{p[1], p[2]} : p \in {q \in has : <<q[2], q[1]>> \in has}}
           Named(pair) == {p \in pair \X pair : {p[1], p[2]} = pair}
           names == {f \in [pairs -> UNION {Named(p) : p \in pairs}] : \A p \in pairs : f[p] \in Named(p)}
           Of(name) == {Detection("ping_pong_dependency", "MEDIUM", name[p]) : p \in pairs}
<1>1. PingPongs(s) = UNION {SetToSeqs(Of(name)) : name \in names}
  BY DEF PingPongs
<1>2. PICK name \in names : r \in SetToSeqs(Of(name))
  <2> HIDE DEF names, Of
  <2> QED BY <1>1
<1>3. d \in Of(name)
  <2> HIDE DEF Of
  <2> QED BY <1>2, InSequence
<1>4. PICK p \in pairs : d = Detection("ping_pong_dependency", "MEDIUM", name[p])
  BY <1>3
<1>5. name[p] \in Named(p)
  <2> HIDE DEF pairs, Named
  <2> QED BY <1>2, <1>4
<1>6. PICK a \in p, b \in p : name[p] = <<a, b>> /\ {a, b} = p
  BY <1>5
<1>7. PICK q \in has : <<q[2], q[1]>> \in has /\ p = {q[1], q[2]}
  BY <1>4
<1>8. \A x, y : <<x, y>> \in has => Has(Edges(s), x, y)
  BY DEF Has, Range
<1>9. q = <<q[1], q[2]>>
  BY <1>7
<1> HIDE DEF has
<1>10. Has(Edges(s), q[1], q[2]) /\ Has(Edges(s), q[2], q[1])
  BY <1>7, <1>8, <1>9
<1>11. (a = q[1] /\ b = q[2]) \/ (a = q[2] /\ b = q[1])
  BY <1>6, <1>7
<1>12. Has(Edges(s), a, b) /\ Has(Edges(s), b, a)
  BY <1>10, <1>11
<1>13. d.kind = "ping_pong_dependency" /\ d.nodes = <<a, b>>
  BY <1>4, <1>6 DEF Detection
<1> QED BY <1>12, <1>13 DEF IsPingPong

\* Reverse dependencies, where a backend service calls a page.
LEMMA ReverseDependenciesDescribe ==
    ASSUME NEW s, IsSpec(s), NEW r \in ReverseDependencies(s), NEW d \in Range(r)
    PROVE  IsReverse(s, d)
<1> DEFINE V == Services(s)
           kind == "reverse_dependency"
           UIs == {m \in V : IsUIName(m)}
           Backend == {n \in V : ~IsUIName(n) /\ \E m \in Range(Called(s, n)) : IsUIName(m)}
           Pages(n) == Only(Called(s, n), UIs)
           Of(n) == [i \in DOMAIN Pages(n) |-> Detection(kind, "HIGH", <<n, Pages(n)[i]>>)]
           Right == {x \in [kind : {kind}, severity : {"HIGH"}, nodes : Seq(V)] : IsReverse(s, x)}
           X == Seq(Right)
<1>1. ReverseDependencies(s) = {FlattenSeq([i \in DOMAIN order |-> Of(order[i])]) : order \in SetToSeqs(Backend)}
  BY DEF ReverseDependencies
<1>2. IsFiniteSet(V) /\ IsFiniteSet(Backend)
  <2>1. IsFiniteSet(V)
    BY SpecOK
  <2> HIDE DEF V
  <2> QED BY <2>1, FS_Subset
<1>3. ASSUME NEW n \in Backend PROVE Of(n) \in X
  <2> DEFINE pages == Pages(n)
  <2>1. Called(s, n) \in Seq(V) /\ Range(Called(s, n)) = {m \in V : \E e \in Range(Edges(s)) : e.from = n /\ e.to = m}
    BY CalledOK
  <2>2. pages \in Seq(V \cap UIs) /\ Range(pages) = Range(Called(s, n)) \cap UIs
    <3> HIDE DEF V, UIs
    <3> QED BY <2>1, OnlyOK
  <2>3. Of(n) = [i \in DOMAIN pages |-> Detection(kind, "HIGH", <<n, pages[i]>>)]
    OBVIOUS
  <2>4. ~IsUIName(n) /\ n \in V
    OBVIOUS
  <2> HIDE DEF pages, Of, Backend
  <2>5. DOMAIN pages = 1 .. Len(pages) /\ Len(pages) \in Nat
    BY <2>2
  <2>6. ASSUME NEW i \in DOMAIN pages PROVE Detection(kind, "HIGH", <<n, pages[i]>>) \in Right
    <3> DEFINE b == pages[i]
               x == Detection(kind, "HIGH", <<n, b>>)
    <3>1. b \in Range(pages)
      BY DEF Range
    <3> HIDE DEF b
    <3>2. b \in V /\ IsUIName(b) /\ Has(Edges(s), n, b)
      BY <2>1, <2>2, <3>1 DEF Has, Range
    <3>3. x.kind = kind /\ x.nodes = <<n, b>> /\ x \in [kind : {kind}, severity : {"HIGH"}, nodes : Seq(V)]
      BY <2>4, <3>2 DEF Detection
    <3> HIDE DEF x
    <3>4. IsReverse(s, x)
      BY <2>4, <3>2, <3>3 DEF IsReverse
    <3> QED BY <3>3, <3>4 DEF x, b
  <2> HIDE DEF Right
  <2> QED BY <2>3, <2>5, <2>6, IsASeq
<1> HIDE DEF Of, Backend
<1>4. PICK order \in SetToSeqs(Backend) : r = FlattenSeq([i \in DOMAIN order |-> Of(order[i])])
  BY <1>1
<1>5. order \in Seq(Backend)
  BY <1>2, SetToSeqsOK
<1> DEFINE seqs == [i \in DOMAIN order |-> Of(order[i])]
<1>6. seqs \in Seq(X)
  <2>1. DOMAIN order = 1 .. Len(order) /\ Len(order) \in Nat /\ \A i \in 1 .. Len(order) : order[i] \in Backend
    BY <1>5
  <2>2. \A i \in 1 .. Len(order) : Of(order[i]) \in X
    BY <1>3, <2>1
  <2> HIDE DEF X
  <2> QED BY <2>1, <2>2, IsASeq
<1> HIDE DEF Right
<1>7. r \in Seq(Right)
  <2>1. r = FlattenSeq(seqs) /\ seqs \in Seq(Seq(Right))
    BY <1>4, <1>6
  <2> HIDE DEF seqs
  <2> QED BY <2>1, FlattenOK
<1>8. d \in Right
  BY <1>7 DEF Range
<1> QED BY <1>8 DEF Right

\* Tight couplings, where two services wait for each other.
LEMMA TightCouplingsDescribe ==
    ASSUME NEW s, IsSpec(s), NEW r \in TightCouplings(s), NEW d \in Range(r)
    PROVE  IsTight(s, d)
<1> DEFINE V == Services(s)
           kind == "tight_coupling"
           Sync(a) == Only(Out(s, a), {e \in Range(Out(s, a)) : e.sync})
           Count(a, b) == Len(Only(Sync(a), {e \in Range(Sync(a)) : e.to = b}))
           close == {p \in V \X V : Count(p[1], p[2]) >= 1 /\ 10 * Count(p[1], p[2]) >= 7 * Len(Sync(p[1]))}
           Mutual(a) == {b \in V : {<<a, b>>, <<b, a>>} \subseteq close}
           Targets(a) == LET out == Sync(a) IN Only([i \in DOMAIN out |-> out[i].to], Mutual(a))
           partners == [a \in V |-> Distinct(Targets(a))]
           Right == {x \in [kind : {kind}, severity : {"HIGH"}, nodes : Seq(V)] : IsTight(s, x)}
           X == Seq(Right)
<1>1. ASSUME NEW a \in V
      PROVE  Sync(a) \in Seq(LinkSet) /\ Range(Sync(a)) = {e \in Range(Edges(s)) : e.from = a /\ e.sync}
  <2> DEFINE T == {e \in Range(Out(s, a)) : e.sync}
  <2>1. Out(s, a) \in Seq(LinkSet) /\ Range(Out(s, a)) = {e \in Range(Edges(s)) : e.from = a}
    BY OutOK
  <2>2. Sync(a) = Only(Out(s, a), T)
    OBVIOUS
  <2> HIDE DEF T, Sync
  <2>3. Sync(a) \in Seq(LinkSet \cap T) /\ Range(Sync(a)) = Range(Out(s, a)) \cap T
    BY <2>1, <2>2, OnlyOK
  <2>4. Sync(a) \in Seq(LinkSet)
    BY <2>3, SeqMonotonic
  <2> QED BY <2>1, <2>3, <2>4 DEF T
<1> HIDE DEF Sync
<1>2. ASSUME NEW a \in V, NEW b, Count(a, b) >= 1 PROVE HasSync(Edges(s), a, b)
  <2> DEFINE out == Sync(a)
             T == {e \in Range(out) : e.to = b}
             toB == Only(out, T)
  <2>1. Len(toB) >= 1
    BY <1>2
  <2>2. out \in Seq(LinkSet)
    BY <1>1
  <2> HIDE DEF out, T
  <2>3. toB \in Seq(LinkSet \cap T)
    BY <2>2, OnlyOK
  <2> HIDE DEF toB
  <2>4. toB[1] \in T
    BY <2>1, <2>3
  <2>5. PICK e \in Range(Sync(a)) : e.to = b
    BY <2>4 DEF T, out
  <2> QED BY <1>1, <2>5 DEF HasSync, Range
<1>3. ASSUME NEW a \in V, NEW b \in Mutual(a) PROVE Count(a, b) >= 1 /\ Count(b, a) >= 1 /\ b \in V
  <2> HIDE DEF Count
  <2> QED OBVIOUS
<1> HIDE DEF Count, close
<1>4. ASSUME NEW a \in V
      PROVE  Distinct(Targets(a)) \in Seq(V)
             /\ \A b \in Range(Distinct(Targets(a))) : HasSync(Edges(s), a, b) /\ HasSync(Edges(s), b, a)
  <2> DEFINE out == Sync(a)
             mutual == Mutual(a)
             targets == Targets(a)
  <2>1. out \in Seq(LinkSet) /\ targets = Only([i \in DOMAIN out |-> out[i].to], mutual) /\ mutual \subseteq V
    BY <1>1
  <2>2. \A b \in mutual : HasSync(Edges(s), a, b) /\ HasSync(Edges(s), b, a)
    BY <1>2, <1>3
  <2> HIDE DEF out, mutual, targets, V
  <2>3. targets \in Seq(mutual)
    BY <2>1, TargetsOK DEF targets
  <2>4. Distinct(targets) \in Seq(mutual)
    BY <2>3, DistinctOK
  <2>5. Distinct(targets) \in Seq(V) /\ \A b \in Range(Distinct(targets)) : b \in mutual
    <3>1. Distinct(targets) \in Seq(V)
      BY <2>1, <2>4, SeqMonotonic
    <3> DEFINE found == Distinct(targets)
    <3>2. found \in Seq(mutual)
      BY <2>4
    <3> HIDE DEF found
    <3>3. \A b \in Range(found) : b \in mutual
      BY <3>2 DEF Range
    <3> QED BY <3>1, <3>3 DEF found
  <2> QED BY <2>2, <2>5 DEF targets
<1> HIDE DEF Mutual, Targets
<1>5. PICK order \in SetToSeqs(V) : r = Coupled(order, partners, V)
  <2>1. TightCouplings(s) = {Coupled(order, f, V) : f \in {partners}, order \in SetToSeqs(V)}
    BY DEF TightCouplings, Coupled, Targets, Mutual, close, Count, Sync
  <2> HIDE DEF partners, V
  <2> QED BY <2>1
<1>6. /\ \A a \in V : partners[a] \in Seq(V)
      /\ \A a \in V : \A b \in Range(partners[a]) : HasSync(Edges(s), a, b) /\ HasSync(Edges(s), b, a)
  BY <1>4
<1>7. IsFiniteSet(V)
  BY SpecOK
<1>8. order \in Seq(V)
  BY <1>7, SetToSeqsOK
<1> HIDE DEF partners
<1> DEFINE Found(a, bs) == [i \in DOMAIN bs |-> Detection(kind, "HIGH", <<a, bs[i]>>)]
           After(i) == V \ {order[j] : j \in 1 .. i - 1}
           Bs(i) == Only(partners[order[i]], After(i))
           seqs == [i \in DOMAIN order |-> Found(order[i], Bs(i))]
<1>9. ASSUME NEW i \in DOMAIN order PROVE Found(order[i], Bs(i)) \in X
  <2> DEFINE a == order[i]
             bs == Bs(i)
             all == partners[a]
             rest == After(i)
  <2>1. a \in V
    BY <1>8
  <2>2. all \in Seq(V) /\ \A b \in Range(all) : HasSync(Edges(s), a, b) /\ HasSync(Edges(s), b, a)
    BY <1>6, <2>1
  <2>3. bs = Only(all, rest)
    OBVIOUS
  <2> HIDE DEF bs, all, rest, V
  <2>4. bs \in Seq(V \cap rest) /\ Range(bs) = Range(all) \cap rest
    BY <2>2, <2>3, OnlyOK
  <2>5. DOMAIN bs = 1 .. Len(bs) /\ Len(bs) \in Nat /\ \A j \in DOMAIN bs : bs[j] \in V
    BY <2>4
  <2> HIDE DEF a
  <2>6. ASSUME NEW j \in DOMAIN bs PROVE Detection(kind, "HIGH", <<a, bs[j]>>) \in Right
    <3> DEFINE b == bs[j]
               x == Detection(kind, "HIGH", <<a, b>>)
    <3>1. b \in Range(all) /\ b \in V
      BY <2>4, <2>5 DEF Range
    <3> HIDE DEF b
    <3>2. HasSync(Edges(s), a, b) /\ HasSync(Edges(s), b, a)
      BY <2>2, <3>1
    <3>3. x.kind = kind /\ x.nodes = <<a, b>> /\ x \in [kind : {kind}, severity : {"HIGH"}, nodes : Seq(V)]
      BY <2>1, <3>1 DEF Detection
    <3> HIDE DEF x
    <3>4. IsTight(s, x)
      BY <3>2, <3>3 DEF IsTight
    <3> QED BY <3>3, <3>4 DEF x, b
  <2> HIDE DEF Right
  <2>7. Found(a, bs) \in X
    BY <2>5, <2>6, IsASeq
  <2> QED BY <2>7 DEF a, bs
<1>10. r = FlattenSeq(seqs)
  BY <1>5 DEF Coupled
<1> HIDE DEF Found, Bs, Right
<1>11. seqs \in Seq(X)
  <2>1. DOMAIN order = 1 .. Len(order) /\ Len(order) \in Nat
    BY <1>8
  <2> HIDE DEF X
  <2> QED BY <1>9, <2>1, IsASeq
<1>12. r \in Seq(Right)
  <2> HIDE DEF seqs
  <2> QED BY <1>10, <1>11, FlattenOK
<1>13. d \in Right
  BY <1>12 DEF Range
<1> QED BY <1>13 DEF Right

\* The nodes around one are told apart by their place.
LEMMA CentreOK ==
    ASSUME NEW c, NEW set, IsFiniteSet(set), set # {}, NEW order \in SetToSeqs(set)
    PROVE  LET nodes == <<c>> \o order IN nodes[1] = c /\ IsCentre(nodes, set)
<1> DEFINE nodes == <<c>> \o order
           all == {c} \cup set
<1>1. order \in Seq(set) /\ Range(order) = set
  BY SetToSeqsOK
<1>2. order \in Seq(all) /\ <<c>> \in Seq(all) /\ Len(<<c>>) = 1
  BY <1>1, SeqMonotonic
<1> HIDE DEF all
<1>3. Len(nodes) = 1 + Len(order) /\ \A i \in 1 .. 1 + Len(order) :
        nodes[i] = IF i <= 1 THEN <<c>>[i] ELSE order[i - 1]
  BY <1>2, ConcatProperties
<1> HIDE DEF nodes
<1>4. Len(order) \in Nat /\ Len(order) # 0 /\ DOMAIN order = 1 .. Len(order)
  <2>1. Len(order) = 0 => order = <<>>
    BY <1>2
  <2>2. order = <<>> => Range(order) = {}
    BY DEF Range
  <2>3. Len(order) \in Nat /\ DOMAIN order = 1 .. Len(order)
    BY <1>1
  <2> QED BY <1>1, <2>1, <2>2, <2>3
<1>5. nodes[1] = c /\ Len(nodes) >= 2
  BY <1>3, <1>4
<1>6. \A i \in 2 .. Len(nodes) : i - 1 \in DOMAIN order /\ nodes[i] = order[i - 1]
  BY <1>3, <1>4
<1>7. \A j \in DOMAIN order : j + 1 \in 2 .. Len(nodes) /\ nodes[j + 1] = order[j]
  BY <1>3, <1>4
<1>8. {nodes[i] : i \in 2 .. Len(nodes)} = Range(order)
  BY <1>6, <1>7 DEF Range
<1> QED BY <1>1, <1>5, <1>8 DEF IsCentre, nodes

\* Shared databases, with their clients.
LEMMA SharedDatabasesDescribe ==
    ASSUME NEW s, IsSpec(s), NEW r \in SharedDatabases(s), NEW d \in Range(r)
    PROVE  IsShared(s, d)
<1> DEFINE kind == "shared_database"
           Clients(c) == {e.from : e \in {x \in Range(Edges(s)) : x.to = c}} \cap (Services(s) \ {c})
           IsDBNode(c) == Kind(s, c) = "database" \/ (Kind(s, c) = "service" /\ IsDatabaseLikeName(c))
           centres == {c \in Nodes(s) : IsDBNode(c) /\ Cardinality(Clients(c)) >= DbClients}
           Severity(c) == IF Cardinality(c) >= 3 THEN "HIGH" ELSE "MEDIUM"
           Of(c) == {Detection(kind, Severity(Clients(c)), <<c>> \o order) : order \in SetToSeqs(Clients(c))}
           choices == {f \in [centres -> UNION {Of(c) : c \in centres}] : \A c \in centres : f[c] \in Of(c)}
<1>1. SharedDatabases(s) = UNION {SetToSeqs({f[c] : c \in centres}) : f \in choices}
  BY DEF SharedDatabases, Stars
<1>2. PICK f \in choices : r \in SetToSeqs({f[c] : c \in centres})
  <2> HIDE DEF choices, centres
  <2> QED BY <1>1
<1>3. PICK c \in centres : d = f[c]
  <2> HIDE DEF centres, choices
  <2>1. d \in {f[c] : c \in centres}
    BY <1>2, InSequence
  <2> QED BY <2>1
<1>4. PICK order \in SetToSeqs(Clients(c)) : d = Detection(kind, Severity(Clients(c)), <<c>> \o order)
  BY <1>2, <1>3
<1>5. Cardinality(Clients(c)) >= DbClients /\ Clients(c) = ClientsOf(s, c)
  BY <1>3 DEF ClientsOf
<1>6. IsFiniteSet(Clients(c))
  <2>1. IsFiniteSet(Services(s)) /\ Clients(c) \subseteq Services(s)
    BY SpecOK
  <2> HIDE DEF Clients
  <2> QED BY <2>1, FS_Subset
<1>7. d.kind = kind /\ d.nodes = <<c>> \o order
  BY <1>4 DEF Detection
<1> HIDE DEF Clients
<1>8. Clients(c) # {}
  <2>1. DbClients \in Nat /\ DbClients >= 1
    BY DetectorAssumption
  <2>2. Clients(c) = {} => Cardinality(Clients(c)) = 0
    BY FS_EmptySet
  <2> QED BY <1>5, <2>1, <2>2
<1>9. d.nodes[1] = c /\ IsCentre(d.nodes, Clients(c))
  <2> DEFINE set == Clients(c)
  <2>1. order \in SetToSeqs(set) /\ IsFiniteSet(set) /\ set # {}
    BY <1>4, <1>6, <1>8
  <2> HIDE DEF set
  <2> DEFINE nodes == <<c>> \o order
  <2>2. nodes[1] = c /\ IsCentre(nodes, set)
    BY <2>1, CentreOK
  <2> HIDE DEF nodes
  <2>3. d.nodes = nodes
    BY <1>7 DEF nodes
  <2> QED BY <2>2, <2>3 DEF set
<1> QED BY <1>5, <1>7, <1>9 DEF IsShared

\* Pages that call several services, with these.
LEMMA UIOrchestratorsDescribe ==
    ASSUME NEW s, IsSpec(s), NEW r \in UIOrchestrators(s), NEW d \in Range(r)
    PROVE  IsOrchestrator(s, d)
<1> DEFINE kind == "ui_orchestrator"
           Targets(u) == {e.to : e \in {x \in Range(Edges(s)) :
                            x.from = u /\ x.to # u /\ Kind(s, x.to) \in {"service", "api_gateway"}}}
           centres == {u \in Services(s) : IsUIName(u) /\ Cardinality(Targets(u)) >= UITargets}
           Of(c) == {Detection(kind, "MEDIUM", <<c>> \o order) : order \in SetToSeqs(Targets(c))}
           choices == {f \in [centres -> UNION {Of(c) : c \in centres}] : \A c \in centres : f[c] \in Of(c)}
<1>1. UIOrchestrators(s) = UNION {SetToSeqs({f[c] : c \in centres}) : f \in choices}
  BY DEF UIOrchestrators, Stars
<1>2. PICK f \in choices : r \in SetToSeqs({f[c] : c \in centres})
  <2> HIDE DEF choices, centres
  <2> QED BY <1>1
<1>3. PICK c \in centres : d = f[c]
  <2> HIDE DEF centres, choices
  <2>1. d \in {f[c] : c \in centres}
    BY <1>2, InSequence
  <2> QED BY <2>1
<1>4. PICK order \in SetToSeqs(Targets(c)) : d = Detection(kind, "MEDIUM", <<c>> \o order)
  BY <1>2, <1>3
<1>5. Cardinality(Targets(c)) >= UITargets /\ Targets(c) = TargetsOf(s, c) /\ IsUIName(c)
  BY <1>3 DEF TargetsOf
<1>6. IsFiniteSet(Targets(c))
  <2>1. IsFiniteSet(Nodes(s)) /\ Targets(c) \subseteq Nodes(s)
    BY SpecOK
  <2> HIDE DEF Targets
  <2> QED BY <2>1, FS_Subset
<1>7. d.kind = kind /\ d.nodes = <<c>> \o order
  BY <1>4 DEF Detection
<1> HIDE DEF Targets
<1>8. Targets(c) # {}
  <2>1. UITargets \in Nat /\ UITargets >= 1
    BY DetectorAssumption
  <2>2. Targets(c) = {} => Cardinality(Targets(c)) = 0
    BY FS_EmptySet
  <2> QED BY <1>5, <2>1, <2>2
<1>9. d.nodes[1] = c /\ IsCentre(d.nodes, Targets(c))
  <2> DEFINE set == Targets(c)
  <2>1. order \in SetToSeqs(set) /\ IsFiniteSet(set) /\ set # {}
    BY <1>4, <1>6, <1>8
  <2> HIDE DEF set
  <2> DEFINE nodes == <<c>> \o order
  <2>2. nodes[1] = c /\ IsCentre(nodes, set)
    BY <2>1, CentreOK
  <2> HIDE DEF nodes
  <2>3. d.nodes = nodes
    BY <1>7 DEF nodes
  <2> QED BY <2>2, <2>3 DEF set
<1> QED BY <1>5, <1>7, <1>9 DEF IsOrchestrator

\* The kinds of anti-patterns that one fix removes.
Mendable == {"ping_pong_dependency", "reverse_dependency", "tight_coupling",
             "shared_database", "ui_orchestrator"}

\* A detection of one of these, and what it says of the graph.
Describes(s, d) ==
    \/ IsPingPong(s, d)
    \/ IsReverse(s, d)
    \/ IsTight(s, d)
    \/ IsShared(s, d)
    \/ IsOrchestrator(s, d)

\* What an analysis finds of these kinds is there.
LEMMA AnalysisDescribes ==
    ASSUME NEW s, IsSpec(s), NEW dets \in Analyses(s), NEW d \in Range(dets), d.kind \in Mendable
    PROVE  Describes(s, d)
<1>1. PICK parts : IsParts(s, parts) /\ dets = FlattenSeq(parts)
  BY AnalysisParts
<1>2. PICK i \in 1 .. 8 : d \in Range(parts[i])
  BY <1>1, PartsFound
<1>3. d.kind = KindOf[i]
  BY <1>1, <1>2, PartsFound
<1>4. parts[i] \in DetectorsOf(s)[i]
  BY <1>1 DEF IsParts
<1>5. i \in {3, 4, 5, 7, 8}
  <2>1. i \in {1, 2, 3, 4, 5, 6, 7, 8}
    OBVIOUS
  <2>2. KindOf[1] \notin Mendable /\ KindOf[2] \notin Mendable /\ KindOf[6] \notin Mendable
    BY DEF KindOf, Mendable
  <2> QED BY <1>3, <2>1, <2>2
<1>6. /\ DetectorsOf(s)[3] = PingPongs(s) /\ DetectorsOf(s)[4] = ReverseDependencies(s)
      /\ DetectorsOf(s)[5] = SharedDatabases(s) /\ DetectorsOf(s)[7] = TightCouplings(s)
      /\ DetectorsOf(s)[8] = UIOrchestrators(s)
  BY DEF DetectorsOf
<1>7. CASE i = 3
  <2>1. parts[i] \in PingPongs(s)
    BY <1>4, <1>6, <1>7
  <2> QED BY <1>2, <2>1, PingPongsDescribe DEF Describes
<1>8. CASE i = 4
  <2>1. parts[i] \in ReverseDependencies(s)
    BY <1>4, <1>6, <1>8
  <2> QED BY <1>2, <2>1, ReverseDependenciesDescribe DEF Describes
<1>9. CASE i = 5
  <2>1. parts[i] \in SharedDatabases(s)
    BY <1>4, <1>6, <1>9
  <2> QED BY <1>2, <2>1, SharedDatabasesDescribe DEF Describes
<1>10. CASE i = 7
  <2>1. parts[i] \in TightCouplings(s)
    BY <1>4, <1>6, <1>10
  <2> QED BY <1>2, <2>1, TightCouplingsDescribe DEF Describes
<1>11. CASE i = 8
  <2>1. parts[i] \in UIOrchestrators(s)
    BY <1>4, <1>6, <1>11
  <2> QED BY <1>2, <2>1, UIOrchestratorsDescribe DEF Describes
<1> QED BY <1>5, <1>7, <1>8, <1>9, <1>10, <1>11

\* What any detector of these kinds finds is there.
LEMMA DetectorsDescribe ==
    ASSUME NEW s, IsSpec(s),
           NEW results \in {PingPongs(s), ReverseDependencies(s), SharedDatabases(s),
                            TightCouplings(s), UIOrchestrators(s)},
           NEW dets \in results, NEW d \in Range(dets)
    PROVE  Describes(s, d)
<1>1. CASE results = PingPongs(s)
  BY <1>1, PingPongsDescribe DEF Describes
<1>2. CASE results = ReverseDependencies(s)
  BY <1>2, ReverseDependenciesDescribe DEF Describes
<1>3. CASE results = SharedDatabases(s)
  BY <1>3, SharedDatabasesDescribe DEF Describes
<1>4. CASE results = TightCouplings(s)
  BY <1>4, TightCouplingsDescribe DEF Describes
<1>5. CASE results = UIOrchestrators(s)
  BY <1>5, UIOrchestratorsDescribe DEF Describes
<1> QED BY <1>1, <1>2, <1>3, <1>4, <1>5

(***************************************************************************)
(* A fix applied alone removes the anti-pattern it is for.                 *)
(***************************************************************************)

\* The thresholds of shared databases and of pages are their defaults, or higher
\* (rules/shared_database.go:22, rules/ui_orchestrator.go:16), and a BFF is no page
\* (rules/ui_helpers.go:28).
Defaults == DbClients >= 2 /\ UITargets >= 2 /\ "bff" \notin UINames

\* The members of a pair.
LEMMA PairRange ==
    ASSUME NEW a, NEW b
    PROVE  Range(<<a, b>>) = {a, b} /\ <<a, b>>[1] = a /\ <<a, b>>[2] = b
BY DEF Range

\* A YAML and a detection of it that a fix can be made for.
Found(s, d) == IsSpec(s) /\ Plain(Edges(s)) /\ d \in FixableSet

\* A YAML after a fix.
After(s, d) == Merge(s, Fix(s, d))

\* Two services that called each other do so no longer.
LEMMA PingPongMended ==
    ASSUME NEW s, NEW d, Found(s, d), Len(s.deps) # 1, Fix(s, d) # s, IsPingPong(s, d),
           NEW e, IsPingPong(After(s, d), e)
    PROVE  Range(e.nodes) # Range(d.nodes)
<1> DEFINE t == After(s, d)
           nodes == d.nodes
<1>1. PICK a, b : nodes = <<a, b>> /\ Has(Edges(s), a, b) /\ Has(Edges(s), b, a)
  BY DEF IsPingPong
<1>2. PICK x, y : e.nodes = <<x, y>> /\ Has(Edges(t), x, y) /\ Has(Edges(t), y, x)
  BY DEF IsPingPong
<1>3. Fix(s, d) = DropLeg(s, nodes)
  BY DEF Fix, IsPingPong
<1>4. nodes[1] = a /\ nodes[2] = b /\ Range(nodes) = {a, b} /\ Range(e.nodes) = {x, y}
  BY <1>1, <1>2, PairRange
<1>5. t = Merge(s, DropLeg(s, nodes))
  BY <1>3 DEF After
<1> HIDE DEF t, nodes
<1>6. DropLeg(s, nodes) # s /\ IsSpec(s) /\ Plain(Edges(s))
  BY <1>3 DEF Found
<1>7. ~(Has(Edges(t), a, b) /\ Has(Edges(t), b, a))
  BY <1>1, <1>4, <1>5, <1>6, DropLegMends
<1>8. {x, y} # {a, b}
  BY <1>2, <1>7
<1> QED BY <1>4, <1>8 DEF nodes

\* A backend service that called a page does so no longer.
LEMMA ReverseMended ==
    ASSUME NEW s, NEW d, Found(s, d), IsReverse(s, d), NEW e, IsReverse(After(s, d), e)
    PROVE  Range(e.nodes) # Range(d.nodes)
<1> DEFINE t == After(s, d)
           nodes == d.nodes
<1>1. PICK a, b : nodes = <<a, b>> /\ ~IsUIName(a) /\ IsUIName(b) /\ Has(Edges(s), a, b)
  BY DEF IsReverse
<1>2. PICK x, y : e.nodes = <<x, y>> /\ ~IsUIName(x) /\ IsUIName(y) /\ Has(Edges(t), x, y)
  BY DEF IsReverse
<1>3. Fix(s, d) = Flip(s, nodes[1], nodes[2])
  BY DEF Fix, IsReverse
<1>4. nodes[1] = a /\ nodes[2] = b /\ Range(nodes) = {a, b} /\ Range(e.nodes) = {x, y}
  BY <1>1, <1>2, PairRange
<1>5. t = Merge(s, Flip(s, a, b))
  BY <1>3, <1>4 DEF After
<1> HIDE DEF t, nodes
<1>6. a \in Names /\ b \in Names /\ a # b
  BY <1>1, HasEnds DEF Found
<1>7. ~Has(Edges(t), a, b)
  BY <1>1, <1>5, <1>6, FlipMends DEF Found
<1>8. {x, y} # {a, b}
  BY <1>1, <1>2, <1>7
<1> QED BY <1>4, <1>8 DEF nodes

\* Two services that waited for each other do so no longer.
LEMMA TightMended ==
    ASSUME NEW s, NEW d, Found(s, d), Fix(s, d) # s, IsTight(s, d), NEW e, IsTight(After(s, d), e)
    PROVE  Range(e.nodes) # Range(d.nodes)
<1> DEFINE t == After(s, d)
           nodes == d.nodes
<1>1. PICK a, b : nodes = <<a, b>>
  BY DEF IsTight
<1>2. PICK x, y : e.nodes = <<x, y>> /\ HasSync(Edges(t), x, y) /\ HasSync(Edges(t), y, x)
  BY DEF IsTight
<1>3. Fix(s, d) = Loosen(s, nodes)
  BY DEF Fix, IsTight
<1>4. nodes[1] = a /\ nodes[2] = b /\ Range(nodes) = {a, b} /\ Range(e.nodes) = {x, y}
  BY <1>1, <1>2, PairRange
<1>5. t = Merge(s, Loosen(s, nodes))
  BY <1>3 DEF After
<1> HIDE DEF t, nodes
<1>6. Loosen(s, nodes) # s /\ IsSpec(s) /\ Plain(Edges(s))
  BY <1>3 DEF Found
<1>7. ~(HasSync(Edges(t), a, b) /\ HasSync(Edges(t), b, a))
  BY <1>4, <1>5, <1>6, LoosenMends
<1>8. {x, y} # {a, b}
  BY <1>2, <1>7
<1> QED BY <1>4, <1>8 DEF nodes

\* A set all of whose members are the same has less than two.
LEMMA AtMostOne ==
    ASSUME NEW set, \A f, g \in set : f = g
    PROVE  Cardinality(set) = 0 \/ Cardinality(set) = 1
<1>1. CASE set = {}
  BY <1>1, FS_EmptySet
<1>2. CASE set # {}
  <2>1. PICK f : f \in set
    BY <1>2
  <2>2. set = {f}
    BY <2>1
  <2> QED BY <2>2, FS_Singleton
<1> QED BY <1>1, <1>2

\* A database is no longer shared.
LEMMA SharedMended ==
    ASSUME Defaults, NEW s, NEW d, Found(s, d), Fix(s, d) # s, IsShared(s, d),
           DatabaseAt(d.nodes) = 1, NEW e, IsShared(After(s, d), e)
    PROVE  e.nodes[1] # d.nodes[1]
<1> DEFINE nodes == d.nodes
           c == nodes[1]
<1>1. Fix(s, d) = SplitFrom(s, nodes)
  <2>1. nodes \in Seq(Names) /\ Len(nodes) >= 1
    BY DEF IsShared, IsCentre, Found, FixableSet
  <2>2. Fix(s, d) = SplitDatabase(s, nodes)
    BY DEF Fix, IsShared
  <2>3. DatabaseFirst(nodes) = nodes
    BY <2>1, DatabaseFirstOK
  <2> QED BY <2>2, <2>3 DEF SplitDatabase
<1>2. nodes \in Seq(Names) /\ Len(nodes) >= 2 /\ ClientsOf(s, c) = {nodes[i] : i \in 2 .. Len(nodes)}
  BY DEF IsShared, IsCentre, Found, FixableSet
<1>3. After(s, d) = Merge(s, SplitFrom(s, nodes))
  BY <1>1 DEF After
<1>4. \A f, g \in ClientsOf(After(s, d), c) : f = g
  <2> HIDE DEF nodes
  <2> QED BY <1>1, <1>2, <1>3, SplitFromMends DEF Found
<1>5. Cardinality(ClientsOf(After(s, d), c)) \in {0, 1}
  BY <1>4, AtMostOne
<1>6. ~(Cardinality(ClientsOf(After(s, d), c)) >= DbClients)
  BY <1>5, DetectorAssumption DEF Defaults
<1> QED BY <1>6 DEF IsShared

\* A page calls its BFF alone.
LEMMA OrchestratorMended ==
    ASSUME Defaults, NEW s, NEW d, Found(s, d), IsOrchestrator(s, d), NEW e, IsOrchestrator(After(s, d), e)
    PROVE  e.nodes[1] # d.nodes[1]
<1> DEFINE nodes == d.nodes
           page == nodes[1]
           bff == UniqueServiceName(s, Name("bff"))
<1>1. Fix(s, d) = InsertBFF(s, nodes)
  BY DEF Fix, IsOrchestrator
<1>2. /\ nodes \in Seq(Names) /\ Len(nodes) >= 2 /\ TargetsOf(s, page) = {nodes[i] : i \in 2 .. Len(nodes)}
      /\ IsUIName(page)
  BY DEF IsOrchestrator, IsCentre, Found, FixableSet
<1>3. After(s, d) = Merge(s, InsertBFF(s, nodes))
  BY <1>1 DEF After
<1>4. bff.word = "bff"
  <2>1. Name("bff") \in Names /\ Name("bff").word = "bff"
    <3>1. <<>> \in Seq({"split", "db", "number"} \X Nat)
      OBVIOUS
    <3> QED BY <3>1 DEF Name, Names
  <2> DEFINE n == Name("bff")
  <2> HIDE DEF n, bff
  <2>2. bff = n \/ \E k \in NameNumbers : bff = Suffixed(n, <<"number", k>>)
    BY <2>1, UniqueOK DEF n, bff
  <2>3. ASSUME NEW k \in NameNumbers PROVE Suffixed(n, <<"number", k>>).word = n.word
    <3> DEFINE use == <<"number", k>>
    <3>1. use \in Uses /\ n \in Names
      BY <2>1 DEF Uses, NameNumbers, n
    <3> HIDE DEF use
    <3>2. Suffixed(n, use) = [word |-> n.word, tail |-> Append(n.tail, use)]
      BY <3>1, SuffixedOK
    <3>3. Suffixed(n, use).word = n.word
      BY <3>2
    <3> QED BY <3>3 DEF use
  <2> QED BY <2>1, <2>2, <2>3 DEF n
<1>5. page # bff
  BY <1>2, <1>4 DEF IsUIName, Defaults
<1>6. TargetsOf(After(s, d), page) \subseteq {bff}
  <2> HIDE DEF nodes
  <2> QED BY <1>2, <1>3, <1>5, InsertBFFMends DEF Found
<1>7. \A f, g \in TargetsOf(After(s, d), page) : f = g
  BY <1>6
<1>8. Cardinality(TargetsOf(After(s, d), page)) \in {0, 1}
  BY <1>7, AtMostOne
<1>9. ~(Cardinality(TargetsOf(After(s, d), page)) >= UITargets)
  BY <1>8, DetectorAssumption DEF Defaults
<1> QED BY <1>9 DEF IsOrchestrator

\* None of the anti-patterns is found again after its fix.
LEMMA FixMendsOne ==
    ASSUME Defaults, NEW s, NEW d, Found(s, d), Len(s.deps) # 1, Fix(s, d) # s, Describes(s, d),
           d.kind = "shared_database" => DatabaseAt(d.nodes) = 1,
           NEW e, Describes(After(s, d), e)
    PROVE  ~SameProblem(e, d)
<1> SUFFICES ASSUME SameProblem(e, d) PROVE FALSE
  OBVIOUS
<1>1. /\ e.kind = d.kind
      /\ d.kind \in {"shared_database", "ui_orchestrator"} => e.nodes[1] = d.nodes[1]
      /\ d.kind \notin {"shared_database", "ui_orchestrator"} => Range(e.nodes) = Range(d.nodes)
  BY DEF SameProblem
<1>2. CASE IsPingPong(s, d)
  <2>1. d.kind = "ping_pong_dependency"
    BY <1>2 DEF IsPingPong
  <2>2. IsPingPong(After(s, d), e)
    BY <1>1, <2>1 DEF Describes, IsPingPong, IsReverse, IsTight, IsShared, IsOrchestrator
  <2> QED BY <1>1, <1>2, <2>1, <2>2, PingPongMended
<1>3. CASE IsReverse(s, d)
  <2>1. d.kind = "reverse_dependency"
    BY <1>3 DEF IsReverse
  <2>2. IsReverse(After(s, d), e)
    BY <1>1, <2>1 DEF Describes, IsPingPong, IsReverse, IsTight, IsShared, IsOrchestrator
  <2> QED BY <1>1, <1>3, <2>1, <2>2, ReverseMended
<1>4. CASE IsTight(s, d)
  <2>1. d.kind = "tight_coupling"
    BY <1>4 DEF IsTight
  <2>2. IsTight(After(s, d), e)
    BY <1>1, <2>1 DEF Describes, IsPingPong, IsReverse, IsTight, IsShared, IsOrchestrator
  <2> QED BY <1>1, <1>4, <2>1, <2>2, TightMended
<1>5. CASE IsShared(s, d)
  <2>1. d.kind = "shared_database"
    BY <1>5 DEF IsShared
  <2>2. IsShared(After(s, d), e)
    BY <1>1, <2>1 DEF Describes, IsPingPong, IsReverse, IsTight, IsShared, IsOrchestrator
  <2> QED BY <1>1, <1>5, <2>1, <2>2, SharedMended
<1>6. CASE IsOrchestrator(s, d)
  <2>1. d.kind = "ui_orchestrator"
    BY <1>6 DEF IsOrchestrator
  <2>2. IsOrchestrator(After(s, d), e)
    BY <1>1, <2>1 DEF Describes, IsPingPong, IsReverse, IsTight, IsShared, IsOrchestrator
  <2> QED BY <1>1, <1>6, <2>1, <2>2, OrchestratorMended
<1> QED BY <1>2, <1>3, <1>4, <1>5, <1>6 DEF Describes

\* What one fix has made of a YAML, if no other has changed it.
Single(s, X, acc) ==
    /\ Len(acc.applied) = 0 => acc.spec = s
    /\ Len(acc.applied) = 1 => /\ acc.applied[1] \in X /\ Fix(s, acc.applied[1]) # s
                               /\ acc.spec = Fix(s, acc.applied[1])

\* One more fix is the first one, or not.
LEMMA SingleStep ==
    ASSUME NEW s, NEW acc \in Progress, NEW d \in FixableSet, NEW X, d \in X, Single(s, X, acc)
    PROVE  Single(s, X, OneFix(acc, d))
<1> DEFINE fixed == Fix(acc.spec, d)
           applied == Append(acc.applied, d)
<1>1. acc.applied \in Seq(FixableSet)
  BY DEF Progress
<1>2. CASE fixed = acc.spec
  BY <1>2 DEF OneFix
<1>3. CASE fixed # acc.spec
  <2>1. OneFix(acc, d) = [spec |-> fixed, applied |-> applied]
    BY <1>3 DEF OneFix
  <2>2. Len(acc.applied) \in Nat /\ Len(applied) = Len(acc.applied) + 1 /\ applied[Len(acc.applied) + 1] = d
    BY <1>1, AppendProperties
  <2> HIDE DEF applied
  <2>3. Len(applied) = 1 => acc.spec = s /\ applied[1] = d
    <3> SUFFICES ASSUME Len(applied) = 1 PROVE acc.spec = s /\ applied[1] = d
      OBVIOUS
    <3>1. Len(acc.applied) = 0
      BY <2>2
    <3>2. applied[0 + 1] = d
      BY <2>2, <3>1
    <3> QED BY <3>1, <3>2 DEF Single
  <2>4. Len(applied) # 0
    BY <2>2
  <2> QED BY <1>3, <2>1, <2>3, <2>4 DEF Single
<1> QED BY <1>2, <1>3

\* If one fix has been applied, it is that of a detection chosen.
LEMMA FixedSingle ==
    ASSUME IsSpec(spec), NEW chosen \in Seq(FixableSet)
    PROVE  Single(spec, Range(chosen), Fixed(chosen))
<1> DEFINE n == Len(chosen)
           X == Range(chosen)
<1>1. n \in Nat /\ 0 <= n /\ \A i \in 1 .. n : chosen[i] \in FixableSet /\ chosen[i] \in X
  BY DEF Range
<1>2. PICK after :
        /\ after[0] = [spec |-> spec, applied |-> <<>>]
        /\ \A i \in 1 .. n : after[i] = OneFix(after[i - 1], chosen[i])
        /\ \A i \in 0 .. n : after[i] \in Progress
        /\ Fixed(chosen) = after[n]
  BY FixedRecursion
<1> HIDE DEF n, X
<1> DEFINE S0 == {i \in 0 .. n : Single(spec, X, after[i])}
           g == [i \in 0 .. n |-> i]
<1>3. g[0] \in S0
  <2>1. after[0].spec = spec /\ Len(after[0].applied) = 0
    BY <1>2
  <2>2. Single(spec, X, after[0])
    BY <2>1 DEF Single
  <2> QED BY <1>1, <2>2
<1>4. ASSUME NEW i \in 0 + 1 .. n, g[i - 1] \in S0 PROVE g[i] \in S0
  <2>1. i \in 1 .. n /\ i \in 0 .. n /\ i - 1 \in 0 .. n /\ g[i - 1] = i - 1 /\ g[i] = i
    BY <1>1
  <2>2. Single(spec, X, after[i - 1]) /\ after[i - 1] \in Progress
    BY <1>2, <1>4, <2>1
  <2>3. Single(spec, X, after[i])
    BY <1>1, <1>2, <2>1, <2>2, SingleStep
  <2> QED BY <2>1, <2>3
<1>5. g[n] \in S0
  <2> HIDE DEF g, S0
  <2>1. \A i \in 0 + 1 .. n : g[i - 1] \in S0 => g[i] \in S0
    BY <1>4
  <2>2. 0 \in Nat
    OBVIOUS
  <2>3. \A i \in 0 .. n : g[i] \in S0
    BY <1>1, <1>3, <2>1, <2>2, Stays
  <2> QED BY <1>1, <2>3
<1> QED BY <1>1, <1>2, <1>5 DEF X

\* What an apply request removes, if it applies one fix.
LEMMA AppliedMends ==
    ASSUME Defaults, FixInv, NEW how, NEW asked, NEW dets \in Analyses(spec), NEW keys,
           dets \in Seq(SoundSet(spec, Kinds)), SoundSet(spec, Kinds) \subseteq FixableSet,
           Apply(how, asked, Chosen(Ranked(dets), keys))
    PROVE  FixMends'
<1> DEFINE chosen == Chosen(Ranked(dets), keys)
           fixed == Fixed(chosen)
           X == SoundSet(spec, Kinds)
<1>1. IsSpec(spec)
  BY DEF FixInv, FixTypeOK
<1>2. /\ spec' = (IF fixed.applied = <<>> THEN spec ELSE Merge(spec, fixed.spec))
      /\ result'.before = spec /\ result'.applied = fixed.applied
  BY DEF Apply
<1>3. chosen \in Seq(FixableSet) /\ Range(chosen) \subseteq Range(dets)
  <2> HIDE DEF X
  <2>1. chosen \in Seq(X) /\ Range(chosen) = {d \in Range(dets) : DetectionKey(d) \in keys}
    <3>1. dets \in Seq(X) /\ X \subseteq FixableSet
      BY DEF X
    <3> QED BY <3>1, ChosenOK
  <2> HIDE DEF chosen
  <2>2. X \subseteq FixableSet
    BY DEF X
  <2>3. chosen \in Seq(FixableSet)
    BY <2>1, <2>2, SeqMonotonic
  <2> QED BY <2>1, <2>3
<1> HIDE DEF chosen
<1>4. Single(spec, Range(chosen), fixed) /\ fixed \in Progress
  BY <1>1, <1>3, FixedSingle, FixedOK
<1> HIDE DEF fixed
<1>5. SUFFICES ASSUME Len(fixed.applied) = 1, Len(spec.deps) # 1, Plain(Edges(spec)),
                      \A d \in Range(fixed.applied) : d.kind \in Mendable,
                      \A d \in Range(fixed.applied) : d.kind = "shared_database" => DatabaseAt(d.nodes) = 1,
                      NEW results \in {PingPongs(spec'), ReverseDependencies(spec'), SharedDatabases(spec'),
                                       TightCouplings(spec'), UIOrchestrators(spec')},
                      NEW found \in results, NEW e \in Range(found)
               PROVE  ~SameProblem(e, fixed.applied[1])
  BY <1>2 DEF FixMends, FixAlwaysMends, AppliedKinds, Mendable, Plain
<1> DEFINE d == fixed.applied[1]
<1>6. /\ d \in Range(chosen) /\ Fix(spec, d) # spec /\ fixed.spec = Fix(spec, d)
      /\ d \in Range(fixed.applied) /\ d \in FixableSet
  <2>1. fixed.applied \in Seq(FixableSet)
    BY <1>4 DEF Progress
  <2>2. 1 \in DOMAIN fixed.applied
    BY <1>5, <2>1
  <2> QED BY <1>4, <1>5, <2>1, <2>2 DEF Single, Range
<1>7. spec' = After(spec, d)
  <2>1. Len(<<>>) = 0
    OBVIOUS
  <2> QED BY <1>2, <1>5, <1>6, <2>1 DEF After
<1>8. Describes(spec, d)
  BY <1>1, <1>3, <1>5, <1>6, AnalysisDescribes
<1>9. IsSpec(After(spec, d))
  <2>1. Keeps(spec, Fix(spec, d), {})
    BY <1>1, <1>6, FixOK DEF Spares
  <2>2. Keeps(spec, Merge(spec, Fix(spec, d)), {})
    BY <1>1, <2>1, MergeOK
  <2> QED BY <2>2 DEF Keeps, After
<1> HIDE DEF d
<1>10. Describes(After(spec, d), e)
  <2> DEFINE t == After(spec, d)
  <2>1. results \in {PingPongs(t), ReverseDependencies(t), SharedDatabases(t), TightCouplings(t), UIOrchestrators(t)}
    BY <1>7
  <2>2. IsSpec(t)
    BY <1>9
  <2> HIDE DEF t
  <2>3. Describes(t, e)
    BY <1>5, <2>1, <2>2, DetectorsDescribe
  <2> QED BY <2>3 DEF t
<1>11. ~SameProblem(e, d)
  BY <1>1, <1>5, <1>6, <1>8, <1>10, FixMendsOne DEF Found
<1> QED BY <1>11 DEF d

\* A fix applied alone removes the anti-pattern it is for, in a YAML that names no dependency
\* twice and has more than one, where it takes two to share a database and to make a page an
\* orchestrator, and where the fix of a shared database takes for the database the one that is
\* shared: no detector finds it again, in whatever order it meets the graph.
THEOREM FixesMend ==
    ASSUME Defaults
    PROVE  FixSpec => []FixMends
<1>1. ASSUME result = NoResult PROVE FixMends
  <2>1. Len(<<>>) # 1
    OBVIOUS
  <2> QED BY <1>1, <2>1 DEF FixMends, FixAlwaysMends, NoResult
<1>2. FixInit => FixMends
  BY <1>1 DEF FixInit
<1>3. FixMends /\ FixInv /\ [FixNext]_fixVars => FixMends'
  <2> SUFFICES ASSUME FixMends, FixInv, [FixNext]_fixVars PROVE FixMends'
    OBVIOUS
  <2>1. ASSUME result' = NoResult PROVE FixMends'
    <3>1. Len(<<>>) # 1
      OBVIOUS
    <3> QED BY <2>1, <3>1 DEF FixMends, FixAlwaysMends, NoResult
  <2>2. ASSUME NEW l \in Links, WriteDependency(Name(l[1]), Name(l[2]), l[3]) PROVE FixMends'
    <3>1. result' = NoResult
      BY <2>2 DEF WriteDependency, FixInv
    <3> QED BY <2>1, <3>1
  <2>3. ASSUME NEW l \in Links, l[3] /\ WriteCall(Name(l[1]), Name(l[2])) PROVE FixMends'
    <3>1. result' = NoResult
      BY <2>3 DEF WriteCall, FixInv
    <3> QED BY <2>1, <3>1
  <2>4. CASE Preview
    <3>1. result' = NoResult
      BY <2>4 DEF Preview
    <3> QED BY <2>1, <3>1
  <2>5. CASE ApplyKeys
    <3>1. phase = "select"
      BY <2>5 DEF ApplyKeys
    <3>2. PICK keys : \E chosen \in {Chosen(ranked, keys) : ranked \in {Ranked(dets) : dets \in Analyses(spec)}} :
                        Apply("key", keys, chosen)
      BY <2>5 DEF ApplyKeys
    <3>3. PICK dets \in Analyses(spec) : Apply("key", keys, Chosen(Ranked(dets), keys))
      BY <3>2
    <3> QED BY <3>1, <3>3, SelectOK, AppliedMends
  <2>6. CASE ApplyIndex
    <3>1. phase = "select"
      BY <2>6 DEF ApplyIndex
    <3> DEFINE KeysAt(n, ranked) == LET keys == OrderedDetectionKeys(ranked) IN {keys[i] : i \in {n} \cap DOMAIN keys}
    <3>2. PICK n \in DOMAIN OrderedDetectionKeys(shown) :
            \E chosen \in {Chosen(ranked, KeysAt(n, ranked)) : ranked \in {Ranked(dets) : dets \in Analyses(spec)}} :
              Apply("index", {OrderedDetectionKeys(shown)[n]}, chosen)
      BY <2>6 DEF ApplyIndex
    <3> HIDE DEF KeysAt
    <3>3. PICK dets \in Analyses(spec) :
            Apply("index", {OrderedDetectionKeys(shown)[n]}, Chosen(Ranked(dets), KeysAt(n, Ranked(dets))))
      BY <3>2
    <3> QED BY <3>1, <3>3, SelectOK, AppliedMends
  <2>7. CASE UNCHANGED fixVars
    BY <2>7 DEF fixVars, FixMends, FixAlwaysMends, AppliedKinds
  <2> QED BY <2>2, <2>3, <2>4, <2>5, <2>6, <2>7 DEF FixNext
<1> QED BY <1>2, <1>3, FixInvariant, PTL DEF FixSpec
=============================================================================

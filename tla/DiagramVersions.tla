-------------------------- MODULE DiagramVersions --------------------------
(***************************************************************************)
(* The diagram versions of one project and the project's current version.  *)
(* Two parts of the server write them.  DiagramRepository (canvas and chat) *)
(* works in transactions that lock the project row; the AMG/APD Repo        *)
(* (analyses) sends one statement after another outside any transaction.   *)
(* Both number a version one past the highest number, and only             *)
(* UNIQUE (project_public_id, version_number) keeps them apart.            *)
(*                                                                         *)
(* A YAML is a model value, NoYaml when none can be generated from the     *)
(* diagram; of a canvas only the YAMLs whose services it shows are kept.   *)
(***************************************************************************)
EXTENDS Integers, FiniteSets

CONSTANTS
    Procs,       \* concurrent requests
    Ids,         \* ids to give to versions, each once; bounds the versions made
    Yamls,       \* YAML contents
    NoId, NoYaml,
    Faults,      \* whether calls fail and the server restarts
    MaxDeletes   \* bound: versions deleted

ASSUME DiagramVersionsAssumption ==
    /\ IsFiniteSet(Ids)
    /\ NoId \notin Ids
    /\ NoYaml \notin Yamls
    /\ Faults \in BOOLEAN
    /\ MaxDeletes \in Nat

VARIABLES
    versions,  \* diagram_versions; number 0: no such row
    issued,    \* the ids given away
    current,   \* projects.current_diagram_version_id
    deletes,   \* versions deleted, against MaxDeletes
    job

vars == <<versions, issued, current, deletes, job>>

Sources == {"canvas", "amg_apd"}

Version == [number : 0 .. Cardinality(Ids), source : Sources,
            yaml : Yamls \cup {NoYaml}, canvas : SUBSET Yamls]

NoVersion == [number |-> 0, source |-> "canvas", yaml |-> NoYaml, canvas |-> {}]

Present == {i \in Ids : versions[i].number # 0}

\* The services of a canvas drawn for y.
Shown(y) == {y} \ {NoYaml}

\* id: the version worked on; yaml: what is analysed; merge: whether the stored
\* canvas is merged into the analysed one; base: that canvas, once read; keep:
\* whether the row's YAML stays; then_save: whether a missing row is saved anew.
Job == [pc : {"idle", "create", "save", "previous", "insert", "point",
              "latest_any", "merge", "write", "reread"},
        number : 0 .. Cardinality(Ids) + 1, id : Ids \cup {NoId},
        yaml : Yamls \cup {NoYaml}, merge : BOOLEAN, base : SUBSET Yamls,
        keep : BOOLEAN, then_save : BOOLEAN]

Idle == [pc |-> "idle", number |-> 0, id |-> NoId, yaml |-> NoYaml,
         merge |-> FALSE, base |-> {}, keep |-> FALSE, then_save |-> FALSE]

TypeOK ==
    /\ versions \in [Ids -> Version]
    /\ issued \subseteq Ids
    /\ current \in Present \cup {NoId}
    /\ deletes \in 0 .. MaxDeletes
    /\ job \in [Procs -> Job]

Init ==
    /\ versions = [i \in Ids |-> NoVersion]
    /\ issued = {}
    /\ current = NoId
    /\ deletes = 0
    /\ job = [p \in Procs |-> Idle]

At(p, label) == job[p].pc = label

Goto(p, label) == job' = [job EXCEPT ![p].pc = label]

Finish(p) == job' = [job EXCEPT ![p] = Idle]

\* Whether the project row is free of CreateVersion's FOR UPDATE.
Unlocked == \A p \in Procs : ~At(p, "create")

Highest(S) == CHOOSE i \in S : \A j \in S : versions[j].number <= versions[i].number

\* Mutant of NextNumber: the + 1 is forgotten.
NextNumberIsLast == IF Present = {} THEN 0 ELSE versions[Highest(Present)].number

\* SELECT COALESCE(MAX(version_number), 0) + 1.
NextNumber == IF Present = {} THEN 1 ELSE versions[Highest(Present)].number + 1

\* Mutant of Free: without UNIQUE (project_public_id, version_number).
FreeAlways(n) == TRUE

Free(n) == \A i \in Present : versions[i].number # n

Stored(i, v) == versions' = [versions EXCEPT ![i] = v]

-----------------------------------------------------------------------------
(***************************************************************************)
(* DiagramRepository.                                                      *)
(***************************************************************************)

\* CreateVersion: the project row is locked and the number read.
CreateBegin(p) ==
    /\ At(p, "idle")
    /\ Unlocked
    /\ issued # Ids
    /\ job' = [job EXCEPT ![p].pc = "create", ![p].number = NextNumber]
    /\ UNCHANGED <<versions, issued, current, deletes>>

\* The row is inserted, made the current one, and committed.  A number an
\* analysis took in the meantime rolls everything back.
CreateCommit(p) ==
    /\ At(p, "create")
    /\ \/ \E i \in Ids \ issued, y \in Yamls \cup {NoYaml}, s \in Sources :
            /\ Free(job[p].number)
            /\ Stored(i, [number |-> job[p].number, source |-> s,
                          yaml |-> y, canvas |-> Shown(y)])
            /\ issued' = issued \cup {i}
            /\ current' = i
       \/ /\ ~Free(job[p].number) \/ issued = Ids
          /\ UNCHANGED <<versions, issued, current>>
    /\ Finish(p)
    /\ UNCHANGED deletes

\* UpdateVersionInPlace: SELECT ... FOR UPDATE, UPDATE and commit.
UpdateVersionInPlace(p) ==
    /\ At(p, "idle")
    /\ Unlocked
    /\ \E i \in Present, y \in Yamls \cup {NoYaml}, s \in Sources :
         Stored(i, [versions[i] EXCEPT !.yaml = y, !.canvas = Shown(y),
                                       !.source = s])
    /\ UNCHANGED <<issued, current, deletes, job>>

-----------------------------------------------------------------------------
(***************************************************************************)
(* Repo.Save, for AnalyzeRaw and AnalyzeUpload.                            *)
(***************************************************************************)

\* The number.
SaveBegin(p, y, merge) ==
    /\ At(p, "idle") \/ (At(p, "save") /\ y = job[p].yaml /\ merge)
    /\ issued # Ids
    /\ job' = [job EXCEPT ![p] = [Idle EXCEPT !.pc = "previous", !.yaml = y,
                                     !.merge = merge, !.number = NextNumber]]
    /\ UNCHANGED <<versions, issued, current, deletes>>

\* The canvas of the latest row, which is not the row the number came from if
\* another one was saved since.
SavePrevious(p) ==
    /\ At(p, "previous")
    /\ job' = [job EXCEPT ![p].pc = "insert",
                 ![p].base = IF job[p].merge /\ Present # {}
                             THEN versions[Highest(Present)].canvas ELSE {}]
    /\ UNCHANGED <<versions, issued, current, deletes>>

SaveInsert(p) ==
    /\ At(p, "insert")
    /\ \/ \E i \in Ids \ issued :
            /\ Free(job[p].number)
            /\ Stored(i, [number |-> job[p].number, source |-> "amg_apd",
                          yaml |-> job[p].yaml,
                          canvas |-> job[p].base \cup {job[p].yaml}])
            /\ issued' = issued \cup {i}
            /\ job' = [job EXCEPT ![p] = [Idle EXCEPT !.pc = "point", !.id = i]]
       \/ /\ ~Free(job[p].number) \/ issued = Ids
          /\ Finish(p)
          /\ UNCHANGED <<versions, issued>>
    /\ UNCHANGED <<current, deletes>>

\* UPDATE projects SET current_diagram_version_id; its error, a row deleted in
\* the meantime among them, is ignored.
SavePoint(p) ==
    /\ At(p, "point")
    /\ Unlocked
    /\ \/ job[p].id \in Present /\ current' = job[p].id
       \/ (job[p].id \notin Present \/ Faults) /\ UNCHANGED current
    /\ Finish(p)
    /\ UNCHANGED <<versions, issued, deletes>>

-----------------------------------------------------------------------------
(***************************************************************************)
(* Analyses of a version in place: UpdateVersionAnalysis and               *)
(* GetLatestForProject.                                                    *)
(***************************************************************************)

Analyse(p, i, y, merge, keep, then_save) ==
    job' = [job EXCEPT ![p] = [Idle EXCEPT !.pc = "merge", !.id = i, !.yaml = y,
                                 !.merge = merge, !.keep = keep,
                                 !.then_save = then_save]]

\* The rows the Repo can read back: a NULL yaml_content is a scan error.
Readable == {i \in Present : versions[i].yaml # NoYaml}

\* UpdateVersionAnalysis: the row's YAML or the client's is analysed; the canvas
\* is merged only when they are the same.
UpdateVersionAnalysis(p) ==
    /\ At(p, "idle")
    /\ \E i \in Readable, y \in Yamls :
         Analyse(p, i, y, y = versions[i].yaml, FALSE, FALSE)
    /\ UNCHANGED <<versions, issued, current, deletes>>

\* GetLatestForProject: the latest analysis, analysed again (UpdateAnalysisByID)
\* when a part of it is missing; without one, the latest version with a YAML.
GetLatestForProject(p) ==
    /\ At(p, "idle")
    /\ LET amg == {i \in Present : versions[i].source = "amg_apd"}
       IN  \/ amg = {} /\ Goto(p, "latest_any")
           \/ /\ amg # {}
              /\ Highest(amg) \in Readable
              /\ Analyse(p, Highest(amg), versions[Highest(amg)].yaml,
                         TRUE, TRUE, FALSE)
    /\ UNCHANGED <<versions, issued, current, deletes>>

LatestAny(p) ==
    /\ At(p, "latest_any")
    /\ \/ Readable = {} /\ Finish(p)
       \/ /\ Readable # {}
          /\ Analyse(p, Highest(Readable), versions[Highest(Readable)].yaml,
                     TRUE, FALSE, TRUE)
    /\ UNCHANGED <<versions, issued, current, deletes>>

\* SELECT diagram_json, if the canvas is to be merged; when the SELECT fails, it
\* is not.
ReadCanvas(p) ==
    /\ At(p, "merge")
    /\ \/ /\ job[p].merge
          /\ job' = [job EXCEPT ![p].pc = "write",
                                ![p].base = versions[job[p].id].canvas]
       \/ (~job[p].merge \/ Faults) /\ Goto(p, "write")
    /\ UNCHANGED <<versions, issued, current, deletes>>

\* The UPDATE: a row that is gone is an error, and so is, for UpdateAnalysisByID,
\* one that is no analysis.  Version 1 keeps its source.
WriteAnalysis(p) ==
    /\ At(p, "write")
    /\ LET j == job[p]
           v == versions[j.id]
           found == j.id \in Present /\ (j.keep => v.source = "amg_apd")
       IN  \/ /\ found
              /\ Stored(j.id, [v EXCEPT
                   !.canvas = j.base \cup {j.yaml},
                   !.yaml   = IF j.keep THEN @ ELSE j.yaml,
                   !.source = IF j.keep \/ v.number = 1 THEN @ ELSE "amg_apd"])
              /\ IF j.then_save THEN Goto(p, "reread") ELSE Finish(p)
           \/ ~found /\ Finish(p) /\ UNCHANGED versions
    /\ UNCHANGED <<issued, current, deletes>>

\* GetLatestForProject reads the row back, and saves a new one when that fails.
Reread(p) ==
    /\ At(p, "reread")
    /\ \/ job[p].id \in Readable /\ Finish(p)
       \/ (job[p].id \notin Readable \/ Faults) /\ Goto(p, "save")
    /\ UNCHANGED <<versions, issued, current, deletes>>

\* DeleteByIDForUserChat, where ON DELETE SET NULL clears the current version.
DeleteVersion ==
    /\ deletes < MaxDeletes
    /\ \E i \in Present :
         /\ versions[i].source = "amg_apd"
         /\ current = i => Unlocked
         /\ Stored(i, NoVersion)
         /\ current' = IF current = i THEN NoId ELSE current
    /\ deletes' = deletes + 1
    /\ UNCHANGED <<issued, job>>

\* A failed call or a restart: a transaction is rolled back, an analysis stops
\* where it is.
Fail(p) ==
    /\ Faults
    /\ ~At(p, "idle")
    /\ Finish(p)
    /\ UNCHANGED <<versions, issued, current, deletes>>

Step(p) ==
    \/ CreateBegin(p) \/ CreateCommit(p) \/ UpdateVersionInPlace(p)
    \/ \E y \in Yamls, m \in BOOLEAN : SaveBegin(p, y, m)
    \/ SavePrevious(p) \/ SaveInsert(p) \/ SavePoint(p)
    \/ UpdateVersionAnalysis(p) \/ GetLatestForProject(p) \/ LatestAny(p)
    \/ ReadCanvas(p) \/ WriteAnalysis(p) \/ Reread(p) \/ Fail(p)

Next == DeleteVersion \/ \E p \in Procs : Step(p)

Spec == Init /\ [][Next]_vars

-----------------------------------------------------------------------------
(***************************************************************************)
(* Properties.                                                             *)
(***************************************************************************)

\* Analyses number their version without a lock, and CreateVersion's lock does not
\* stop them: no two versions have the same number all the same, and while
\* nothing is deleted the numbers are 1, 2, 3, ... without gap.
NumbersContiguous ==
    /\ \A i, j \in Present : versions[i].number = versions[j].number => i = j
    /\ deletes = 0 =>
         {versions[i].number : i \in Present} = 1 .. Cardinality(Present)

\* diagram_repo.go and repo.go take "order by version_number desc limit 1" for the latest
\* version: the one stored last is, while nothing is deleted, although its number was
\* read long before.  (An analysis may give the number of a deleted version again, to a
\* row that is then not the latest.)
NewestIsHighest ==
    [][deletes' = 0 =>
         \A i \in Present' \ Present, j \in Present :
            versions[j].number < versions'[i].number]_vars

\* handlers_upload.go, where the canvas is merged only for the same YAML:
\* merging another one "would splice the new model onto the old canvas and
\* corrupt the historic version".  A row that changes shows its YAML alone, or
\* what it showed before for the same YAML.
NotSpliced ==
    [][\A i \in Present :
         /\ i \in Present'
         /\ versions'[i].canvas # versions[i].canvas
         => versions'[i].canvas \subseteq
              {versions'[i].yaml} \cup
              (IF versions'[i].yaml = versions[i].yaml THEN versions[i].canvas
               ELSE {})]_vars

\* handlers_project_latest.go: "Update existing diagram row in place so we don't
\* create a new version": a GET of the latest analysis creates one only when the
\* row it updated has been deleted.
ReadingAddsNothing == \A p \in Procs : At(p, "save") => job[p].id \notin Present

\* Repo.Save: "Keep project's current_diagram_version_id in sync so chat
\* (FOLLOW_LATEST) uses this version": when no request is under way the current
\* version is the latest.
FollowLatest ==
    (\A p \in Procs : At(p, "idle")) /\ Present # {}
        => current = Highest(Present)
=============================================================================

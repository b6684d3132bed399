-------------------------------- MODULE Chat --------------------------------
(***************************************************************************)
(* The chat threads of one project and the project's deletion.  A thread   *)
(* follows the project's current diagram version or is pinned to one; a    *)
(* message is answered by the LLM service with that version, or with one   *)
(* the client names, and question and answer are stored in one             *)
(* transaction.  Everything before and after that transaction is one       *)
(* statement after another, next to the diagram versions being created,    *)
(* deleted and made current.                                               *)
(*                                                                         *)
(* A diagram version is known by the order in which it was created, which  *)
(* its number follows (DiagramVersions!NewestIsHighest; a number given     *)
(* again after a deletion is left out here), a turn (question and answer)  *)
(* by its place in `turns', the order of the transactions that stored them.*)
(***************************************************************************)
EXTENDS Naturals, SequencesExt, FiniteSetsExt

CONSTANTS
    Procs,         \* concurrent requests
    Threads,       \* thread ids
    HistoryLimit,  \* messages sent along with a question; 20 in the code
    Faults,        \* whether calls fail and the server restarts
    MaxVersions,   \* bound: diagram versions created
    MaxTurns       \* bound: turns stored

ASSUME ChatAssumption ==
    /\ Threads # {}
    /\ HistoryLimit \in Nat \ {0}
    /\ Faults \in BOOLEAN
    /\ MaxVersions \in Nat
    /\ MaxTurns \in Nat

VARIABLES
    gone,      \* projects.deleted_at is set
    purged,    \* the DELETE of the project answered 200
    made,      \* diagram versions created so far
    versions,  \* those still there
    analyses,  \* those with source = 'amg_apd'
    saving,    \* analyses their Save has stored and not yet made current
    current,   \* projects.current_diagram_version_id
    threads,   \* chat_threads
    turns,     \* chat_messages, two at a time
    job

store == <<made, versions, analyses, saving, current>>
vars == <<gone, purged, store, threads, turns, job>>

\* No version: NULL.
NoId == 0

Ids == 1 .. MaxVersions

Thread == [there : BOOLEAN, mode : {"FOLLOW_LATEST", "PINNED"},
           pin : Ids \cup {NoId}]

NoThread == [there |-> FALSE, mode |-> "FOLLOW_LATEST", pin |-> NoId]

Turn == [thread : Threads, used : Ids \cup {NoId}]

\* A message of the history: the turn, and 1 for its question, 2 for its answer.
Message == (1 .. MaxTurns) \X {1, 2}

Kinds == {"post", "bind", "create", "delete"}

\* asked: diagram_version_id of the request; mode: binding_mode of the request;
\* used: the version it goes by; history: what the LLM service is sent.
Job == [pc : {"idle", "thread", "version", "history", "llm", "check", "turn",
              "rebind", "pick", "write", "insert", "purge"},
        kind : Kinds, thread : Threads, asked : Ids \cup {NoId},
        mode : {"FOLLOW_LATEST", "PINNED"}, used : Ids \cup {NoId},
        history : Seq(Message)]

Idle == [pc |-> "idle", kind |-> "post", thread |-> CHOOSE t \in Threads : TRUE,
         asked |-> NoId, mode |-> "FOLLOW_LATEST", used |-> NoId,
         history |-> <<>>]

TypeOK ==
    /\ gone \in BOOLEAN
    /\ purged \in BOOLEAN
    /\ made \in 0 .. MaxVersions
    /\ versions \subseteq 1 .. made
    /\ analyses \subseteq versions
    /\ saving \subseteq 1 .. made
    /\ current \in Ids \cup {NoId}
    /\ threads \in [Threads -> Thread]
    /\ turns \in Seq(Turn) /\ Len(turns) <= MaxTurns
    /\ job \in [Procs -> Job]
    /\ \A p \in Procs : Len(job[p].history) <= HistoryLimit

Init ==
    /\ gone = FALSE
    /\ purged = FALSE
    /\ made = 0
    /\ versions = {}
    /\ analyses = {}
    /\ saving = {}
    /\ current = NoId
    /\ threads = [t \in Threads |-> NoThread]
    /\ turns = <<>>
    /\ job = [p \in Procs |-> Idle]

At(p, label) == job[p].pc = label

Goto(p, label) == job' = [job EXCEPT ![p].pc = label]

Finish(p) == job' = [job EXCEPT ![p] = Idle]

\* The foreign keys of chat_messages and chat_threads say nothing on deletion: a
\* version they name cannot be deleted.
Referenced(v) ==
    \/ \E i \in DOMAIN turns : turns[i].used = v
    \/ \E t \in Threads : threads[t].pin = v

\* They also refuse a row that names a version which is not there.
Accepted(v) == v \in versions \cup {NoId}

-----------------------------------------------------------------------------
(***************************************************************************)
(* CreateThread: getProject, and the row.  The mode is stored as it comes, *)
(* without a pinned version.                                               *)
(***************************************************************************)

CreateThread(p, t, mode) ==
    /\ job[p] = Idle
    /\ ~gone
    /\ ~threads[t].there
    /\ job' = [job EXCEPT ![p] = [Idle EXCEPT !.pc = "insert", !.kind = "create",
                                              !.thread = t, !.mode = mode]]
    /\ UNCHANGED <<gone, purged, store, threads, turns>>

InsertThread(p) ==
    /\ At(p, "insert")
    /\ ~threads[job[p].thread].there
    /\ threads' = [threads EXCEPT ![job[p].thread] =
                     [there |-> TRUE, mode |-> job[p].mode, pin |-> NoId]]
    /\ Finish(p)
    /\ UNCHANGED <<gone, purged, store, turns>>

-----------------------------------------------------------------------------
(***************************************************************************)
(* UpdateThreadBinding: getProject and getThread, the version to pin, the  *)
(* update.  Threads are never deleted while their project is there, so     *)
(* getThread never fails later on.                                         *)
(***************************************************************************)

\* PATCH of a thread.
Bind(p, t, mode, v) ==
    /\ job[p] = Idle
    /\ ~gone
    /\ threads[t].there
    /\ mode = "FOLLOW_LATEST" => v = NoId
    /\ job' = [job EXCEPT ![p] =
                 [Idle EXCEPT !.kind = "bind", !.thread = t, !.asked = v,
                    !.mode = mode, !.pc = IF mode = "PINNED" THEN "pick"
                                          ELSE "write"]]
    /\ UNCHANGED <<gone, purged, store, threads, turns>>

\* PostMessage's call: it fails when the project is gone, and nobody is told.
Rebind(p) ==
    /\ At(p, "rebind")
    /\ IF gone THEN Finish(p)
       ELSE job' = [job EXCEPT ![p].pc = "pick", ![p].mode = "PINNED",
                               ![p].used = NoId]
    /\ UNCHANGED <<gone, purged, store, threads, turns>>

\* The version named, if it is there, or else the latest one.
Pick(p) ==
    /\ At(p, "pick")
    /\ LET candidates == IF job[p].asked = NoId THEN versions
                         ELSE versions \cap {job[p].asked}
       IN  IF candidates = {} THEN Finish(p)
           ELSE job' = [job EXCEPT ![p].pc = "write",
                                   ![p].used = Max(candidates)]
    /\ UNCHANGED <<gone, purged, store, threads, turns>>

WriteBinding(p) ==
    /\ At(p, "write")
    /\ \/ /\ Accepted(job[p].used)
          /\ threads' = [threads EXCEPT ![job[p].thread] =
                           [there |-> TRUE, mode |-> job[p].mode,
                            pin |-> job[p].used]]
       \/ ~Accepted(job[p].used) /\ UNCHANGED threads
    /\ Finish(p)
    /\ UNCHANGED <<gone, purged, store, turns>>

-----------------------------------------------------------------------------
(***************************************************************************)
(* PostMessage.                                                            *)
(***************************************************************************)

\* getProject, with the current version; a version the client names (v) is used
\* instead of the thread's.
PostMessage(p, t, v) ==
    /\ job[p] = Idle
    /\ ~gone
    /\ threads[t].there
    /\ Len(turns) < MaxTurns
    /\ job' = [job EXCEPT ![p] =
                 [Idle EXCEPT !.thread = t, !.asked = v,
                    !.used = IF v = NoId THEN current ELSE v,
                    !.pc = IF v = NoId THEN "thread" ELSE "version"]]
    /\ UNCHANGED <<gone, purged, store, threads, turns>>

\* ResolveDiagramContext: the thread's binding.
ResolveThread(p) ==
    /\ At(p, "thread")
    /\ LET t   == threads[job[p].thread]
           use == IF t.mode = "PINNED" THEN t.pin ELSE job[p].used
       IN  job' = [job EXCEPT ![p].used = use,
                     ![p].pc = IF use = NoId THEN "history" ELSE "version"]
    /\ UNCHANGED <<gone, purged, store, threads, turns>>

\* The version's content.  It was deleted or is empty: the request ends.
ReadVersion(p) ==
    /\ At(p, "version")
    /\ \/ job[p].used \in versions /\ Goto(p, "history")
       \/ Finish(p)
    /\ UNCHANGED <<gone, purged, store, threads, turns>>

\* SELECT ... ORDER BY created_at DESC.  created_at is NOW(), the start of the
\* transaction, for the question and the answer of a turn alike.
Listings(t) ==
    LET rows == {m \in Message : m[1] \in DOMAIN turns /\ turns[m[1]].thread = t}
    IN  {s \in SetToSeqs(rows) :
           \A j, k \in DOMAIN s : j < k => s[j][1] >= s[k][1]}

\* Mutant of Limited: without the limit.
LimitedNot(s) == s

\* Mutant of Limited: one message less.
LimitedShort(s) == SubSeq(s, 1, Min({Len(s), HistoryLimit - 1}))

\* ... LIMIT.
Limited(s) == SubSeq(s, 1, Min({Len(s), HistoryLimit}))

\* ListHistoryForUIGP, reversed.
ReadHistory(p) ==
    /\ At(p, "history")
    /\ \E s \in Listings(job[p].thread) :
         job' = [job EXCEPT ![p].pc = "llm", ![p].history = Reverse(Limited(s))]
    /\ UNCHANGED <<gone, purged, store, threads, turns>>

\* The LLM service answers, or refuses.
AskLLM(p) ==
    /\ At(p, "llm")
    /\ \/ job' = [job EXCEPT ![p].pc = "check", ![p].history = <<>>]
       \/ Finish(p)
    /\ UNCHANGED <<gone, purged, store, threads, turns>>

\* InsertTurn asks for the project again.
CheckProject(p) ==
    /\ At(p, "check")
    /\ IF gone THEN Finish(p) ELSE Goto(p, "turn")
    /\ UNCHANGED <<gone, purged, store, threads, turns>>

\* Mutant of InsertTurn: the version used is not stored.
InsertTurnForgets(p) ==
    /\ At(p, "turn")
    /\ \/ /\ Accepted(job[p].used)
          /\ Len(turns) < MaxTurns
          /\ turns' = Append(turns, [thread |-> job[p].thread, used |-> NoId])
          /\ IF job[p].asked = NoId THEN Finish(p) ELSE Goto(p, "rebind")
       \/ /\ ~Accepted(job[p].used) \/ Len(turns) = MaxTurns
          /\ Finish(p)
          /\ UNCHANGED turns
    /\ UNCHANGED <<gone, purged, store, threads>>

\* The transaction.  A version named by the client is then pinned.
InsertTurn(p) ==
    /\ At(p, "turn")
    /\ \/ /\ Accepted(job[p].used)
          /\ Len(turns) < MaxTurns
          /\ turns' = Append(turns, [thread |-> job[p].thread, used |-> job[p].used])
          /\ IF job[p].asked = NoId THEN Finish(p) ELSE Goto(p, "rebind")
       \/ /\ ~Accepted(job[p].used) \/ Len(turns) = MaxTurns
          /\ Finish(p)
          /\ UNCHANGED turns
    /\ UNCHANGED <<gone, purged, store, threads>>

-----------------------------------------------------------------------------
(***************************************************************************)
(* The deletion of the project: SoftDelete, and OnProjectDeleted, whose    *)
(* DeleteByProject is one statement; its error is ignored.                 *)
(***************************************************************************)

SoftDelete(p) ==
    /\ job[p] = Idle
    /\ ~gone
    /\ gone' = TRUE
    /\ job' = [job EXCEPT ![p] = [Idle EXCEPT !.pc = "purge", !.kind = "delete"]]
    /\ UNCHANGED <<purged, store, threads, turns>>

\* versions without those in V; ON DELETE SET NULL for the current one.
Removed(V) ==
    /\ versions' = versions \ V
    /\ analyses' = analyses \ V
    /\ current' = IF current \in V THEN NoId ELSE current
    /\ UNCHANGED <<made, saving>>

DeleteByProject(p) ==
    /\ At(p, "purge")
    /\ \/ (\A v \in analyses : ~Referenced(v)) /\ Removed(analyses)
       \/ (Faults \/ \E v \in analyses : Referenced(v)) /\ UNCHANGED store
    /\ purged' = TRUE
    /\ Finish(p)
    /\ UNCHANGED <<gone, threads, turns>>

-----------------------------------------------------------------------------
(***************************************************************************)
(* The diagram versions, as DiagramVersions has them, and the environment. *)
(***************************************************************************)

Created ==
    /\ made < MaxVersions
    /\ made' = made + 1
    /\ versions' = versions \cup {made + 1}

\* CreateVersion, one transaction.
CreateVersion ==
    /\ ~gone
    /\ Created
    /\ current' = made + 1
    /\ UNCHANGED <<gone, purged, analyses, saving, threads, turns, job>>

\* Save's INSERT, which does not ask for the project ...
Save ==
    /\ Created
    /\ analyses' = analyses \cup {made + 1}
    /\ saving' = saving \cup {made + 1}
    /\ UNCHANGED <<gone, purged, current, threads, turns, job>>

\* ... and its UPDATE, which does; its error is ignored.
SavePoint(v) ==
    /\ v \in saving
    /\ saving' = saving \ {v}
    /\ \/ ~gone /\ v \in versions /\ current' = v
       \/ (gone \/ v \notin versions \/ Faults) /\ UNCHANGED current
    /\ UNCHANGED <<gone, purged, made, versions, analyses, threads, turns, job>>

\* DeleteByIDForUserChat.
DeleteVersion(v) ==
    /\ v \in analyses
    /\ ~Referenced(v)
    /\ Removed({v})
    /\ UNCHANGED <<gone, purged, threads, turns, job>>

\* A failed call or a restart.
Fail(p) ==
    /\ Faults
    /\ job[p] # Idle
    /\ Finish(p)
    /\ UNCHANGED <<gone, purged, store, threads, turns>>

Step(p) ==
    \/ \E t \in Threads, m \in {"FOLLOW_LATEST", "PINNED"} : CreateThread(p, t, m)
    \/ \E t \in Threads, m \in {"FOLLOW_LATEST", "PINNED"}, v \in (1 .. made) \cup {NoId} :
          Bind(p, t, m, v)
    \/ \E t \in Threads, v \in (1 .. made) \cup {NoId} : PostMessage(p, t, v)
    \/ InsertThread(p)
    \/ Rebind(p) \/ Pick(p) \/ WriteBinding(p)
    \/ ResolveThread(p) \/ ReadVersion(p) \/ ReadHistory(p) \/ AskLLM(p)
    \/ CheckProject(p) \/ InsertTurn(p)
    \/ SoftDelete(p) \/ DeleteByProject(p)
    \/ Fail(p)

Next ==
    \/ CreateVersion \/ Save
    \/ \E v \in saving : SavePoint(v)
    \/ \E v \in analyses : DeleteVersion(v)
    \/ \E p \in Procs : Step(p)

Spec == Init /\ [][Next]_vars

-----------------------------------------------------------------------------
(***************************************************************************)
(* Properties.                                                             *)
(***************************************************************************)

\* PostMessage ignores the error of pinning the version the client named: the one
\* error that cannot happen is that the version was deleted, because the turn
\* stored before names it.
OverrideStays ==
    \A p \in Procs :
        job[p].kind = "post" /\ job[p].pc \in {"rebind", "pick", "write"} =>
            job[p].asked \in versions

\* ListHistoryForUIGP cuts the history off after 20 messages: the LLM service is
\* sent whole turns, each question with its answer.
HistoryWhole ==
    \A p \in Procs : \A m \in Range(job[p].history) :
        {<<m[1], 1>>, <<m[1], 2>>} \subseteq Range(job[p].history)

\* chat_service.go: "Reverse to chronological order": the LLM service is sent the
\* turns in the order they were stored, each question before its answer.
HistoryChronological ==
    \A p \in Procs : \A j, k \in DOMAIN job[p].history :
        j < k => LET a == job[p].history[j]
                     b == job[p].history[k]
                 IN  a[1] < b[1] \/ (a[1] = b[1] /\ a[2] < b[2])

\* repo.go: "DeleteByProject deletes all AMG-APD versions for the given user and
\* project (e.g. when project is deleted)": when the DELETE of the project answers
\* 200, no analysis of it is left.
ProjectEmptied == [][purged' /\ ~purged => analyses' = {}]_vars
=============================================================================

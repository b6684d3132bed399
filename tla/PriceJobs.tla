------------------------------ MODULE PriceJobs ------------------------------
(***************************************************************************)
(* Compute prices: fetchers write one CSV file for each provider, page by  *)
(* page, and the importer loads the files into tables.  The nightly job    *)
(* fetches and then imports; GET /fetch-prices and GET /import-prices      *)
(* start one of the two in a goroutine of its own, whatever else is        *)
(* running.  All of them share the two files.  The fetcher of AWS hands    *)
(* records to workers through a channel, that of Azure writes them itself. *)
(*                                                                         *)
(* Record n of a fetch is the n-th the provider sends; records are the     *)
(* same every time, but for the fetch (gen) they come from.  GCP's fetcher *)
(* is not called.                                                          *)
(***************************************************************************)
EXTENDS Naturals, SequencesExt, FiniteSetsExt

CONSTANTS
    Jobs,        \* jobs running at a time
    Kinds,       \* what they may be: "nightly", "fetch", "import"
    Workers,     \* writers of the AWS fetcher; 8 in the code
    Buffer,      \* room in their channel; 1500
    Pages,       \* pages a provider sends
    PageRecords, \* records on a page
    MaxRecords,  \* at which fetchers stop; 800000
    Key(_, _),   \* the unique key of the table, for a provider and a record
    ZeroPrice,   \* records with a price of zero
    Batch,       \* records in an INSERT; 500
    Faults,      \* whether calls and writes fail and the server restarts
    MaxFetches   \* bound: fetches started

ASSUME PriceAssumption ==
    /\ Kinds \subseteq {"nightly", "fetch", "import"}
    /\ {Buffer, Pages, PageRecords, MaxRecords, MaxFetches} \subseteq Nat
    /\ Workers # {} /\ Batch \in Nat \ {0}
    /\ Faults \in BOOLEAN

VARIABLES
    up,       \* the server runs
    fetches,  \* fetches started so far
    file,     \* the CSV file of each provider
    table,    \* the price table of each provider: key -> record
    job,      \* its kind, fetch number, and what it does
    fetch,    \* of each job and provider: the fetcher
    worker,   \* of each job: the workers of its AWS fetcher
    import    \* of each job: the importer

vars == <<up, fetches, file, table, job, fetch, worker, import>>

Providers == {"azure", "aws"}

\* The records a provider has, and how many of them are wanted.
Count == Pages * PageRecords
Records == 1 .. Count
Wanted == Min({MaxRecords, Count})

\* A worker without a record: waiting for one, or ended.
Idle == 0
Gone == Count + 1

\* A line of a file: a record, complete or cut off by the end of a write; the header; or
\* what is left where a writer continued past the end of a file truncated by another.
Line == [gen : 1 .. MaxFetches, n : Records, torn : BOOLEAN]
Header == [gen |-> 0, n |-> 0, torn |-> FALSE]
Hole == [gen |-> 0, n |-> 0, torn |-> TRUE]

\* pc; the page and record to come; the channel; buffer and place of the writer; whether
\* a write has failed, after which all do, and whether a worker has said so.
NoFetch == [pc |-> "none", next |-> 1, chan |-> <<>>, pending |-> <<Header>>, at |-> 0,
            broken |-> FALSE, told |-> FALSE]

NoImport == [pc |-> "none", from |-> "azure", at |-> 0, rows |-> <<>>]

NoJob == [kind |-> "none", gen |-> 0, pc |-> "idle"]

TypeOK ==
    /\ up \in BOOLEAN /\ fetches \in 0 .. MaxFetches
    /\ \A p \in Providers :
         /\ \A i \in DOMAIN file[p] : file[p][i] \in Line \cup {Header, Hole}
         /\ \A k \in DOMAIN table[p] : table[p][k] \in Line
    /\ \A j \in Jobs :
         /\ job[j].kind \in Kinds \cup {"none"} /\ job[j].gen \in 0 .. MaxFetches
         /\ job[j].pc \in {"idle", "fetch", "import"}
         /\ \A p \in Providers :
              /\ fetch[j][p].pc \in {"none", "create", "page", "send", "close", "ok", "error"}
              /\ Len(fetch[j][p].chan) <= Buffer
              /\ fetch[j][p].next \in 1 .. Count + 1
         /\ \A w \in Workers : worker[j][w] \in Records \cup {Idle, Gone}
         /\ import[j].pc \in {"none", "read", "commit"} /\ import[j].from \in Providers

Init ==
    /\ up = TRUE
    /\ fetches = 0
    /\ file = [p \in Providers |-> <<>>]
    /\ table = [p \in Providers |-> [k \in {} |-> Hole]]
    /\ job = [j \in Jobs |-> NoJob]
    /\ fetch = [j \in Jobs |-> [p \in Providers |-> NoFetch]]
    /\ worker = [j \in Jobs |-> [w \in Workers |-> Gone]]
    /\ import = [j \in Jobs |-> NoImport]

Fetching(j, p, pc) == job[j].pc = "fetch" /\ fetch[j][p].pc = pc

Turn(j, p, f) == fetch' = [fetch EXCEPT ![j][p] = f]

-----------------------------------------------------------------------------
(***************************************************************************)
(* Fetching.                                                               *)
(***************************************************************************)

\* It gives up; what it has buffered is lost.
Fail(j, p) == Turn(j, p, [NoFetch EXCEPT !.pc = "error"]) /\ UNCHANGED file

\* RunAll: both fetchers start.
StartFetch(j, kind) ==
    /\ up /\ job[j] = NoJob
    /\ fetches < MaxFetches
    /\ fetches' = fetches + 1
    /\ job' = [job EXCEPT ![j] = [kind |-> kind, gen |-> fetches + 1, pc |-> "fetch"]]
    /\ fetch' = [fetch EXCEPT ![j] = [p \in Providers |-> [NoFetch EXCEPT !.pc = "create"]]]
    /\ UNCHANGED <<up, file, table, worker, import>>

\* Its file is created, or truncated if it is there, and its workers are started.
CreateFile(j, p) ==
    /\ Fetching(j, p, "create")
    /\ \/ /\ file' = [file EXCEPT ![p] = <<>>]
          /\ Turn(j, p, [fetch[j][p] EXCEPT !.pc = "page"])
          /\ worker' = IF p = "aws" THEN [worker EXCEPT ![j] = [w \in Workers |-> Idle]] ELSE worker
       \/ Faults /\ Fail(j, p) /\ UNCHANGED worker
    /\ UNCHANGED <<up, fetches, table, job, import>>

\* The lines written at a place of a file, which may have become shorter than that.
Put(lines, at, f) ==
    [i \in 1 .. Max({Len(f), at + Len(lines)}) |->
        IF i > at /\ i <= at + Len(lines) THEN lines[i - at]
        ELSE IF i <= Len(f) THEN f[i] ELSE Hole]

\* A record goes into the writer's buffer.  When it is full the buffer goes into the
\* file, the record with it, or as much of it as there was room for.
Write(j, p, f, n) ==
    LET rec == [gen |-> job[j].gen, n |-> n, torn |-> FALSE]
    IN \/ /\ Turn(j, p, [f EXCEPT !.pending = Append(@, rec)])
          /\ UNCHANGED file
       \/ \E cut \in BOOLEAN :
            /\ file' = [file EXCEPT ![p] = Put(Append(f.pending, [rec EXCEPT !.torn = cut]), f.at, @)]
            /\ Turn(j, p, [f EXCEPT !.at = @ + Len(f.pending) + (IF cut THEN 0 ELSE 1),
                                    !.pending = IF cut THEN <<rec>> ELSE <<>>])

\* The last of the buffer goes into the file, and the fetcher is done.
Flush(j, p) ==
    /\ file' = [file EXCEPT ![p] = Put(fetch[j][p].pending, fetch[j][p].at, @)]
    /\ Turn(j, p, [NoFetch EXCEPT !.pc = "ok"])

Sent(f) == f.next - 1

\* Azure: the next page, after up to six attempts; an empty page or the limit ends it.
AzurePage(j) ==
    /\ Fetching(j, "azure", "page")
    /\ LET f == fetch[j]["azure"]
       IN \/ /\ Sent(f) < Wanted
             /\ Turn(j, "azure", [f EXCEPT !.pc = "send"]) /\ UNCHANGED file
          \/ /\ Sent(f) >= Wanted
             /\ Flush(j, "azure")
          \/ Faults /\ Fail(j, "azure")
    /\ UNCHANGED <<up, fetches, table, job, worker, import>>

\* A record of the page, written by the fetcher itself.
AzureRecord(j) ==
    /\ Fetching(j, "azure", "send")
    /\ LET f == fetch[j]["azure"]
           ends == f.next % PageRecords = 0 \/ f.next >= MaxRecords
       IN \/ Write(j, "azure", [f EXCEPT !.next = @ + 1, !.pc = IF ends THEN "page" ELSE "send"], f.next)
          \/ Faults /\ Fail(j, "azure")
    /\ UNCHANGED <<up, fetches, table, job, worker, import>>

\* The fetcher looks for an error before each page only.
Told(j) == fetch[j]["aws"].told

\* AWS: the next page, after up to four attempts.  Nobody closes the channel of a fetcher
\* that gives up: its workers wait for ever, and their writes no longer reach the file,
\* which is closed.
AwsPage(j) ==
    /\ Fetching(j, "aws", "page")
    /\ LET f == fetch[j]["aws"]
       IN \/ /\ ~Told(j)
             /\ Turn(j, "aws", [f EXCEPT !.pc = IF Sent(f) < Wanted THEN "send" ELSE "close"])
             /\ UNCHANGED <<file, worker>>
          \/ /\ Faults \/ Told(j)
             /\ Fail(j, "aws")
             /\ worker' = [worker EXCEPT ![j] = [w \in Workers |-> Gone]]
    /\ UNCHANGED <<up, fetches, table, job, import>>

\* Mutant of Room: one more.
RoomForOneMore(j) == Len(fetch[j]["aws"].chan) <= Buffer

Room(j) == Len(fetch[j]["aws"].chan) < Buffer

\* A record of the page goes into the channel, if there is room.
AwsSend(j) ==
    /\ Fetching(j, "aws", "send")
    /\ LET f == fetch[j]["aws"]
           ends == f.next % PageRecords = 0 \/ f.next >= MaxRecords
       IN /\ Room(j)
          /\ Turn(j, "aws", [f EXCEPT !.chan = Append(@, f.next), !.next = @ + 1,
                                   !.pc = IF ends THEN "page" ELSE "send"])
    /\ UNCHANGED <<up, fetches, file, table, job, worker, import>>

WorkerReceive(j, w) ==
    /\ job[j].pc = "fetch" /\ worker[j][w] = Idle
    /\ LET f == fetch[j]["aws"]
       IN \/ /\ f.chan # <<>>
             /\ worker' = [worker EXCEPT ![j][w] = Head(f.chan)]
             /\ Turn(j, "aws", [f EXCEPT !.chan = Tail(@)])
          \/ /\ f.chan = <<>> /\ f.pc = "close"
             /\ worker' = [worker EXCEPT ![j][w] = Gone]
             /\ UNCHANGED fetch
    /\ UNCHANGED <<up, fetches, file, table, job, import>>

\* A worker writes its record under the mutex.  Once a write has failed all do, and each
\* worker that meets one reports it and ends.
WorkerWrite(j, w) ==
    /\ job[j].pc = "fetch" /\ worker[j][w] \in Records
    /\ LET f == fetch[j]["aws"]
       IN \/ /\ ~f.broken
             /\ Write(j, "aws", f, worker[j][w])
             /\ worker' = [worker EXCEPT ![j][w] = Idle]
          \/ /\ Faults \/ f.broken
             /\ worker' = [worker EXCEPT ![j][w] = Gone]
             /\ Turn(j, "aws", [f EXCEPT !.broken = TRUE, !.told = TRUE])
             /\ UNCHANGED file
    /\ UNCHANGED <<up, fetches, table, job, import>>

\* All workers have ended: the rest of the buffer is written, unless a write has failed.
AwsClose(j) ==
    /\ Fetching(j, "aws", "close")
    /\ \A w \in Workers : worker[j][w] = Gone
    /\ IF fetch[j]["aws"].broken THEN Fail(j, "aws")
       ELSE Flush(j, "aws") \/ (Faults /\ Fail(j, "aws"))
    /\ UNCHANGED <<up, fetches, table, job, worker, import>>

\* Mutant of Fetched: an error is only logged.
FetchedSomehow(j) == \A p \in Providers : fetch[j][p].pc \in {"ok", "error"}

\* No fetcher has returned an error.
Fetched(j) == \A p \in Providers : fetch[j][p].pc = "ok"

\* RunAll returns; the nightly job imports unless it has failed.
EndFetch(j) ==
    /\ job[j].pc = "fetch"
    /\ \A p \in Providers : fetch[j][p].pc \in {"ok", "error"}
    /\ IF job[j].kind = "nightly" /\ Fetched(j)
       THEN /\ job' = [job EXCEPT ![j].pc = "import"]
            /\ import' = [import EXCEPT ![j] = [NoImport EXCEPT !.pc = "read"]]
       ELSE job' = [job EXCEPT ![j] = NoJob] /\ UNCHANGED import
    /\ fetch' = [fetch EXCEPT ![j] = [p \in Providers |-> NoFetch]]
    /\ worker' = [worker EXCEPT ![j] = [w \in Workers |-> Gone]]
    /\ UNCHANGED <<up, fetches, file, table>>

-----------------------------------------------------------------------------
(***************************************************************************)
(* Importing: Azure, then AWS, each in one transaction.                    *)
(***************************************************************************)

\* GET /import-prices.
StartImport(j) ==
    /\ up /\ job[j] = NoJob
    /\ job' = [job EXCEPT ![j] = [kind |-> "import", gen |-> 0, pc |-> "import"]]
    /\ import' = [import EXCEPT ![j] = [NoImport EXCEPT !.pc = "read"]]
    /\ UNCHANGED <<up, fetches, file, table, fetch, worker>>

EndImport(j) ==
    /\ job' = [job EXCEPT ![j] = NoJob]
    /\ import' = [import EXCEPT ![j] = NoImport]

\* All goroutines are gone and open transactions are rolled back.
Lose ==
    /\ job' = [j \in Jobs |-> NoJob]
    /\ fetch' = [j \in Jobs |-> [p \in Providers |-> NoFetch]]
    /\ worker' = [j \in Jobs |-> [w \in Workers |-> Gone]]
    /\ import' = [j \in Jobs |-> NoImport]
    /\ UNCHANGED <<fetches, file, table>>

Reading(j) == up /\ import[j].pc = "read"

\* mapHeaderIndices: a first line that is not the header ends the server.  An empty file
\* ends the import (one that is missing is skipped; then both are).
ReadHeader(j) ==
    /\ Reading(j) /\ import[j].at = 0
    /\ LET lines == file[import[j].from]
       IN \/ /\ lines = <<>> /\ EndImport(j)
             /\ UNCHANGED <<up, fetches, file, table, fetch, worker>>
          \/ /\ lines # <<>> /\ lines[1] = Header
             /\ import' = [import EXCEPT ![j].at = 1]
             /\ UNCHANGED <<up, fetches, file, table, job, fetch, worker>>
          \/ /\ lines # <<>> /\ lines[1] # Header
             /\ up' = FALSE /\ Lose

\* Without prices of zero.
Priced(rows) ==
    LET kept[i \in 0 .. Len(rows)] ==
            IF i = 0 THEN <<>>
            ELSE IF rows[i].n \in ZeroPrice THEN kept[i - 1] ELSE Append(kept[i - 1], rows[i])
    IN kept[Len(rows)]

\* The next line.  One that is cut off has too few fields, unless the last is cut; a hole
\* is no line.  The last record of Azure is left out, and so are prices of zero.
ReadLine(j) ==
    /\ Reading(j) /\ import[j].at > 0
    /\ LET i == import[j]
           lines == file[i.from]
           line == lines[i.at + 1]
       IN \/ /\ i.at < Len(lines) /\ line \notin {Header, Hole}
             /\ import' = [import EXCEPT ![j].at = @ + 1,
                                         ![j].rows = Append(@, [line EXCEPT !.torn = FALSE])]
             /\ UNCHANGED job
          \/ /\ i.at < Len(lines) /\ (line = Header \/ line.torn)
             /\ EndImport(j)
          \/ /\ i.at >= Len(lines)
             /\ import' = [import EXCEPT ![j].pc = "commit",
                             ![j].rows = Priced(IF i.from = "azure" /\ @ # <<>> THEN Front(@) ELSE @)]
             /\ UNCHANGED job
    /\ UNCHANGED <<up, fetches, file, table, fetch, worker>>

\* A batch is the places of its rows.

\* Mutant of Deduplicated: the first.
FirstOfKey(p, rows, batch) ==
    {i \in batch : \A k \in batch : Key(p, rows[k].n) = Key(p, rows[i].n) => k >= i}

\* flushBatch: of the rows with one key the last.
Deduplicated(p, rows, batch) ==
    {i \in batch : \A k \in batch : Key(p, rows[k].n) = Key(p, rows[i].n) => k <= i}

\* INSERT ... ON CONFLICT DO UPDATE, which must not meet a key twice.
Accepted(p, rows, batch) ==
    \A i, k \in batch : Key(p, rows[i].n) = Key(p, rows[k].n) => i = k

\* Mutant of Upsert: ON CONFLICT DO NOTHING.
UpsertNew(t, p, rows, batch) ==
    [key \in DOMAIN t \cup {Key(p, rows[i].n) : i \in batch} |->
        IF key \in DOMAIN t THEN t[key] ELSE rows[CHOOSE i \in batch : Key(p, rows[i].n) = key]]

\* What is there is replaced.
Upsert(t, p, rows, batch) ==
    [key \in DOMAIN t \cup {Key(p, rows[i].n) : i \in batch} |->
        IF \E i \in batch : Key(p, rows[i].n) = key
        THEN rows[CHOOSE i \in batch : Key(p, rows[i].n) = key] ELSE t[key]]

BatchesOf(rows) == (Len(rows) + Batch - 1) \div Batch

Flushed(p, rows, b) ==
    Deduplicated(p, rows, (b - 1) * Batch + 1 .. Min({b * Batch, Len(rows)}))

\* A table after the batches, one after another.
Upserted(t, p, rows) ==
    LET after[b \in 0 .. BatchesOf(rows)] ==
            IF b = 0 THEN t ELSE Upsert(after[b - 1], p, rows, Flushed(p, rows, b))
    IN after[BatchesOf(rows)]

\* The batches and the commit; the other provider follows.
Commit(j) ==
    /\ import[j].pc = "commit"
    /\ LET p == import[j].from
           rows == import[j].rows
           accepted == \A b \in 1 .. BatchesOf(rows) : Accepted(p, rows, Flushed(p, rows, b))
       IN \/ /\ accepted
             /\ table' = [table EXCEPT ![p] = Upserted(@, p, rows)]
             /\ IF p = "azure"
                THEN /\ import' = [import EXCEPT ![j] = [NoImport EXCEPT !.pc = "read", !.from = "aws"]]
                     /\ UNCHANGED job
                ELSE EndImport(j)
          \/ /\ Faults \/ ~accepted
             /\ EndImport(j)
             /\ UNCHANGED table
    /\ UNCHANGED <<up, fetches, file, fetch, worker>>

\* The server stops, and is started again.
Restart ==
    \/ Faults /\ up /\ up' = FALSE /\ Lose
    \/ ~up /\ up' = TRUE /\ UNCHANGED <<fetches, file, table, job, fetch, worker, import>>

Step(j) ==
    \/ \E p \in Providers : CreateFile(j, p)
    \/ AzurePage(j) \/ AzureRecord(j)
    \/ AwsPage(j) \/ AwsSend(j) \/ AwsClose(j)
    \/ \E w \in Workers : WorkerReceive(j, w) \/ WorkerWrite(j, w)
    \/ EndFetch(j)
    \/ ReadHeader(j) \/ ReadLine(j) \/ Commit(j)

Next ==
    \/ \E j \in Jobs :
         \/ \E kind \in Kinds \ {"import"} : StartFetch(j, kind)
         \/ "import" \in Kinds /\ StartImport(j)
         \/ Step(j)
    \/ Restart

Spec == Init /\ [][Next]_vars

\* Goroutines that can go on do, and so does each worker.
FairSpec ==
    /\ Spec
    /\ \A j \in Jobs :
         /\ WF_vars(CreateFile(j, "azure") \/ AzurePage(j) \/ AzureRecord(j))
         /\ WF_vars(CreateFile(j, "aws") \/ AwsPage(j) \/ AwsSend(j) \/ AwsClose(j))
         /\ \A w \in Workers : WF_vars(WorkerReceive(j, w) \/ WorkerWrite(j, w))
         /\ WF_vars(EndFetch(j))
         /\ WF_vars(ReadHeader(j) \/ ReadLine(j) \/ Commit(j))

-----------------------------------------------------------------------------
(***************************************************************************)
(* Properties.                                                             *)
(***************************************************************************)

\* The records of a fetch that the importer is to load.
Expected(p, gen) ==
    {[gen |-> gen, n |-> n, torn |-> FALSE] :
        n \in 1 .. Wanted - (IF p = "azure" THEN 1 ELSE 0)}

\* What the nightly job is about to commit are all records of its own fetch, less the
\* last of Azure and those without a price, and nothing else: no failed page, write or
\* worker goes unnoticed, and no record is cut off or left in a buffer.
NightlyLoadsWhole ==
    \A j \in Jobs : job[j].kind = "nightly" /\ import[j].pc = "commit" =>
        Range(import[j].rows)
          = {r \in Expected(import[j].from, job[j].gen) : r.n \notin ZeroPrice}

\* After the transaction of an import, by hand or of the nightly job, the table has of the
\* rows with one key the last in the file: whether they are in one batch of the INSERT,
\* which drops all but the last, or in several, of which the later replace the earlier.
LastOfKey ==
    [][\A j \in Jobs :
         LET p == import[j].from
             rows == import[j].rows
         IN import[j].pc = "commit" /\ import'[j].pc # "commit" /\ table' # table =>
              \A i \in DOMAIN rows :
                (\A k \in DOMAIN rows : Key(p, rows[k].n) = Key(p, rows[i].n) => k <= i)
                  => table'[p][Key(p, rows[i].n)] = rows[i]]_vars

\* So of Azure's records with one key the nightly job leaves the one the provider sent last.
AzureKeepsLast ==
    [][\A j \in Jobs :
         job[j].kind = "nightly" /\ import[j].from = "azure" /\ import'[j].from = "aws" =>
           \A r, s \in Expected("azure", job[j].gen) :
             /\ {r.n, s.n} \cap ZeroPrice = {} /\ r.n < s.n
             /\ Key("azure", r.n) = Key("azure", s.n)
             => table'["azure"][Key("azure", r.n)] # r]_vars

\* A fetch returns once both fetchers have ended (fetchers/fetcher_manager.go, RunAll).
FetchReturns == \A j \in Jobs : job[j].pc = "fetch" ~> job[j].pc # "fetch"

\* Importing does not end the server.
ImportKeepsServer == [][(\E j \in Jobs : ReadHeader(j)) => up']_vars

\* What is committed has been fetched by one fetch.
OneFetch ==
    \A j \in Jobs : import[j].pc = "commit" =>
        \A r, s \in Range(import[j].rows) : r.gen = s.gen

\* A price is not replaced by one of an earlier fetch.
NeverBack ==
    [][\A p \in Providers : \A k \in DOMAIN table[p] : table'[p][k].gen >= table[p][k].gen]_vars
=============================================================================

------------------------------- MODULE RunRow -------------------------------
(***************************************************************************)
(* The record of one simulation run (domain.SimulationRun), abstracted to  *)
(* what the run life cycle tells apart:                                    *)
(*   owned   whether user_id is set (a stub row inserted to satisfy a      *)
(*           foreign key has none)                                         *)
(*   eng     engine_run_id, NoEngine for the empty string / NULL           *)
(*   status  the status string                                             *)
(*   done    whether completed_at is set                                   *)
(*   meta    the metadata keys present, one member per family of keys that *)
(*           one writer adds; keys are merged in and never removed         *)
(***************************************************************************)

CONSTANTS
    Runs,       \* backend run ids
    EngineIds,  \* engine run ids
    NoEngine,   \* the run has no engine_run_id
    NoRow       \* no such row / no such key

Status == {"pending", "running", "completed", "failed", "cancelled", "stopped"}

Terminal == {"completed", "failed", "cancelled", "stopped"}

\* client: the body of a PUT; mode: the create handler after the engine
\* accepted the run; engine_error: the create handler after it did not;
\* callback: an engine callback; history: the persistence goroutine.
MetaKeys == {"client", "mode", "engine_error", "callback", "history"}

EngineRef == EngineIds \cup {NoEngine}

Row == [owned : BOOLEAN, eng : EngineRef, status : Status, done : BOOLEAN,
        meta : SUBSET MetaKeys]

\* What CreateRun builds before the engine is called.
FreshRow == [owned |-> TRUE, eng |-> NoEngine, status |-> "pending",
             done |-> FALSE, meta |-> {}]

\* INSERT INTO simulation_runs (run_id): column defaults, and no owner.
StubRow == [owned |-> FALSE, eng |-> NoEngine, status |-> "pending",
            done |-> FALSE, meta |-> {}]

\* A row in a terminal state carries its completion time.
Coherent(row) == row.status \in Terminal => row.done

ASSUME RunRowAssumption ==
    /\ NoEngine \notin EngineIds
    /\ NoRow \notin Row
=============================================================================

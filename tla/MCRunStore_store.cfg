\* Two runs, two engine runs, one of which a client may map to a run itself.
CONSTANTS
    Runs = {r1, r2}
    EngineIds = {e1, e2}
    NoEngine = NoEngine
    NoRow = NoRow
    Procs = {p1, p2}
    NoRun = NoRun
    KeepEngine = KeepEngine
    MaxRequests = 3
    PutStatuses = {"keep", "stopped", "bogus"}
    PutEngineIds = {KeepEngine, NoEngine, e1}
    CallbackStatuses = {"running", "completed"}
SPECIFICATION Spec
INVARIANTS TypeOK Coherence LiveRunNeedsEngine DurableUntilDeleted
PROPERTY RunTableSpec
SYMMETRY ProcSymmetry
CHECK_DEADLOCK FALSE

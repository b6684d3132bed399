\* A write of a stale copy drops metadata another request stored.
CONSTANTS
    Runs = {r1}
    EngineIds = {e1, e2}
    NoEngine = NoEngine
    NoRow = NoRow
    Procs = {p1, p2}
    NoRun = NoRun
    KeepEngine = KeepEngine
    MaxRequests = 3
    PutStatuses = {"keep", "running", "stopped", "bogus"}
    PutEngineIds = {KeepEngine, NoEngine}
    CallbackStatuses = {"running", "completed"}
SPECIFICATION Spec
PROPERTY MetadataPreserved
CHECK_DEADLOCK FALSE

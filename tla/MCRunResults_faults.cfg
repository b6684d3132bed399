\* Two callbacks, calls that fail, restarts and a DELETE.
CONSTANTS
    c1 = c1
    c2 = c2
    Procs = {p1, p2}
    Cands = {c1, c2}
    NoCand = NoCand
    Self = Self
    Batches <- MCBatches
    ParentYamls = {"parent", "none"}
    Faults = TRUE
    MaxCallbacks = 2
SPECIFICATION Spec
INVARIANTS TypeOK OwnPathsResolve SummaryPathAfterUpload
SYMMETRY Symmetry
CHECK_DEADLOCK FALSE

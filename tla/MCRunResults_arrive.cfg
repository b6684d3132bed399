\* Nothing fails: the results of each callback arrive.
CONSTANTS
    c1 = c1
    c2 = c2
    Procs = {p1, p2}
    Cands = {c1, c2}
    NoCand = NoCand
    Self = Self
    Batches <- MCBatches
    ParentYamls = {"parent", "none"}
    Faults = FALSE
    MaxCallbacks = 2
SPECIFICATION FairSpec
PROPERTY ResultsArrive
CHECK_DEADLOCK FALSE

\* Two concurrent requests on one thread, a history that is cut off, and failing calls.
CONSTANTS
    Procs = {p1, p2}
    Threads = {t1}
    HistoryLimit = 2
    Faults = TRUE
    MaxVersions = 2
    MaxTurns = 2
SPECIFICATION Spec
INVARIANTS TypeOK OverrideStays HistoryWhole
SYMMETRY Symmetry
CHECK_DEADLOCK FALSE

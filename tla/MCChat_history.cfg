\* The order of question and answer in the history.
CONSTANTS
    Procs = {p1, p2}
    Threads = {t1}
    HistoryLimit = 20
    Faults = FALSE
    MaxVersions = 2
    MaxTurns = 2
SPECIFICATION Spec
INVARIANT HistoryChronological
CHECK_DEADLOCK FALSE

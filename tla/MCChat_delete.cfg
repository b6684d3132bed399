\* Nothing fails: a chat about an analysis, and the deletion of the project.
CONSTANTS
    Procs = {p1, p2}
    Threads = {t1}
    HistoryLimit = 20
    Faults = FALSE
    MaxVersions = 2
    MaxTurns = 1
SPECIFICATION Spec
PROPERTY ProjectEmptied
CHECK_DEADLOCK FALSE

\* Two concurrent requests: a canvas version overtakes an analysis.
CONSTANTS
    Procs = {p1, p2}
    Ids = {i1, i2}
    Yamls = {y1, y2}
    NoId = NoId
    NoYaml = NoYaml
    Faults = FALSE
    MaxDeletes = 0
SPECIFICATION Spec
SYMMETRY Symmetry
INVARIANT FollowLatest
CHECK_DEADLOCK FALSE

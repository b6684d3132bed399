\* Two concurrent requests, calls that fail, and a delete.
CONSTANTS
    Procs = {p1, p2}
    Ids = {i1, i2, i3}
    Yamls = {y1}
    NoId = NoId
    NoYaml = NoYaml
    Faults = TRUE
    MaxDeletes = 1
SPECIFICATION Spec
SYMMETRY Symmetry
INVARIANTS TypeOK NumbersContiguous
PROPERTY NewestIsHighest
CHECK_DEADLOCK FALSE

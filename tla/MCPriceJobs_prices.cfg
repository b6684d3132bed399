\* A nightly job and an import started by hand; two pages of two records, of which three are wanted.
CONSTANTS
    j1 = j1
    j2 = j2
    w1 = w1
    w2 = w2
    Jobs = {j1, j2}
    Kinds = {"nightly", "import"}
    Workers = {w1, w2}
    Buffer = 1
    Pages = 2
    PageRecords = 2
    MaxRecords = 3
    Key <- MCKey
    ZeroPrice = {}
    Batch = 2
    Faults = TRUE
    MaxFetches = 1
SPECIFICATION Spec
INVARIANTS TypeOK NightlyLoadsWhole
PROPERTY LastOfKey
SYMMETRY Symmetry
CHECK_DEADLOCK FALSE

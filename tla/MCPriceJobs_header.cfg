\* An import beside two fetches of the same file.
CONSTANTS
    j1 = j1
    j2 = j2
    w1 = w1
    w2 = w2
    Jobs = {j1, j2}
    Kinds = {"fetch", "import"}
    Workers = {w1}
    Buffer = 1
    Pages = 1
    PageRecords = 2
    MaxRecords = 2
    Key <- MCKey
    ZeroPrice = {}
    Batch = 2
    Faults = FALSE
    MaxFetches = 2
SPECIFICATION Spec
PROPERTY ImportKeepsServer
CHECK_DEADLOCK FALSE

\* A user interface, two services, a database and an unlisted "bff"; three dependencies.
CONSTANTS
    ui = ui
    a = a
    b = b
    db = db
    gate = gate
    Words = {ui, a, b, db, "bff"}
    Types <- MCTypes
    Links <- MCLinks
    Listed = {}
    UINames = {ui}
    DbNames = {db}
    LikeNames = {b}
    GodDegree = 3
    ChainEdges = 2
    DbClients = 2
    UITargets = 2
    MaxDeps = 3
    MaxCalls = 2
    MaxSelected = 2
    MaxRounds = 1
SPECIFICATION FixSpec
INVARIANTS FixTypeOK CyclesAreComponents SelectedIsFound ReachKept OthersKept FixMends
CHECK_DEADLOCK FALSE

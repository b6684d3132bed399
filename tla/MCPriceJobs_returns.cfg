\* A fetch whose writes fail, with a page that does not fit the channel.
CONSTANTS
    j1 = j1
    j2 = j2
    w1 = w1
    w2 = w2
    Jobs = {j1}
    Kinds = {"fetch"}
    Workers = {w1}
    Buffer = 1
    Pages = 1
    PageRecords = 3
    MaxRecords = 3
    Key <- MCKey
    ZeroPrice = {}
    Batch = 2
    Faults = TRUE
    MaxFetches = 1
SPECIFICATION FairSpec
PROPERTY FetchReturns
CHECK_DEADLOCK FALSE

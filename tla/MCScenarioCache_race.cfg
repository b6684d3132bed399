\* Two concurrent requests, and a diagram that changes under them.
CONSTANTS
    d1 = d1
    d2 = d2
    x1 = x1
    x2 = x2
    Procs = {p1, p2}
    Diagrams = {d1, d2}
    NoDiagram = NoDiagram
    Hosts = {h1}
    NoHost = NoHost
    Edits = {x1}
    PutYamls <- MCPutFew
    NoHash = NoHash
    Faults = TRUE
    NoRow = NoRow
    NoAnswer = NoAnswer
    MaxRequests = 3
SPECIFICATION Spec
INVARIANTS TypeOK GeneratedIsHonest ServedFresh
SYMMETRY Symmetry
CHECK_DEADLOCK FALSE

\* Two concurrent requests: an edited scenario is replaced.
CONSTANTS
    d1 = d1
    d2 = d2
    x1 = x1
    x2 = x2
    Procs = {p1, p2}
    Diagrams = {d1, d2}
    NoDiagram = NoDiagram
    Hosts = {h1}
    NoHost = NoHost
    Edits = {x1, x2}
    PutYamls <- MCPutYamls
    NoHash = NoHash
    Faults = FALSE
    NoRow = NoRow
    NoAnswer = NoAnswer
    MaxRequests = 2
SPECIFICATION Spec
PROPERTY EditedKept
CHECK_DEADLOCK FALSE

\* One request at a time: a rejected PUT and the object in S3.
CONSTANTS
    d1 = d1
    d2 = d2
    x1 = x1
    x2 = x2
    Procs = {p1}
    Diagrams = {d1, d2}
    NoDiagram = NoDiagram
    Hosts = {h1}
    NoHost = NoHost
    Edits = {x1, x2}
    PutYamls <- MCPutYamls
    NoHash = NoHash
    Faults = FALSE
    NoRow = NoRow
    NoAnswer = NoAnswer
    MaxRequests = 3
SPECIFICATION Spec
INVARIANT ObjectMatchesRow
CHECK_DEADLOCK FALSE

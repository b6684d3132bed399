\* An event of a type the proxy does not know.
CONSTANTS
    Updaters = {u1}
    Statuses = {"running", "completed"}
    Initial = "running"
    BufferSize = 1
    InboxSize = 3
    MaxEvents = 3
    Unknown = {2}
    Faults = FALSE
SPECIFICATION Spec
INVARIANT AllForwarded
CHECK_DEADLOCK FALSE

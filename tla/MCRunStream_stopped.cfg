\* A run that is stopped while the engine keeps its stream open.
CONSTANTS
    Updaters = {u1}
    Statuses = {"running", "completed", "failed", "stopped"}
    Initial = "running"
    BufferSize = 1
    InboxSize = 2
    MaxEvents = 2
    Unknown = {}
    Faults = FALSE
SPECIFICATION FairSpec
PROPERTY ProxyStopsAtStopped
CHECK_DEADLOCK FALSE

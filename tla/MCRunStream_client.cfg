\* One update while a client connects.
CONSTANTS
    Updaters = {u1}
    Statuses = {"running", "completed"}
    Initial = "running"
    BufferSize = 1
    InboxSize = 2
    MaxEvents = 1
    Unknown = {}
    Faults = FALSE
SPECIFICATION FairSpec
PROPERTY ClientLearns
CHECK_DEADLOCK FALSE

\* Two updates, both channels full at times, an event of an unknown type, calls that fail.
CONSTANTS
    Updaters = {u1, u2}
    Statuses = {"running", "failed", "stopped"}
    Initial = "running"
    BufferSize = 2
    InboxSize = 1
    MaxEvents = 3
    Unknown = {2}
    Faults = TRUE
SPECIFICATION FairSpec
INVARIANTS TypeOK NoGaps
PROPERTIES ProxyStops ReaderStops FeedSpec
CHECK_DEADLOCK FALSE

SPECIFICATION Spec
CONSTANTS
    e1 = e1
    e2 = e2
    e3 = e3
    None = None
    Events = {e1, e2, e3}
    Skipped = {e3}
    NewCommittee = {e2}
    BlockOf <- Blocks
    MaxBlock = 2
    DefaultBlock = 1
    SyncStep = 2
    EventsCapacity = 1
    Override = TRUE
    Watchers = {"watcher"}
    FaultKinds = {"crash", "client", "event", "trip", "reorg", "read"}
    MaxFaults = 2
INVARIANTS TypeOK SealedSettledUnlessFailed
PROPERTIES EveryEventSettles BreakerReboots
CHECK_DEADLOCK FALSE

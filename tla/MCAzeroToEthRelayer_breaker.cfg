SPECIFICATION Spec
CONSTANTS
    e1 = e1
    e2 = e2
    e3 = e3
    None = None
    Events = {e1, e2}
    Skipped = {}
    NewCommittee = {}
    BlockOf <- SameBlock
    MaxBlock = 1
    DefaultBlock = 1
    SyncStep = 1
    EventsCapacity = 1
    Override = FALSE
    Watchers = {"watcher"}
    FaultKinds = {"event", "trip"}
    MaxFaults = 2
PROPERTIES BreakerNeverKills

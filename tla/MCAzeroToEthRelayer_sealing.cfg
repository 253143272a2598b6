SPECIFICATION Spec
CONSTANTS
    e1 = e1
    e2 = e2
    e3 = e3
    None = None
    Events = {e1, e2}
    Skipped = {}
    NewCommittee = {}
    BlockOf <- Blocks
    MaxBlock = 2
    DefaultBlock = 1
    SyncStep = 1
    EventsCapacity = 1
    Override = FALSE
    Watchers = {"watcher"}
    FaultKinds = {"event"}
    MaxFaults = 1
INVARIANTS SealedMeansSettled

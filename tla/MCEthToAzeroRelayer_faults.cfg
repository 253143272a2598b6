SPECIFICATION Spec
CONSTANTS
    None = None
    Events = {1, 2, 3}
    Skipped = {1}
    NewCommittee = {3}
    BlockOf <- Blocks
    MaxBlock = 3
    DefaultBlock = 1
    SyncStep = 2
    Override = TRUE
    Watchers = {"watcher"}
    FaultKinds = {"crash", "query", "event", "trip", "reorg", "drop", "read"}
    MaxFaults = 2
INVARIANTS TypeOK SealedSettledUnlessOverlooked
PROPERTIES SettlesUnlessStalled CachedUnlessStalled
CHECK_DEADLOCK FALSE

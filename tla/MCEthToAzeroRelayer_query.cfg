SPECIFICATION Spec
CONSTANTS
    None = None
    Events = {2, 3}
    Skipped = {}
    NewCommittee = {}
    BlockOf <- Blocks
    MaxBlock = 3
    DefaultBlock = 1
    SyncStep = 1
    Override = FALSE
    Watchers = {"watcher"}
    FaultKinds = {"query"}
    MaxFaults = 1
PROPERTY EveryEventSettles
CHECK_DEADLOCK FALSE

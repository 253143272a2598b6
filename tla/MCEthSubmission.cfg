SPECIFICATION Spec
CONSTANTS
    NoChain = NoChain
    ChainId = ChainId
    None = None
    Requests = {r1, r2}
    FaultKinds <- AllFaults
    MaxFaults = 3
INVARIANTS
    SignedAsAsked
    NoSilentGap
PROPERTY EveryVoteLands
CHECK_DEADLOCK FALSE

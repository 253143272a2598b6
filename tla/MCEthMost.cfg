SPECIFICATION Spec
CONSTANTS
    g1 = g1
    g2 = g2
    weth = weth
    local = local
    wrapped = wrapped
    azToken = azToken
    user = user
    Zero = Zero
    Guardians = {g1, g2}
    Tokens = {weth, local, wrapped}
    Weth = weth
    Mintable = {wrapped}
    RemoteTokens = {azToken}
    Receivers = {user}
    Amounts = {1}
    Incoming <- EtherRequest
    Limits <- NoLimit
    Funds <- SomeFunds
    MaxCommitteeId = 1
    MaxNonce = 2
    MaxDepth = 2
SYMMETRY Symmetry
INVARIANTS
    TypeOK
    QuorumBehindProcessed
    AllSignedMeansProcessed
    PaidExactlyOnce
    RequestsAreUnique
    RefusedEtherIsKept
PROPERTIES
    ImplementsVoting
    CommitteesAreImmutable
    SettledStaysSettled

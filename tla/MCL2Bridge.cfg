SPECIFICATION Spec
CONSTANTS
    g1 = g1
    g2 = g2
    g3 = g3
    local = local
    wazAz = wazAz
    wrapped = wrapped
    bAzero1 = bAzero1
    bAzero2 = bAzero2
    Guardians = {g1, g2, g3}
    Faulty = {g3}
    Committees <- SomeCommittees
    Locals = {local}
    WrappedAzero = wazAz
    Wrapped = {wrapped}
    BAzeros = {bAzero1, bAzero2}
    PoolCoin = bAzero1
    Zero = Zero
    Partner <- SomePartners
    Amounts = {2}
    Surpluses = {0, 1}
    DEFAULT_FLAT_FEE = 1
    FlatFees = {0, 1}
    RATIO = 2
    Percent = 2
    MIN_SWAP_RATE = 1
    Funds <- SomeFunds
    PoolNative = 2
    PoolBAzero = 1
    Deposit = 1
    Forged <- SomeForged
    Endowment = 2
    MaxCommitteeId = 1
    MaxNonce <- SomeNonces
    MaxDepth = 2
    MaxGovern = 1
INVARIANTS TypeOK NoForgedPayout AllSignedMeansProcessed AzeroIsBacked LocalsAreBacked CoinsAreAccounted
SYMMETRY HonestSymmetry
CHECK_DEADLOCK FALSE

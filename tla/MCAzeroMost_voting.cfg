SPECIFICATION Spec
CONSTANTS
    g1 = g1
    g2 = g2
    g3 = g3
    wazeroToken = wazeroToken
    wrapped = wrapped
    ethToken = ethToken
    user = user
    Zero = Zero
    NoAnswer = NoAnswer
    Guardians = {g1, g2, g3}
    Tokens = {wazeroToken, wrapped}
    WAzero = wazeroToken
    Mintable = {wrapped}
    RemoteTokens = {ethToken}
    Receivers = {user}
    Amounts = {1}
    Incoming <- VotingIncoming
    Funds <- NoFunds
    RATIO = 2
    U128 = 1000
    FeeParams <- NoFee
    OracleAnswers <- NoAnswers
    PocketLimits = {0}
    GasUsages = {0}
    MaxCommitteeId = 1
    MaxNonce = 1
    MaxFunding = 0
SYMMETRY Symmetry
INVARIANTS TypeOK ExecutedExactlyOnce AllSignedMeansProcessed
PROPERTIES ImplementsVoting

SPECIFICATION Spec
CONSTANTS
    g1 = g1
    g2 = g2
    g3 = g3
    wazeroToken = wazeroToken
    wrapped = wrapped
    ethToken = ethToken
    user = user
    Zero = Zero
    NoAnswer = NoAnswer
    Guardians = {g1, g2}
    Tokens = {wazeroToken}
    WAzero = wazeroToken
    Mintable = {}
    RemoteTokens = {ethToken}
    Receivers = {user}
    Amounts = {1}
    Incoming <- RewardsIncoming
    Funds <- NoFunds
    RATIO = 2
    U128 = 1000
    FeeParams <- SomeFees
    OracleAnswers <- SomeAnswers
    PocketLimits = {2}
    GasUsages = {2}
    MaxCommitteeId = 1
    MaxNonce = 2
    MaxFunding = 2
SYMMETRY Symmetry
INVARIANTS RewardsArePayable SharesAreFair

SPECIFICATION Spec
CONSTANTS
    g1 = g1
    g2 = g2
    g3 = g3
    weth = weth
    wazEth = wazEth
    wethAz = wethAz
    wazero = wazero
    user = user
    Zero = Zero
    NoAnswer = NoAnswer
    Guardians = {g1, g2, g3}
    Faulty = {g3}
    Threshold = 2
    Weth = weth
    WazEth = wazEth
    WethAz = wethAz
    Wazero = wazero
    Receivers = {user}
    Amounts = {3}
    RATIO = 2
    U128 = 1000
    WethFunds = 3
    Forged <- SomeForged
    MaxNonce = 2
CHECK_DEADLOCK FALSE
INVARIANTS NoForgedPayout EtherIsBacked AzeroIsBacked
PROPERTY EveryRequestArrives

SPECIFICATION PoolSpec
CONSTANTS
    PRECISION_MUL <- SomeMultipliers
    FEE_DENOMINATOR = 4
    MAX_FEE = 2
    MAX_ADMIN_FEE = 4
    MAX_AMPLIFICATION_COEFFICIENT = 5
    MAX_AMPLIFICATION_COEFFICIENT_CHANGE = 3
    ADMIN_ACTIONS_DELAY = 1
    MIN_RAMP_TIME = 1
    KILL_DEADLINE_DT = 2
    CoinAmounts = {0, 4}
    Shares = {3}
    MinAmounts = {0}
    MaxBurns = {4}
    Native = 1
    Fees <- SomeFees
    Coefficients = {1, 3}
    MaxHeld = 6
    MaxTime = 2
    MaxActs = 2
    Rounding = 1
INVARIANTS Solvent DIsAccurate
PROPERTIES SharesKeepTheirValue FeesAreAnnounced
CHECK_DEADLOCK FALSE

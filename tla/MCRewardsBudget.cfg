SPECIFICATION BudgetSpec
CONSTANTS
    MIN_TICK_INDEX <- MCMinTick
    MAX_TICK_INDEX <- MCMaxTick
    TICK_ARRAY_SIZE = 4
    tick_spacing = 1
    N = 2
    sqrt_price_from_tick_index <- MCPrice
    MAX_I128 = 3
    MAX_U128 = 7
    LiquiditySupply = 2
    LiquidityAmounts = {1}
    SqrtPriceLimits = {1, 3}
    Q64 = 2
    MAX_U64 = 2
    NUM_REWARDS = 1
    DAY_IN_SECONDS = 1
    MAX_TIME = 3
    Emissions = {2}
    Deposits = {1}
    WatchedReward = 0
VIEW MCView
INVARIANTS
    WithinEmissions
PROPERTIES
    ShortPaymentRemembered

SPECIFICATION RewardsSpec
CONSTANTS
    MIN_TICK_INDEX <- MCMinTick
    MAX_TICK_INDEX <- MCMaxTick
    TICK_ARRAY_SIZE = 4
    tick_spacing = 1
    N = 2
    sqrt_price_from_tick_index <- MCPrice
    MAX_I128 = 2
    MAX_U128 = 5
    LiquiditySupply = 2
    LiquidityAmounts = {1}
    SqrtPriceLimits = {1, 3}
    Q64 = 8
    MAX_U64 = 0
    NUM_REWARDS = 2
    DAY_IN_SECONDS = 1
    MAX_TIME = 3
    Emissions = {3}
    Deposits = {}
    WatchedReward = 0
VIEW MCView
INVARIANTS
    RewardsTypeOK
PROPERTIES
    RewardsAreShared

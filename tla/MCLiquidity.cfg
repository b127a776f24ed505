SPECIFICATION FairSpec
CONSTANTS
    MIN_TICK_INDEX <- MCMinTick
    MAX_TICK_INDEX = 3
    TICK_ARRAY_SIZE = 2
    tick_spacing = 2
    N = 2
    sqrt_price_from_tick_index <- MCSqrtPrice
    MAX_I128 = 3
    MAX_U128 = 7
    LiquiditySupply = 3
    LiquidityAmounts = {1, 2}
    SqrtPriceLimits = {1, 6, 7, 13}
INVARIANTS
    TypeOK ActiveLiquidity SwapActiveLiquidity TickLiquidity PriceMatchesTick
    Withdrawable CrossingSucceeds IterationsAdvance
PROPERTIES
    SwapTerminates

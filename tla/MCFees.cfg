SPECIFICATION FeesSpec
CONSTANTS
    MIN_TICK_INDEX <- MCMinTick
    MAX_TICK_INDEX <- MCMaxTick
    TICK_ARRAY_SIZE = 4
    tick_spacing = 1
    N = 2
    sqrt_price_from_tick_index <- MCPrice
    MAX_I128 = 2
    MAX_U128 = 5
    LiquiditySupply = 2
    LiquidityAmounts = {1}
    SqrtPriceLimits = {1, 3}
    Q64 = 4
    MAX_U64 = 2
    protocol_fee_rate = 1
    PROTOCOL_FEE_RATE_MUL_VALUE = 2
    FeeAmounts = {1, 2}
VIEW MCView
INVARIANTS
    FeesTypeOK FeesCovered
PROPERTIES
    FeesAreShared OwedOnlyPaid

SPECIFICATION TokensSpec
CONSTANTS
    MIN_TICK_INDEX <- MCMinTick
    MAX_TICK_INDEX <- MCMaxTick
    TICK_ARRAY_SIZE = 4
    tick_spacing = 1
    N = 2
    sqrt_price_from_tick_index <- MCPrice
    MAX_I128 = 31
    MAX_U128 = 63
    MAX_U64 = 7
    Q64 = 8
    LiquiditySupply = 31
    LiquidityAmounts = {5}
    SqrtPriceLimits = {4, 16}
    FEE_RATE_MUL_VALUE = 4
    fee_rate = 1
    SwapAmounts = {1, 2, 5}
VIEW MCView
INVARIANTS
    TokensTypeOK VaultsCoverPositions
PROPERTIES
    ImplementsLiquidity

SPECIFICATION Spec
CONSTANTS
    None = None
    Q64 = 16
    MAX_U64 = 15
    MAX_U128 = 255
    MIN_SQRT_PRICE = 11
    MAX_SQRT_PRICE = 23
    FEE_RATE_MUL_VALUE = 5
    Amounts = {1, 2, 3, 5, 7, 9, 15}
    FeeRates = {0, 1, 2}
    Liquidities = {0, 1, 5, 13, 16, 40, 100, 255}
    U64_RESOLUTION = 2
    POSITIVE <- MCPositive
    NEGATIVE <- MCNegative
    BITS = 8
    LOG_B_2 = 50
    BIT_PRECISION = 3
    LOG_B_P_ERR_MARGIN_LOWER = 26
    LOG_B_P_ERR_MARGIN_UPPER = 150
    MIN_TICK_INDEX <- MCMinTick
    MAX_TICK_INDEX = 12
    TICK_ARRAY_SIZE = 2
    tick_spacing = 4
    MAX_SWAP_TICK_ARRAYS = 3
INVARIANTS
    FurthestForInput NearestForOutput AmountSuffices PoolKeepsRounding
    QuoteExactForA WordsExact DivExact TickOfPrice QuotedArraysSuffice
CHECK_DEADLOCK FALSE

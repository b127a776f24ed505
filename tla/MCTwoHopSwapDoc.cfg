SPECIFICATION Spec
CHECK_DEADLOCK FALSE
CONSTANTS
    Pools = {"XM", "MY"}
    token_mint_a <- MCMintA
    token_mint_b <- MCMintB
    Mints = {"X", "M", "Y"}
    MIN_SQRT_PRICE = 1
    MAX_SQRT_PRICE = 3
    MAX_U64 = 2
    PoolTokens = 2
    WalletTokens = 1
    Amounts = {0, 2}
PROPERTIES
    IntermediatePassedOn

SPECIFICATION ConfigSpec
CONSTANTS
    Users = {u1, u2}
    Configs = {c1, c2}
    Mints = {1, 2}
    RewardMints = {r1}
    TickSpacings = {1}
    MAX_U16 = 2
    MAX_FEE_RATE = 1
    MAX_PROTOCOL_FEE_RATE = 1
    NUM_REWARDS = 2
    MAX_POOLS = 1
    NoAccount = NoAccount
    NoMint = NoMint
SYMMETRY MCSymmetry
INVARIANTS
    ConfigTypeOK OrderedAccounts
PROPERTIES
    OnlyAuthorities PoolsOnOfferedTerms

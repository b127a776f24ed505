SPECIFICATION CustodySpec
CONSTANTS
    Wallets = {w1, w2}
    NoWallet = NoWallet
    PositionMints = {m1}
    POSITION_BITMAP_USIZE = 2
    BITS = 2
SYMMETRY MCSymmetry
INVARIANTS
    CustodyTypeOK BitmapMatchesPositions OneKind
PROPERTIES
    OnlyBurningStrands

\* Three players, one hand: a folded player may leave before an abort.
CONSTANTS
    p1 = p1
    p2 = p2
    p3 = p3
    Players = {p1, p2, p3}
    NoPlayer = NoPlayer
    SmallBlind = 1
    BigBlind = 2
    MinBuyIn = 2
    MaxBuyIn = 3
    PlayerBond = 0
    ActionTimeoutSecs = 1
    DealerTimeoutSecs = 1
    InterHandCooldownBlocks = 1
    DeckSizes = {52}
    Funding = 3
    Amounts = {2, 3}
    Ranks = {0, 1}
    BlockSecs = {}
    MaxHands = 1
SPECIFICATION Spec
INVARIANTS
    NothingStranded

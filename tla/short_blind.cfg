\* Two players, one of them with less than a small blind.
CONSTANTS
    p1 = p1
    p2 = p2
    Players = {p1, p2}
    NoPlayer = NoPlayer
    SmallBlind = 2
    BigBlind = 2
    MinBuyIn = 1
    MaxBuyIn = 3
    PlayerBond = 2
    ActionTimeoutSecs = 1
    DealerTimeoutSecs = 1
    InterHandCooldownBlocks = 1
    DeckSizes = {52}
    Funding = 5
    Amounts = {1, 3}
    Ranks = {0}
    BlockSecs = {1}
    MaxHands = 1
SPECIFICATION FairSpec
PROPERTIES
    BettingEnds

\* Three players, one hand and the deal of the next.
CONSTANTS
    Players = {1, 2, 3}
    NoPlayer = NoPlayer
    SmallBlind = 1
    BigBlind = 2
    MinBuyIn = 2
    MaxBuyIn = 4
    PlayerBond = 2
    ActionTimeoutSecs = 1
    DealerTimeoutSecs = 1
    InterHandCooldownBlocks = 1
    DeckSizes = {52}
    Funding = 6
    Amounts = {1, 2, 3, 4}
    Ranks = {0, 1}
    BlockSecs = {1}
    MaxHands = 2
SPECIFICATION FairSpec
CONSTRAINT FirstHand
INVARIANTS
    SeatsArePersonal
    Solvent
    HandIsCoherent
    EnginePlaysAlike
    MovesAreAccepted
PROPERTIES
    OnlyMoverPays
    PayoutsAreFair
    BlindsGoRound
    BettingEnds

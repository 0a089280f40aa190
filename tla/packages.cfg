\* Every showdown of four seats with up to three chips each; every message class
\* and call; proofs over Z_3, shares over Z_5; decks of 2 to 5.
CONSTANTS
    Scenes = {"showdown", "wire", "calls", "events", "proofs", "cards", "shuffle", "simulator"}
    Dealt = {0, 3, 5, 8}
    MaxCommit = 3
    Ranks = {0, 1}
    Packs <- MCPacks
    NineCards <- MCNineCards
    None = None
    Messages <- MCMessages
    MaxEdits = 1
    Absent = Absent
    Malformed = Malformed
    Ids <- MCIds
    MaxEvents = 2
    q = 3
    Ciphertexts <- MCCiphertexts
    Order = 5
    Members = {1, 2, 3}
    CardIds = {0, 1}
    Nonces = {1, 2}
    MaxShuffles = 1
    MaxShares = 5
    DeckSizes = {2, 3, 4, 5}
    ExtraRounds = 2
    Contexts = {h1, h2}
    NoContext = NoContext
    C1s = 5
    MaxDamage = 1
    SimConfigs <- MCSimConfigs
    Raises = {3, 6}
SPECIFICATION Spec
INVARIANTS
    ShowdownIsRight
    MessagesSurvive
    SdkSpeaksChain
    ProofsProve
    PlayerReadsDealtCards
    ShuffleKeepsCards
    SimHandsAreFair
CHECK_DEADLOCK FALSE

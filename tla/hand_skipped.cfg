\* Two tables, polls in turn.
CONSTANTS
    N = 3
    Threshold = 2
    NTables = 2
    HolePos = {1}
    Boards = 1
    Excluded = {}
    Down = {}
    Keyless = {}
    MaxHands = 1
    MaxEpochs = 1
    MaxFaults = 0
SPECIFICATION Spec
CONSTRAINT PollsInTurn
INVARIANTS
    DeckShuffledByQualified
CHECK_DEADLOCK FALSE

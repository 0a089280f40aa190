\* One table, daemons interleaved freely, a member without its key, a fault, a rotated epoch.
CONSTANTS
    N = 3
    Threshold = 2
    NTables = 1
    HolePos = {1}
    Boards = 2
    Excluded = {}
    Down = {}
    Keyless = {3}
    MaxHands = 1
    MaxEpochs = 2
    MaxFaults = 1
SPECIFICATION FairSpec
INVARIANTS
    PenalisedOnce
PROPERTIES
    OnlyDebtorsSlashed
    Implements
    HandsEnd
CHECK_DEADLOCK FALSE

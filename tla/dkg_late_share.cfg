\* Three daemons that accept no plaintext reveals, polling in turn.
CONSTANTS
    Scenes = {"dkg"}
    N = 3
    Threshold = 2
    DkgVersion = 2
    CommitBlocks = 1
    ComplaintBlocks = 1
    RevealBlocks = 1
    Situations <- NobodyMisbehaves
    TimeoutCaller = FALSE
    MaxPolys = 1
    MaxEpochs = 1
    MaxFaults = 0
    Validators = {1, 2, 3}
    Default <- MCDefault
    Choices <- MCChoices
    Networks <- MCNetworks
    MaxLost = 1
    MaxAborts = 1
    MaxManual = 1
    MaxUnbonded = 1
    LastEpoch = 2
    Operators = {1, 2, 3}
    InitialTokens = {1, 6}
    PowerReduction = 2
    Faults <- MCFaults
    MaxFines = 3
    MaxTime = 4
SPECIFICATION Spec
CONSTRAINT PollsInTurn
INVARIANTS
    CuredDealersQualify
CHECK_DEADLOCK FALSE

\* A DKG with a member that is down and a fault; or one that garbles its ciphertexts.
\* The beacon with all daemons or without one, and a lost transaction.
\* Three validators of power 0 or 3, three penalties that lower it.
CONSTANTS
    Scenes = {"dkg", "beacon", "committee"}
    N = 3
    Threshold = 2
    DkgVersion = 1
    CommitBlocks = 1
    ComplaintBlocks = 1
    RevealBlocks = 1
    Situations <- OneMisbehaves
    TimeoutCaller = TRUE
    MaxPolys = 2
    MaxEpochs = 1
    MaxFaults = 1
    Validators = {1, 2, 3}
    Default <- MCDefault
    Choices <- MCChoices
    Networks <- MCNetworks
    MaxLost = 1
    MaxAborts = 1
    MaxManual = 1
    MaxUnbonded = 1
    LastEpoch = 2
    Operators = {1, 2, 3}
    InitialTokens = {1, 6}
    PowerReduction = 2
    Faults <- MCFaults
    MaxFines = 3
    MaxTime = 4
SPECIFICATION FairSpec
CONSTRAINT PollsInTurn
INVARIANTS
    FilesMatchChain
    DkgIsFair
    DrawsAreFair
    CandidatesHaveServed
    JailsNotTheLast
PROPERTIES
    ReadyDaemonFinalizes
    OnlyAbsentAreFined
    WindowIsFair
    FirstEpochBegins
CHECK_DEADLOCK FALSE

SPECIFICATION Spec
CONSTANTS
    Tokens = {a, b}
    Configs <- GuessConfigs
    OutOfBand = {}
    MultiStep = {}
    InitMaxFail = 2
    MaxFails = {}
    FailCounts = {0}
    CountMax = 0
    SuccessMax = 0
    Validity = 1
    MaxTx = 1
    MaxTime = 3
SYMMETRY TokenSymmetry
INVARIANTS
    TypeOK
    GuessesCounted
    ChallengeUsedOnce
    ReachedHasTimestamp
PROPERTY
    LockoutHolds

SPECIFICATION Spec
CONSTANTS
    Tokens = {a, b}
    Configs <- CountConfigs
    OutOfBand = {b}
    MultiStep = {a}
    InitMaxFail = 1
    MaxFails = {2}
    FailCounts = {}
    CountMax = 2
    SuccessMax = 1
    Validity = 1
    MaxTx = 2
    MaxTime = 0
INVARIANTS
    ChallengeUsedOnce
    SuccessesBounded

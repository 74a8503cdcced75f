SPECIFICATION DriftSpec
CONSTANTS
    k1 = k1
    k2 = k2
    FirstValue = 9
    LastValue = 13
    Keys <- MCKeys
    Values <- MCValues
    Totp <- MCTotpValue
    TimeStep = 2
    TimeWindow = 6
    SyncWindow = 4
    FindWindow = 3
    AutoResync = TRUE
    StartTime = 20
    MaxTime = 25
    MaxDrift = 3
PROPERTIES
    ResyncValuesFresh

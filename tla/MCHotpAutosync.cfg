SPECIFICATION AutosyncSpec
CONSTANTS
    k1 = k1
    k2 = k2
    none = none
    MaxCounter = 4
    Keys <- MCKeys
    Values <- MCValues
    Hotp <- MCHotp
    CountWindow = 1
    SyncWindow = 3
    FindWindow = 2
    SyncTimeout = 2
    AutoResync = TRUE
    MaxTime = 2
INVARIANTS
    TypeOK
    UsedBehindCount
PROPERTIES
    ImplementsOneTimeUse
    AutosyncNeedsPredecessor

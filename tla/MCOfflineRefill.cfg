SPECIFICATION OfflineSpec
CONSTANTS
    k1 = k1
    none = none
    MaxCounter = 3
    Keys <- MCKeys
    Values <- MCValues
    Hotp <- MCHotp
    CountWindow = 2
    SyncWindow = 3
    FindWindow = 1
    SyncTimeout = 1
    AutoResync = TRUE
    MaxTime = 0
    Clients = {a, b}
    Stocks = {1, 2}
SYMMETRY MachineSymmetry
CONSTRAINT Undisturbed
INVARIANTS
    OfflineTypeOK
    HandedNeverOnline
    PaidOnce
    CachesDisjoint

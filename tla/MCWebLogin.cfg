SPECIFICATION LoginFairSpec
CONSTANTS
    a = a
    Tabs <- OneTab
    Tab = a
    JwtTime = 1
    Links = {"view"}
    LogoutTimes = {0}
    MaxLogins = 1
    MaxUser = 2
    MaxPending = 4
    MaxInst = 2
    MaxTx = 2
INVARIANTS
    LoginTypeOK
    PollingHasTransaction
    OtpFieldHasTransaction
PROPERTIES
    ConfirmedPushNoticed
    ImplementsSession

SPECIFICATION FairSpec
CONSTANTS
    Tabs = {a, b}
    JwtTime = 2
    Links = {"login", "view", "edit"}
    LogoutTimes = {1, 3}
    MaxLogins = 2
    MaxPending = 2
INVARIANTS
    WebTypeOK
    SessionHasTimer
    IdleEndsBeforeJwt
    OwnToken
    ViewNeedsSession
PROPERTY
    IdleLogsOut

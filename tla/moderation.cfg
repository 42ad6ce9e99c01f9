SPECIFICATION FairModerationSpec
CONSTANTS
    None = None
    Permanent = Permanent
    NoId = 0
    Sessions <- TwoSessions
    SocketIds = {1, 2}
    Rooms = {16}
    Flags = {}
    RoomOf <- NoFlags
    AccountOf <- OneAccount
    IpOf <- OneIp
    Draw <- OwnDraw
    KickAccounts = {"a"}
    KickIps = {"ip"}
    MaxMail = 1
    Callers = {"c"}
    RoleOf <- TrialModerator
    TempBanLimit <- Roles
    MayBanForEver = {"moderator"}
    Durations = {2}
    LongestDuration = 5
INVARIANTS
    ModerationTypeOK
    BannedAreKickedUnlessMissed
PROPERTIES
    KickedSessionEnds
    GhostPlayersVanish
    NobodyWaitsForEver
CHECK_DEADLOCK FALSE

SPECIFICATION Spec
CONSTANTS
    None = None
    NoId = 0
    Sessions <- TwoSessions
    SocketIds <- TwoIds
    Rooms <- TwoRooms
    Flags = {1, 2}
    RoomOf <- FlagsInFirst
    AccountOf <- OneAccount
    IpOf <- OneIp
    Draw <- OwnDraw
    KickAccounts = {"a"}
    KickIps = {"ip"}
    MaxMail = 1
INVARIANTS
    TypeOK
    ClientLevelMatchesPlayer
    RosterMatchesPlayers
    DisconnectedIsForgotten
    OrphanClientNeverLearntItsId
    GhostPlayersAreLeaving
    DuplicateIsKicked
PROPERTIES
    FlagPassesOnlyWhenFree
    FlagIsLeftInThreeWays
CHECK_DEADLOCK FALSE

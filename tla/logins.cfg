SPECIFICATION Spec
CONSTANTS
    Browsers = {b1, b2}
    Users = {u1}
    NoUser = NoUser
    MaxAccounts = 2
    MaxSessions = 3
    MaxBans = 1
SYMMETRY Symmetry
INVARIANTS
    TypeOK
    SessionsAreAccountedFor
    BannedStayOut
PROPERTY
    AccountIsKept
CHECK_DEADLOCK FALSE

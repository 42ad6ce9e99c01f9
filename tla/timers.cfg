SPECIFICATION FairSpec
CONSTANTS
    Empty = Empty
    Positions = {here, there}
    Timeout = 2
    AfkTimeout = 5
    Every = 3
INVARIANTS
    TypeOK
    OpenIsRecent
PROPERTIES
    StillClientsLeave
CHECK_DEADLOCK FALSE

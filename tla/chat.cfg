SPECIFICATION Spec
CONSTANTS
    Accounts = {a, b}
    Kinds = {"plain", "loud"}
    Short = 1
    Few = 1
    Long = 2
    Many = 2
    MuteFor = 2
    MaxTime = 3
    MaxMessages = 5
    MaxExcuses = 1
    Forever = Forever
    Nothing = Nothing
INVARIANTS
    TypeOK
    HeardRarely
    
    MuteIsEarned
    QueryFindsNewest
SYMMETRY Symmetry
CHECK_DEADLOCK FALSE

SPECIFICATION Spec
CONSTANTS
    Moderators = {m1}
    Checkers = {c}
    Muters = {u}
    Durations = {0}
    AutoTime = 0
    Faults = TRUE
    MaxTime = 1
    MaxRows = 3
    Forever = Forever
    Nothing = Nothing
INVARIANTS
    TypeOK
    LoneWriteStands
CHECK_DEADLOCK FALSE

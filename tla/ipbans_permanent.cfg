SPECIFICATION Spec
CONSTANTS
    Checkers = {c1, c2}
    Durations = {0, 2}
    MaxTime = 4
    Forever = Forever
    NoRow = NoRow
INVARIANT
    PermanentMeansPermanent

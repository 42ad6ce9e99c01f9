SPECIFICATION FairSpec
CONSTANTS
    Empty = Empty
    Positions = {here, there}
    Timeout = 2
    AfkTimeout = 5
    Every = 3
PROPERTY
    AfkMeansStill
CHECK_DEADLOCK FALSE

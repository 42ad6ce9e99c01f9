SPECIFICATION FairSpec
CONSTANTS
    Players = {p1, p2}
    Painters = {p1}
    Looks = {red, blue}
    NoSkin = NoSkin
    MaxMail = 2
INVARIANTS
    TypeOK
    LastWordIsTheSkin
PROPERTY
    SkinArrives
CHECK_DEADLOCK FALSE

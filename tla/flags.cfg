SPECIFICATION FairSpec
CONSTANTS
    None = None
    Flag = {1, 2}
    Players = {p1, p2}
    Spots = {"home", "field"}
    HomeSpot = "home"
    MaxIdle = 3
    HomeY = 0
    Floor <- FloorHeight
    PlayerY <- Heights
    Lift = 1
    MaxY = 2
    Fall = 2
    Home = Home
    Loose = Loose
INVARIANTS
    TypeOK
    AtStartIsAtStart
PROPERTIES
    HomeOnlyWhenAged
    ImplementsLifecycle
CHECK_DEADLOCK FALSE

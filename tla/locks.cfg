SPECIFICATION LocksSpec
CONSTANTS
    Workers = {w1, w2}
    Actor = Actor
    NoOne = NoOne
    LastRoom = 2
    RoomOf <- TwoPlayers
INVARIANTS
    LocksTypeOK
    OnlyTheListDeadlocks
SYMMETRY SameWorkers
CHECK_DEADLOCK FALSE

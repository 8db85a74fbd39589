SPECIFICATION Spec
CONSTANTS
    Keys = {"Up", "Down"}
    Flipped = {}
    Vertical = {"v2"}
    AppQueueSize = 1
    MaxRpc = 1
    Locks = TRUE
    DirectDraws = TRUE
CONSTRAINT UpToTheFirstOddThing
INVARIANTS
    InputToTheLiving
    LockdownHolds
    ReleaseIsKept
    ReleaseIsOnItsWay

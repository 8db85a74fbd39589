SPECIFICATION FairSpec
CONSTANTS
    Client = {c1, c2}
    Openers = {c1, c2}
    Renamers = {c2}
    CardUsers = {c1}
    Base = {x, y}
    Volumes = {"any", "bad"}
    Node = {n1, n2}
    MaxOpens = 1
    StaleClose = FALSE
INVARIANTS
    EveryFileHasItsEntry
    WaiterIsNotForgotten
    HandleEndsForAReason
PROPERTIES
    ImplementsService
    RemovalIsNoticed

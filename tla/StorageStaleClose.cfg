SPECIFICATION Spec
CONSTANTS
    Client = {c1, c2}
    Openers = {c1, c2}
    Renamers = {}
    CardUsers = {}
    Base = {x, y}
    Volumes = {"ext", "bad"}
    Node = {n1, n2}
    MaxOpens = 2
    StaleClose = TRUE
INVARIANT
    CloseIsOwn

SPECIFICATION FairSpec
CONSTANTS
    KeyCount = 2
    DebounceTicks = 4
    QueueSize = 1
INVARIANTS
    OneOutcome
PROPERTIES
    LevelIsTold

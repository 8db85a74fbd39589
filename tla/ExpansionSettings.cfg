SPECIFICATION FairSpec
CONSTANTS
    Serial = {usart, lpuart}
    NoSerial = NoSerial
    Boot = boot
    Holders = {}
    Callers = {settings}
    QueueSize = 4
    MaxBounce = 4
INVARIANTS
    TypeOK
    DetectionFollowsState
    EveryCallIsAnsweredOnce
PROPERTIES
    ImplementsService
    CallsReturn
    ListensAgain
CHECK_DEADLOCK FALSE

SPECIFICATION Spec
CONSTANTS
    Serial = {usart, lpuart}
    NoSerial = NoSerial
    Boot = boot
    Holders = {app}
    Callers = {}
    QueueSize = 8
    MaxBounce = 6
INVARIANTS
    OffMeansReleased
    WorkerGetsItsPort
    NoStaleReport


SPECIFICATION Spec
CONSTANTS
    Port = {usart, lpuart}
    None = None
    User = {app, worker}
    QueueSize = 4
INVARIANTS
    HandleHasOneHolder
    LogFollowsSettings
    NoStaleDetection
PROPERTIES
    ImplementsPorts

SPECIFICATION Spec
CONSTANTS
    DesktopCalls = {"IsLocked", "ShowMenu", "Detached"}
    DesktopQueueSize = 2
    CliLocks = TRUE
    RpcNames = {"internal", "unknown"}
    MenuNames = {"browser"}
    DesktopNames = {"external"}
INVARIANTS
    CommandRunsAlone
    NoCheckFails
    BrowserHearsTheStop

SPECIFICATION FairSpec
CONSTANTS
    DesktopCalls = {"IsLocked", "ShowMenu", "Detached"}
    DesktopQueueSize = 2
    CliLocks = FALSE
    RpcNames = {"external"}
    MenuNames = {}
    DesktopNames = {"browser"}
PROPERTIES
    CallsReturn
    AnimationComesBack

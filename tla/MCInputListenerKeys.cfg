CONSTANTS
    Path <- MCOnePath
    DevType <- MCDevType
    KeyPanels = {}
    Hotplug = {}
    NoPath = NoPath
    Fd = {1, 2, 3}
    PipeFd = 1
    Shared = FALSE
    Unused = unused
    Found = {TRUE, FALSE}
    NoFile = 6
    MaxHeld <- MCMaxHeld
    MaxFrames = 1
    MaxPlugs = 0
    MaxCnt = 2
SPECIFICATION Spec
CHECK_DEADLOCK FALSE
INVARIANTS
    ReleasedButtonsAreReleased

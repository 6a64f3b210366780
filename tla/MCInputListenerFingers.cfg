CONSTANTS
    Path <- MCPanel
    DevType <- MCDevType
    KeyPanels = {}
    Hotplug = {}
    NoPath = NoPath
    Fd = {1, 2}
    PipeFd = 1
    Shared = FALSE
    Unused = unused
    Found = {FALSE}
    NoFile = 2
    MaxHeld <- MCMaxHeld
    MaxFrames = 1
    MaxPlugs = 0
    MaxCnt = 0
SPECIFICATION Spec
CHECK_DEADLOCK FALSE
PROPERTIES
    TouchIsPublished

CONSTANTS
    Path <- MCTwoPaths
    DevType <- MCDevType
    KeyPanels = {"panel"}
    Hotplug = {"panel", "btn"}
    NoPath = NoPath
    Fd = {1, 2, 3}
    PipeFd = 1
    Shared = FALSE
    Unused = unused
    Found = {TRUE}
    NoFile = 3
    MaxHeld <- MCMaxHeld
    MaxFrames = 1
    MaxPlugs = 4
    MaxCnt = 1
SPECIFICATION Spec
CHECK_DEADLOCK FALSE
INVARIANTS
    TypeOK
    EveryReaderIsPolled
    ReadersFollowDevices
    NoPhantomTouch
    TouchIsBacked
    PollSetIsBounded

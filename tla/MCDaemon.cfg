CONSTANTS
    Written <- MCWritten
    Initial <- MCInitial
    Pid <- MCPid
    Empty <- MCEmpty
    Untouched <- MCUntouched
    MaxEdits = 2
SPECIFICATION Spec
CHECK_DEADLOCK FALSE
INVARIANTS
    TypeOK
    NoForgottenProcess
    HandlerNeverBlocks
    FileIsWatched
    NewestIsLoaded
    WorksAsWritten
PROPERTIES
    ImplementsOneApp
    ChangesTakeEffect

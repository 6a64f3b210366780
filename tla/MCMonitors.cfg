CONSTANTS
    Cpuset <- MCCpuset
    App <- MCApp
    NoApp = NoApp
    NoWork = NoWork
    Tasks <- MCTasks
    Counts <- MCCounts
    SHORT_DELAY = 1
    LONG_DELAY = 1
    SWITCH_DELAY = 2
    MaxChanges = 2
SPECIFICATION Spec
CHECK_DEADLOCK FALSE
INVARIANTS
    TypeOK
    IgnoredIsCovered
    TopAppIsPublished
    OffscreenIsPublished
PROPERTIES
    ChangesAreHeard

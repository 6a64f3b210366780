CONSTANTS
    w1 = w1
    w2 = w2
    NoWork = none
    NumSlots = 3
    MaxTime = 3
    Work <- MCWork
SPECIFICATION Spec
INVARIANTS
    TypeOK
    TimerNotLate
    AwakeHasWork
PROPERTIES
    ImplementsWorkSlots
    EveryWorkIsTaken

CONSTANTS
    input = input
    timer = timer
    w1 = w1
    w2 = w2
    Worker = worker
    NoWork = none
    NumWorks = 2
    Caller <- MCCaller
    Work <- MCWork
SPECIFICATION Spec
INVARIANTS
    TypeOK
    NoLostWork
    NoMissedWakeup
PROPERTIES
    ImplementsWorkSlots
    EveryWorkIsTaken

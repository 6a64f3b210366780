CONSTANTS
    Event = {"touch", "topapp"}
    App <- MCTwoApps
    rules <- MCRules
    universial <- MCUniversial
    offscreen <- MCOffscreen
    Hz <- MCHz
    Unset <- MCUnset
    LowSamples = {TRUE, FALSE}
SPECIFICATION Spec
CHECK_DEADLOCK FALSE
INVARIANTS
    ReleasedScreenIsIdle

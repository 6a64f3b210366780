CONSTANTS
    Event = {"touch"}
    App <- MCApp
    rules <- MCRules
    universial <- MCUniversial
    offscreen <- MCOffscreen
    Hz <- MCHz
    Unset <- MCUnset
    LowSamples = {}
SPECIFICATION Spec
CHECK_DEADLOCK FALSE
INVARIANTS
    TouchedScreenIsActive

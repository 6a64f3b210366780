CONSTANTS
    Event = {"touch", "btn", "topapp"}
    App <- MCApp
    rules <- MCRules
    universial <- MCUniversial
    offscreen <- MCOffscreen
    Hz <- MCHz
    Unset <- MCUnset
    LowSamples = {}
SPECIFICATION Spec
CHECK_DEADLOCK FALSE
INVARIANTS
    TypeOK
    NoStuckActive
    RuleIsCurrent
PROPERTIES
    ActiveEnds

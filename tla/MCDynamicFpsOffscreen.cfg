CONSTANTS
    Event = {"offscreen"}
    App <- MCApp
    rules <- MCRules
    universial <- MCUniversial
    offscreen <- MCOffscreen
    Hz <- MCHz
    Unset <- MCUnset
    LowSamples = {}
SPECIFICATION Spec
CHECK_DEADLOCK FALSE
INVARIANTS
    OffscreenRuleApplied

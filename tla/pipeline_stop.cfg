SPECIFICATION Spec
CONSTANTS
    N = 4
    Limit = 2
    ContinueOnError = FALSE
    Journaled = TRUE
INVARIANTS
    NoPartialInput
    InFlightIsExact
    ReturnIsAllOrNothing
    LateStartsBounded
PROPERTIES
    ExecutesTheGraph

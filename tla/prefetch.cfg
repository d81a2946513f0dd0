SPECIFICATION FairSpecPrefetch
CONSTANTS
    N = 3
    Limit = 2
    ContinueOnError = TRUE
    Journaled = TRUE
    Dependants <- MCDependants
INVARIANTS
    FailureContained
    ReturnIsComplete
    OnlyDependantsAreLost
PROPERTIES
    ReturnsAnyway
    NotBehindAFile

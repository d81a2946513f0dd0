SPECIFICATION FairSpec
CONSTANTS
    MaxAttempts = 8
    Sizes <- MCSizes
    Requests <- MCRequests
INVARIANTS
    SealedIsWhole
    FailureIsEarned
PROPERTIES
    Terminates

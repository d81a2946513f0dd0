SPECIFICATION Spec
CONSTANTS
    p1 = p1
    p2 = p2
    g1 = g1
    g2 = g2
    NoGroup = NoGroup
    Publications <- MCPublications
    MaxRuns = 3
INVARIANTS
    VotesAreThoseOfRaw
    WatermarkIsEarned
CHECK_DEADLOCK FALSE

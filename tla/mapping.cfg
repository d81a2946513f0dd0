SPECIFICATION Spec
CONSTANTS
    Links = {k1, k2}
    Sessions = {s1, s2}
    MaxRevision = 2
    Scenarios <- MCScenarios
INVARIANTS
    MapIsOneCsv
    CitedIsReproducible
PROPERTIES
    FrozenIsReadOnly

SPECIFICATION Spec
CONSTANTS
    Hashed = {"scrutin"}
    MaxLoads = 1
    MaxRuns = 2
    MaxCode = 1
    MaxAside = 1
    Scenarios <- MCScenarios
INVARIANTS
    WholeSiteServed
PROPERTIES
    FreshSite
    FreshTables
    SwapIsSafe

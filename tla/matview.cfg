SPECIFICATION FairSpec
CONSTANTS
    Commands = {c1, c2}
    Tables = {"mandate"}
    Views = {"person_actif", "mandate_actif"}
    Reads <- MCReads
    Declarations <- MCDeclarations
    MaxLoads = 2
INVARIANTS
    ClaimsOnTables
    ClaimsOnViews
    CoreThenMv
PROPERTIES
    EveryRefreshEnds

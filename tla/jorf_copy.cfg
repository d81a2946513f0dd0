SPECIFICATION Spec
CONSTANTS
    Archive <- MCArchive
    Lines <- MCLines
    ActOf <- MCActOf
    Before <- MCBefore
    Workers = {w1, w2}
    TaskBuffer = 1
    RowBuffer = 1
    PoolSize = 4
    Neighbours = {other}
    Cuts <- MCCuts
    MaxFaults = 1
    MaxReadings = 2
INVARIANTS
    MergedIsTheArchive
    BlocksHaveTheirAct
PROPERTIES
    EveryReadingEnds
CHECK_DEADLOCK FALSE

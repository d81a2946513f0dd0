SPECIFICATION Spec
CONSTANTS
    Chain <- MCChain
    Crews <- MCCrews
    Limit = 4
    MinPool = 4
    ForeignKeys <- MCForeignKeys
    ErasedFirst <- MCErasedFirst
    MaxStarts <- MCMaxStarts
    CutShort <- MCCutShort
    MaxParts <- MCMaxParts
INVARIANTS
    
    
    OneWriter
    NoHiddenCycle
PROPERTIES
    EveryIngestionEnds
CHECK_DEADLOCK FALSE

SPECIFICATION BuildSpec
CONSTANTS
    Declared <- MCDeclared
    SectionNodes <- MCSectionNodes
    TopicPages <- MCTopicPages
    Requests <- MCRequests
    Limit = 2
    MaxPath = 8
INVARIANTS
    NothingIsZero
    SharedDataIsComplete
    SectionIsWhole

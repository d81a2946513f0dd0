SPECIFICATION BuildSpec
CONSTANTS
    Declared <- MCDeclared
    SectionNodes <- MCSectionNodes
    TopicPages <- MCTopicPages
    Requests <- MCWhole
    Limit = 2
    MaxPath = 8
PROPERTIES
    PagesAreWritten

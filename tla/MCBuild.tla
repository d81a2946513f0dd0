------------------------------ MODULE MCBuild ------------------------------
\* The whole graph of the site, for the whole site and for parts of it: a section
\* of one node, sections of several nodes, a topic, two sections that share data; and the
\* nine names that a topic and a section both have.
EXTENDS SiteGraph, BuildGraph

MCDeclared == buildRegistry
MCSectionNodes == sectionNodes
MCTopicPages == topicPages
MCWhole == {{}}
\* the identifiers of families (sujets.go) that sectionNodes also has
TopicsAndSections ==
    {"agriculture", "budget", "chomage", "collectivites", "dette", "jeunesse", "recherche",
     "richesse", "securite-civile"}
MCRequests ==
    {{}, {"vieillesse"}, {"retraites"}, {"fiches"}, {"recherche", "europe"},
     {"communes", "scrutin"}, {"comprendre", "vieillesse"}, {"dette", "retraites"}}
    \union {{name} : name \in TopicsAndSections}
============================================================================

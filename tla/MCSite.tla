-------------------------------- MODULE MCSite --------------------------------
EXTENDS Site

\* Everything that fails or is killed; what leaves a site out of date; a build
\* during an ingestion; what the lists of the sections do not see.
MCScenarios == {{"failure", "kill", "some"}, {"kill", "matviews", "truncated"}, {"overlap"},
                {"own", "unlisted"}}
==============================================================================

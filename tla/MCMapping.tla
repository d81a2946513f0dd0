------------------------------ MODULE MCMapping ------------------------------
EXTENDS Mapping

\* A freeze under a running ingestion; edits; everything done by hand.
MCScenarios == {{"race"}, {"edit"}, {"edit", "move", "unfreeze"}}
==============================================================================

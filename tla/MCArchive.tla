------------------------------ MODULE MCArchive ------------------------------
EXTENDS Archive, TLC

Symmetry == Permutations(Urls) \union Permutations(Contents) \union Permutations(Workers)
==============================================================================

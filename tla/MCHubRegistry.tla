---------------------------- MODULE MCHubRegistry ----------------------------
EXTENDS HubRegistry, TLC

Symmetry == Permutations(Conns) \cup Permutations(Edits)
==============================================================================

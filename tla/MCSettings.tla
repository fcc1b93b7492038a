----------------------------- MODULE MCSettings -----------------------------
EXTENDS Settings, TLC

Symmetry == Permutations(Browsers) \cup Permutations(Passwords)
=============================================================================

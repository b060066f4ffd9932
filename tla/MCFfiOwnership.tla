--------------------------- MODULE MCFfiOwnership ---------------------------
EXTENDS FfiOwnership, TLC

Symm == Permutations(Addrs) \cup Permutations(Handles)
=============================================================================

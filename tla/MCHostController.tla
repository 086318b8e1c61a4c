--------------------------- MODULE MCHostController ---------------------------
EXTENDS HostController, TLC

Symmetry == Permutations(Member)
=============================================================================

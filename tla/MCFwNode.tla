------------------------------ MODULE MCFwNode ------------------------------
EXTENDS FwNode, TLC

Symmetry == Permutations(Peers)
=============================================================================

---------------------------- MODULE MCVlanCache ----------------------------
EXTENDS VlanCache, TLC

Symmetry == Permutations(Vids) \cup Permutations(Queues)
=============================================================================

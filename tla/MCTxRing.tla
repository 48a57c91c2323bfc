------------------------------ MODULE MCTxRing ------------------------------
EXTENDS TxRing, TLC

\* Packets are interchangeable.
Symmetry == Permutations(Skbs)
=============================================================================

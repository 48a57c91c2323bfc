---------------------------- MODULE MCFlowOffload ----------------------------
EXTENDS FlowOffload, TLC

\* Entries, cookies and IPv4 tuples are interchangeable model values; slots
\* are too, the engine's hash function being unknown to the driver.
Symmetry ==
  Permutations(Entries) \cup Permutations(Cookies)
    \cup Permutations(V4Keys) \cup Permutations(Slots)
=============================================================================

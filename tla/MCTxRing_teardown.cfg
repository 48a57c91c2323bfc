CONSTANTS
  N = 5
  Reserve = 2
  Wake = 1
  Quantum = 2
  MaxFrags = 3
  MaxBurst = 2
  BqlLimit = 1
  BqlCap = 2
  Skbs = {p1, p2, p3}
  NoSkb = NoSkb
SPECIFICATION Spec
INVARIANTS
  NoStaleUnmap

CONSTANTS
  N = 4
  Reserve = 1
  Wake = 2
  Quantum = 1
  MaxFrags = 2
  MaxBurst = 2
  BqlLimit = 1
  BqlCap = 2
  Skbs = {p1, p2}
  NoSkb = NoSkb
SPECIFICATION FairSpec
PROPERTIES
  AcceptedCompletes
  StoppedWakes

CONSTANTS
  RxQs = 2
  TxQs = 2
  Budget = 2
  Quantum = 1
  MaxWork = 1
SPECIFICATION FairSpec
INVARIANTS
  MaskedWhilePolled
  NoLostEvent
  NoPollAfterRelease
PROPERTIES
  LineLostByLateUnmaskOnly
  FullQueueServed
  StopEnds

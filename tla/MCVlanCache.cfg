CONSTANTS
  Vids = {v1, v2, v3, v4, v5}
  NoVid = NoVid
  Slots = 4
  Queues = {q1, q2}
  NoQueue = NoQueue
  Depth = 2
SPECIFICATION Spec
SYMMETRY Symmetry
INVARIANTS
  OwnTag
  OneSlotPerId

CONSTANTS
  N = 4
  Budget = 2
  Pages = {g1, g2, g3, g4, g5}
  NoPage = NoPage
SPECIFICATION FairSpec
INVARIANTS
  FramesInOrder
  WritesStayInRing
  NoPageLost
PROPERTIES
  FramesTaken
  RingNeverStalls

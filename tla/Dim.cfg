SPECIFICATION FairSpec
INVARIANTS
  RegisterHoldsProfiles
PROPERTIES
  Adapts

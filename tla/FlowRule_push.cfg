CONSTANTS
  Gens = {"v1"}
  MaxActs = 2
SPECIFICATION Spec
INVARIANTS
  VlanPushCarried

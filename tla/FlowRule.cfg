CONSTANTS
  Gens = {"v1", "v2"}
  MaxActs = 3
SPECIFICATION Spec
INVARIANTS
  AuthorisesExactly
  RewriteExact
  KeyRoundTrip
  UserTagsUntouched

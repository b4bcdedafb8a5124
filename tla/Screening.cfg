SPECIFICATION Spec
CONSTANTS
  Users <- MCUsers
  IdsOf <- MCIdsOf
  Bulk = {"b1", "b2"}
  Single = {"s1"}
  Checks = {"a1"}
  UserOf <- MCUserOf
  Permits = 1
  MaxSeeds = 1
  MaxClears = 1
INVARIANTS
  ClearedHasACause
  MatchesWereIndexed
PROPERTY GathersReturn

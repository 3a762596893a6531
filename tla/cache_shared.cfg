\* Two downloads share the cache.
SPECIFICATION Spec
CONSTANTS
  Apps = {app}
  Versions = {1, 2}
  Contents = {1, 2}
  Users = {u1, u2}
  Urls = 2
  SizeLimit = 3
  TimeLimit = 0
  MaxClock = 1
  Environments <- HonestOrNot
INVARIANTS GetAuthentic 
PROPERTIES LostOnlyToNewer PurgeKeepsNewest
SYMMETRY Symmetry
CHECK_DEADLOCK FALSE

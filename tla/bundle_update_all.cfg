\* The silent client of /ua: every registered application, nobody to stop it.
SPECIFICATION Spec
CONSTANTS
  a1 = a1
  a2 = a2
  a3 = a3
  AppIds = {a1, a2, a3}
  Omaha = a1
  MaxApps = 3
  ClientCalls = {"UpdateAllApps"}
  Faults = {"network", "response", "cache", "copy", "installer",
            "network_config", "impersonation", "queue"}
INVARIANTS PolicyRespected OmahaUpdatesFirst 
SYMMETRY Symmetry
CHECK_DEADLOCK FALSE

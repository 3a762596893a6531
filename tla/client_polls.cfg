\* The client that polls a bundle of two applications, one of them Omaha, with
\* the user cancelling at any point.
SPECIFICATION InstallerSpec
CONSTANTS
  a1 = a1
  a2 = a2
  AppIds = {a1, a2}
  Omaha = a1
  MaxApps = 2
  ClientCalls = {"CreateApp", "CreateInstalledApp", "PutIsEulaAccepted",
                 "CheckForUpdate", "Install", "UpdateAllApps", "Stop"}
  Faults = {"network", "response", "cache", "copy", "preinstall", "installer",
            "network_config", "queue", "com"}
INVARIANTS  ReportTrue
PROPERTY ClientEnds
CHECK_DEADLOCK FALSE

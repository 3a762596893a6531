\* A client that installs or updates chosen applications, in any order of calls
\* and with any step failing.
SPECIFICATION Spec
CONSTANTS
  a1 = a1
  a2 = a2
  AppIds = {a1, a2}
  Omaha = a1
  MaxApps = 2
  ClientCalls = {"CreateApp", "CreateInstalledApp", "PutIsEulaAccepted",
                 "CreateAllInstalledApps",
                 "CheckForUpdate", "Download", "Install", "Pause", "Stop"}
  Faults = {"network", "response", "cache", "copy", "preinstall", "installer",
            "network_config", "impersonation"}
INVARIANTS WorkerAssertions DownloadStateOwned  InstallerRunsOnce
PROPERTIES ImplementsProtocol ImplementsLifecycle CompletesCalls StopSettles
CHECK_DEADLOCK FALSE

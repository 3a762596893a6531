\* A Stop that lands between the dispatch of App::Install and App::Installing.
SPECIFICATION Spec
CONSTANTS
  a1 = a1
  AppIds = {a1}
  Omaha = omaha
  omaha = omaha
  MaxApps = 1
  ClientCalls = {"CreateInstalledApp", "CheckForUpdate", "Install", "Stop"}
  Faults = {}
PROPERTIES InstallAppPostcondition
CHECK_DEADLOCK FALSE

\* Two bundles and a client thread over one application, with every failure.
SPECIFICATION Spec
CONSTANTS
  Workers = {w1, w2}
  Callers = {c1}
  Apps = {a1}
  MsiApps = {a1}
  MaxVersion = 2
  NumTries = 2
  MaxJobs = 2
  MaxProcs = 1
  MaxUninstalls = 1
  MaxCalls = 1
  MaxReboots = 1
  Faults = {"start", "registry", "timeout", "reboot"}
  NoOne = NoOne
  w1 = w1
  w2 = w2
  c1 = c1
  a1 = a1
INVARIANTS PreInstallDataKept ResultOfThisRun UninstallReportedOnce NeverStuck
PROPERTIES StateKeptForInstaller
SYMMETRY Symmetry
CHECK_DEADLOCK FALSE

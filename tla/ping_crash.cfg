\* Pings of four senders, with crashes and every failure.
SPECIFICATION FairSpec
CONSTANTS
  b1 = b1
  b2 = b2
  Bundles = {b1, b2}
  OemPings = {o1}
  ForgetPings = {f1}
  BundleEvents = {"update"}
  Expiry = 1
  MaxTime = 3
  MaxUpsets = 1
  Environments <- Scenarios
INVARIANTS  RetainedUnlessOverlap OkMeansSent
PROPERTIES PersistedPingsGo
CHECK_DEADLOCK FALSE

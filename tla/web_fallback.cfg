SPECIFICATION WFairSpec
CONSTANTS
  Chain <- WinHttpOnly
  Configs = 2
  NumRetries = 1
  InitialDelay = 5
  ServerErrDelay = 20
  MaxDelay = 100
  Jitter = 0
  IntMax = 2147483
  Statuses = {200, 500}
  MaxCalls = 1
  Faults = {}
  OriginalHttps = TRUE
  MaxSends = 2
  ClientFaults = {"network", "config", "parse"}
PROPERTIES RetryAfterTrusted SendReturns
CHECK_DEADLOCK FALSE

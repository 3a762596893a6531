\* Two calls on one request object, with BITS and WinHTTP, and Cancel at any
\* point.
SPECIFICATION Spec
CONSTANTS
  Chain <- BitsThenWinHttp
  Configs = 2
  NumRetries = 1
  InitialDelay = 2
  ServerErrDelay = 3
  MaxDelay = 5
  Jitter = 1
  IntMax = 20
  Statuses = {200, 403, 404, 500}
  MaxCalls = 2
  Faults = {"wait"}
INVARIANTS AtMostOneLateSend DelayInRange
PROPERTIES  ReportsFirstError
CHECK_DEADLOCK FALSE

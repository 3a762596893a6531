\* One object that downloads two times, with Cancel at any point and every
\* failure of WinHTTP, proxies and files.
SPECIFICATION Spec
CONSTANTS
  f1 = f1
  Files = {f1}
  Memory = Memory
  kMaxResendAttempts = 3
  MaxBody = 2
  MaxSends = 2
  Faults = {"session", "adapter", "file", "winhttp", "resend", "proxy", "short",
            "timeout"}
INVARIANTS  CancelEndsTransfer AnswerTrue
PROPERTY SendEnds
CHECK_DEADLOCK FALSE

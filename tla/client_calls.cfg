SPECIFICATION FairSpec
CONSTANTS
  Threads = {t1, t2}
  Requests = {r1, r2}
  QD = 1
  Calls = {"readv", "readcb"}
  VecLen = 2
  Timed = {FALSE}
  Faults = {"sendFail", "msgError", "disconnect"}
  MayShutdown = TRUE
INVARIANTS
  NoUseAfterFree
  SuspendTellsTruth
  WaitTellsTruth
PROPERTIES
  CallsReturn
  QueuedIsAnswered
  ShutdownReturns

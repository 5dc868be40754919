SPECIFICATION FairSpec
CONSTANTS
  Submitters = {t1, t2}
  Completer = Completer
  Free = Free
  NoJob = NoJob
  Jobs = {j1, j2, j3}
  FdJobs = {}
  UnalignedWrites = {}
  Depth = 1
  MaxRequestQueueSize = 0
  NumTries = 1
  BlockingModes = {TRUE}
  SubmitOutcomes = {"all", "retry"}
  IoResults = {"full"}
  MayStop = FALSE
  StopRequires = {"noSubmitter", "fdIdle", "ctxFree"}
INVARIANTS
  CtxAccounting
  BatchFits
  ReportedOnce
PROPERTIES
  QueuedIsReported
  SubmitReturns

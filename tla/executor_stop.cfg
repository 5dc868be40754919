SPECIFICATION FairSpec
CONSTANTS
  Submitters = {t1}
  Completer = Completer
  Free = Free
  NoJob = NoJob
  Jobs = {j1, j2, d1, d2}
  FdJobs = {d1, d2}
  UnalignedWrites = {d2}
  Depth = 2
  MaxRequestQueueSize = 0
  NumTries = 1
  BlockingModes = {TRUE}
  SubmitOutcomes = {"all"}
  IoResults = {"full"}
  MayStop = TRUE
  StopRequires = {"noSubmitter", "fdIdle", "ctxFree"}
INVARIANTS
  CountsExact
PROPERTIES
  ImplementsService
  QueuedIsReported
  StopReturns

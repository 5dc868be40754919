SPECIFICATION Spec
CONSTANTS
  Submitters = {t1}
  Completer = Completer
  Free = Free
  NoJob = NoJob
  Jobs = {j1}
  FdJobs = {}
  UnalignedWrites = {}
  Depth = 2
  MaxRequestQueueSize = 1
  NumTries = 1
  BlockingModes = {FALSE}
  SubmitOutcomes = {"all", "fatal"}
  IoResults = {"full"}
  MayStop = FALSE
  StopRequires = {"noSubmitter", "fdIdle", "ctxFree"}
INVARIANTS
  ReportedOnce

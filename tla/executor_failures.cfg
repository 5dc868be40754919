SPECIFICATION Spec
CONSTANTS
  Submitters = {t1, t2}
  Completer = Completer
  Free = Free
  NoJob = NoJob
  Jobs = {j1, j2, j3}
  FdJobs = {j3}
  UnalignedWrites = {j3}
  Depth = 2
  MaxRequestQueueSize = 1
  NumTries = 2
  BlockingModes = {FALSE}
  SubmitOutcomes = {"all", "retry", "part", "fatal"}
  IoResults = {"full", "short", "neg"}
  MayStop = FALSE
  StopRequires = {"noSubmitter", "fdIdle", "ctxFree"}
SYMMETRY Symmetry
INVARIANTS
  SizesExact
  NoStrandedRequest

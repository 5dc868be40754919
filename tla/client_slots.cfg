SPECIFICATION Spec
CONSTANTS
  Threads = {t1, t2}
  Requests = {r1, r2, r3}
  QD = 1
  Calls = {"read", "readv", "readcb"}
  VecLen = 2
  Timed = {FALSE, TRUE}
  Faults = {"sendFail", "badReply", "slotTimeout", "spurious"}
  MayShutdown = FALSE
SYMMETRY Symmetry
CHECK_DEADLOCK FALSE
INVARIANTS
  TypeOK
  SlotsExact
  InFlightBounded
  CompletesOnce

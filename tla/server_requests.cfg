CONSTANTS
  c1 = c1
  c2 = c2
  r1 = r1
  r2 = r2
  r3 = r3
  w1 = w1
  w2 = w2
  Conns = {c1, c2}
  Requests = {r1, r2, r3}
  Workers = {w1, w2}
  NumCores = 2
  MaxDepth = 2
  EngineDepth = 2
  Faults = {"sendFail", "dropReply", "deaf", "spurious"}
  MayShutdown = FALSE
SPECIFICATION Spec
SYMMETRY Symmetry
INVARIANTS
  OwnedOnce
  RefcountExact
  ConnectionOutlives
  PoolExact

SPECIFICATION FairSpec
CONSTANTS
  t1 = t1
  t2 = t2
  h1 = h1
  h2 = h2
  b1 = b1
  b2 = b2
  f1 = f1
  f2 = f2
  f3 = f3
  d1 = d1
  e1 = e1
  e2 = e2
  Threads = {t1, t2}
  Handles = {h1, h2}
  Batches = {b1, b2}
  Fragments = {f1, f2, f3}
  Shape <- Shapes
  ByName = {b2}
  Unaligned = {f2}
  Deletes = {d1}
  Executors = {e1, e2}
  Slot <- Slots
  Slot0 = e1
  NumFds = 4
  PipeSize = 1
  Empty = Empty
  Nothing = Nothing
INVARIANTS
  TypeOK
  DescriptorsHeld
  ClosedByOne
  BatchLive
PROPERTIES
  AcceptedIsReaped
  DestroyReturns

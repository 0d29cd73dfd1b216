SPECIFICATION Spec
CONSTANTS
  a = a
  b = b
  c = c
  d = d
  p = p
  q = q
  None = None
  Handle = {a, c}
  View = {p, q}
  Inspector = {q}
  KindOf <- CacheFile
  ViewOf <- TwoPages
  MaxConcurrentJobs = 2
  MaxTicks = 2
  Chunks = 1
CHECK_DEADLOCK FALSE
INVARIANTS NoReentrantTransfer NoLostWakeup
PROPERTIES DataNotDeferred

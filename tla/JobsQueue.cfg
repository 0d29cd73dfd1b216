SPECIFICATION Spec
CONSTANTS
  a = a
  b = b
  c = c
  d = d
  p = p
  q = q
  None = None
  Handle = {a, b, c, d}
  View = {p}
  Inspector = {}
  KindOf <- FilesRefusedData
  ViewOf <- AllOnOne
  MaxConcurrentJobs = 1
  MaxTicks = 1
  Chunks = 0
INVARIANTS RunningCount JobLimit NoLostWakeup RefsMatch OneVerdict SuccessIsTold


SPECIFICATION FairSpec
CONSTANTS
  a = a
  b = b
  c = c
  d = d
  p = p
  q = q
  None = None
  Handle = {a, c}
  View = {p, q}
  Inspector = {q}
  KindOf <- HttpFile
  ViewOf <- SamePage
  MaxConcurrentJobs = 1
  MaxTicks = 1
  Chunks = 0

PROPERTIES EveryLoadEnds

SPECIFICATION Spec
CONSTANTS
  a = a
  b = b
  c = c
  d = d
  p = p
  q = q
  None = None
  Handle = {a, c}
  View = {p, q}
  Inspector = {q}
  KindOf <- PostCustom
  ViewOf <- TwoPages
  MaxConcurrentJobs = 1
  MaxTicks = 1
  Chunks = 1
INVARIANTS TypeOK QueuedOnce HandlerBracket ViewForgotten NoneLeftCondemned
PROPERTIES CancelRespected

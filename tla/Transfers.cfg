SPECIFICATION FairSpec
CONSTANTS
  j1 = j1
  j2 = j2
  r1 = r1
  None = None
  Job = {j1, j2}
  Ref = {r1}
  Methods <- SomeMethods
  Codings <- SomeCodings
  Forms <- SomeForms
  Room = 2
  Limits = {1, 2}
  MaxRedirects = 1
INVARIANTS TypeOK CallbackAlive VerdictIsRight UploadIsWhole
PROPERTIES TransfersEnd
CHECK_DEADLOCK FALSE

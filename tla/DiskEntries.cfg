SPECIFICATION Spec
CONSTANTS
  k1 = k1
  k2 = k2
  v1 = v1
  None = None
  Torn = Torn
  Key = {k1, k2}
  Version = {v1}
  SizeOf <- OneSize
  Name = {f1, f2}
  Dir = {d1}
  Job = {j1}
  Limits <- Shrinking
  Age = {1}
  MinFileSize = 1
  MaxJobCount = 2
  MaintenanceAfter = 1
  MaxTime = 2
  MaxCalls = 1
INVARIANTS TypeOK EntriesBacked NothingLeaks
PROPERTIES InitSweeps

SPECIFICATION Spec
CONSTANTS
  a = a
  b = b
  v1 = v1
  v2 = v2
  p1 = p1
  p2 = p2
  None = None
  Absent = Absent
  Torn = Torn
  Key = {a, b}
  Value = {v1, v2}
  Path = {p1, p2}
  HeaderSize <- Sizes
  LineSize <- Lines
  Parameters <- Usages
  Default <- Plain
  Age = {0, 1}
  MaxTime = 1
  Faults = {FALSE}
PROPERTIES ComesBackIfGiven

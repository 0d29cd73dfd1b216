SPECIFICATION Spec
CONSTANTS
  s1 = s1
  s2 = s2
  None = None
  Socket = {s1, s2}
  MaxTicks = 1
  Items <- Talkative
INVARIANTS TypeOK HandleInList LetGoIsClosing ClientAlive BufferIsLost
PROPERTIES ImplementsAPI

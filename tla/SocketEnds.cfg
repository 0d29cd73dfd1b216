SPECIFICATION FairSpec
CONSTANTS
  s1 = s1
  s2 = s2
  None = None
  Socket = {s1}
  MaxTicks = 1
  Items <- Talkative
PROPERTIES CloseCarriedOut ErrorTold

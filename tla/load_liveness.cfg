SPECIFICATION FairSpec
CONSTANTS
  i1 = i1
  i2 = i2
  i3 = i3
  Intents = {i1, i2}
  MaxInFlight = 1
  ActiveAccounts = 2
  Results = {"confirmed", "panic"}
PROPERTIES
  PhaseEnds
  NoStarvation
  DrainIsMined
CHECK_DEADLOCK FALSE

SPECIFICATION TrafficSpec
CONSTANTS
  Platforms = {"linux", "windows"}
  MaxGen = 1
  NumFDs = 6
  MaxDeaths = 1
INVARIANTS
  StoppedIsGone
  OwnWhileRunning
PROPERTY
  StopReturns
CHECK_DEADLOCK FALSE

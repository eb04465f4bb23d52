SPECIFICATION FairSpec
CONSTANTS
  Platforms = {"linux"}
  MaxGen = 1
  NumFDs = 5
  MaxDeaths = 1
PROPERTY
  RequestsTakenUp
CHECK_DEADLOCK FALSE

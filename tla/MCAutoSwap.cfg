SPECIFICATION MCSpec
CONSTANTS
  e1 = e1
  e2 = e2
  e3 = e3
  IPs = {e1, e2, e3}
  Core = core
  Others = {ui}
  DropStreak = 2
  DropSeen = 1
  Throttle = 1
  MaxTurns = 2
  MaxScans = 1
  MaxMonths = 1
  MaxFaults = 1
PROPERTIES
  ForgottenForCause
  SwapsForCause
  EndsOnSurvivor
CHECK_DEADLOCK FALSE

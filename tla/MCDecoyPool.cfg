SPECIFICATION FairSpec
CONSTANTS
  d1 = d1
  d2 = d2
  Names <- MCNames
  Handlers = {h1, h2}
  Window = 4
  MinSamples = 2
  BackoffMin = 1
  BackoffMax = 2
  Scale = 1
  None = none
  MaxStreak = 3
INVARIANTS
  CooldownEarned
  FadesInHalfWindow
PROPERTIES
  EveryDecoyProbed
  BlockedDecoyCools
CHECK_DEADLOCK FALSE

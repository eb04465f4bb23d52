SPECIFICATION WSpec
CONSTANTS
  Conns = {c1, c2, c3}
  Settings <- MCSettings
  Threshold = 2
  Cases <- MCUnheardCases
  Chunk = 2
INVARIANT
  ConfirmationFailuresHeard
CHECK_DEADLOCK FALSE

SPECIFICATION Spec
CONSTANTS
  Writers = {autoSwap, webUI}
  Readers = {r1, r2}
  short = short
  long = long
  Values = {short, long}
  Size <- MCSize
  Default = long
  None = none
  Torn = torn
  MaxWrites = 3
INVARIANT
  NeverPartial
CHECK_DEADLOCK FALSE

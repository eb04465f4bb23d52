SPECIFICATION MCSpec
CONSTANTS
  Writers = {autoSwap, webUI}
  Readers = {r1, r2}
  short = short
  long = long
  Values = {short, long}
  Size <- MCSize
  Default = long
  None = none
  Torn = torn
  MaxWrites = 3
  name = name
  ip1 = ip1
  ip2 = ip2
  sni1 = sni1
  sni2 = sni2
  Hosts = {name, ip1, ip2}
  Snis = {sni1, sni2}
  Blank = blank
  Resolve <- MCResolve
  Initial <- MCInitial
  Offered <- MCOffered
  Forms <- MCForms
  Off = off
INVARIANTS
  WholeUnlessOverlapped
  ServesFile
  NormalizeSettles
  ChosenTakesEffect
PROPERTIES
  ImplementsAtomicFile
  RestartComesBack
CHECK_DEADLOCK FALSE

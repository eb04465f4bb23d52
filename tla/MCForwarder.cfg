SPECIFICATION WFairSpec
CONSTANTS
  Conns = {c1, c2}
  Settings <- MCSettings
  Threshold = 1
  Cases <- MCCases
  Chunk = 2
INVARIANTS
  EachEndpointOnce
  UpstreamReleased
  RoundRobinEven
  StreamIntact
PROPERTY
  Decided
CHECK_DEADLOCK FALSE

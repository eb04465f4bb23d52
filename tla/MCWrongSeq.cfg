SPECIFICATION FairSpec
CONSTANTS
  Conns = {c1, c2}
  Ports = {p1}
  None = none
  MaxTries = 1
  MaxInjects = 2
  MaxQueue = 1
  Talkative = {c2}
  Flaky = {c1}
INVARIANTS
  RegistryMatchesHandlers
  JudgedByOwnPackets
PROPERTIES
  ImplementsGate
  FlowSettles
CHECK_DEADLOCK FALSE

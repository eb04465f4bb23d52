SPECIFICATION JFairSpec
CONSTANTS
  start1 = start1
  start2 = start2
  stop1 = stop1
  apply1 = apply1
  test1 = test1
  kick1 = kick1
  kick2 = kick2
  scan1 = scan1
  scan2 = scan2
  Interrupt = interrupt
  Watcher = watcher
  Starts = {start1, start2}
  Stops = {stop1, interrupt, watcher}
  Ends = {interrupt, watcher}
  Applies = {apply1, test1}
  Tests = {test1}
  TestKicks = {kick1, kick2}
  ScanKicks = {scan1, scan2}
  Ports = {p1, p2}
  NumCases = 2
  Scenarios <- MCScenarios
  None = none
  MaxCores = 3
INVARIANTS
  OneCore
  CoreInHand
  AppliedTakesEffect
  JobStatusTrue
  VerdictIsOwn
  LeavesNoCore
PROPERTY
  ServiceRecovers
CHECK_DEADLOCK FALSE

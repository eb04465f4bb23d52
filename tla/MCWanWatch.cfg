SPECIFICATION WanFairSpec
CONSTANTS
  rmnet = rmnet
  wlan = wlan
  a1 = a1
  a2 = a2
  Names = {rmnet, wlan}
  Leases <- MCLeases
  Automatic = automatic
  None = None
  Interface = automatic
  Debounce = 2
  MaxChanges = 3
  MaxCritical = 1
INVARIANTS
  SwitchIsHeard
PROPERTIES
  Debounced
  SwitchRebinds

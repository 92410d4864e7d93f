CONSTANTS
  hs = hs
  ls = ls
  rpm = rpm
  fuel = fuel
  None = None
  Buses <- MCBuses
  ConfigBus = hs
  Pages = {p1, p2}
  Keys <- MCKeys
  KeysOn <- MCKeysOn
  MaxClicks = 1
  MaxLost = 0
SPECIFICATION Spec
INVARIANT
  StaleDims
CHECK_DEADLOCK FALSE

CONSTANTS
  hs = hs
  ls = ls
  rpm = rpm
  fuel = fuel
  None = None
  Buses <- MCBuses
  ConfigBus = hs
  Pages = {p1}
  Keys <- MCKeys
  KeysOn <- MCKeysOn
  MaxClicks = 2
  MaxLost = 0
SPECIFICATION Spec
INVARIANT
  CodesOfCurrentBus
CHECK_DEADLOCK FALSE

CONSTANTS
  hs = hs
  ls = ls
  rpm = rpm
  fuel = fuel
  None = None
  Buses <- MCBuses
  ConfigBus = hs
  Pages = {p1}
  Keys <- MCKeys
  KeysOn <- MCKeysOn
  MaxClicks = 2
  MaxLost = 1
SPECIFICATION FairSpec
INVARIANTS
  TypeOK
  Agreement
  StaleDims
  OnePoll
PROPERTY
  LoopSurvives
CHECK_DEADLOCK FALSE

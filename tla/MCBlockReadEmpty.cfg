CONSTANTS
  fb = fb
  fc = fc
  None = None
  IdentityBlock = fb
  ConfigBlock = fc
  Final <- MCFinal
  Base <- MCBase
  Attempts = 2
  MaxBursts = 2
  MaxLate = 0
  MaxStray = 0
SPECIFICATION Spec
INVARIANT
  NeverEmptyHanded
CHECK_DEADLOCK FALSE

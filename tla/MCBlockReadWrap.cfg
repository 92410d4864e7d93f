CONSTANTS
  fb = fb
  fc = fc
  None = None
  IdentityBlock = fb
  ConfigBlock = fc
  Final <- MCFinal
  Base <- MCBase
  Attempts = 1
  MaxBursts = 0
  MaxLate = 0
  MaxStray = 0
SPECIFICATION Spec
INVARIANT
  WholeIsClean
CHECK_DEADLOCK FALSE

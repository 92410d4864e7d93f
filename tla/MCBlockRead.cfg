CONSTANTS
  fb = fb
  fc = fc
  None = None
  IdentityBlock = fb
  ConfigBlock = fc
  Final <- MCFinal
  Base <- MCBase
  Attempts = 2
  MaxBursts = 2
  MaxLate = 1
  MaxStray = 1
SPECIFICATION Spec
INVARIANTS
  TypeOK
  CleanIsPrefix
  OwnFrames
  LongestOfBroken
  FailsOnlyUnheard
CHECK_DEADLOCK FALSE

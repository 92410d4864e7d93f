CONSTANTS
  rpm = rpm
  soot = soot
  ash = ash
  Params <- MCParams
  Trusted <- MCTrusted
  Selections <- MCBothSlow
  MissLimit = 2
  RetryEvery = 4
  SlowInterval = 3
  MaxGap = 1
  MaxEdits = 0
  MaxSkipped = 12
SPECIFICATION FairSpec
PROPERTY
  BackedOffRetried

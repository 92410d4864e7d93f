CONSTANTS
  egt = egt
  regen = regen
  ash = ash
  Params <- MCParams
  Trusted <- MCTrusted
  Selections <- MCSelections
  MissLimit = 2
  RetryEvery = 4
  SlowInterval = 3
  MaxGap = 2
  MaxEdits = 1
  MaxSkipped = 12
  Flags = {regen}
  Roles <- MCRoles
  Exact <- MCExact
  Similar <- MCSimilar
  HotFor = 2
  MaxRows = 3
SPECIFICATION TripSpec
INVARIANTS
  TripTypeOK
  TrustedRetried
  OneSlowRead
  RowsFaithful
  SlowTurn
  TripTrue
CHECK_DEADLOCK FALSE

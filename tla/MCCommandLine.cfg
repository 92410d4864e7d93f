CONSTANTS
  ecm = ecm
  cem = cem
  NoCall = NoCall
  Addresses <- MCAddresses
  Keys <- MCKeys
  Defined = {"rpm"}
  Fallback = {"rpm", "boost"}
  Identifiers <- MCIdentifiers
  Bases <- MCBases
  PendingLimit = 1
  MaxPending = 1
  Batch = 2
  IndexMod = 4
  Frames = 2
  MaxLost = 1
  MaxRepeats = 2
  Groups <- MCGroups
  Scanned <- MCScanned
  Params <- MCParams
  Blocks <- MCBlocks
  Nobody = Nobody
  CodeCounts = {2}
  Chunk = 2
  MaxChatter = 1
  MaxLate = 1
  MaxDropped = 1
  latch = latch
  motor = motor
  Senders <- MCSenders
  Width <- MCWidth
  Wants <- MCWants
  Rollover = 2
  MaxSeen = 2
  MaxGone = 1
SPECIFICATION CommandLineSpec
INVARIANTS
  TypesOK
  ShownIsTrue
  StaleOnlyAfterFailure
  AnswersWhole
  AnswersPass
  ClearedIsWiped
  ReportsOwn
  FreshFrames
  SweepAccounted
  SniffTrue
PROPERTIES
  ImplementsContract
  EveryCommandEnds

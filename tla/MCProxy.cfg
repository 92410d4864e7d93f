CONSTANTS
  t1 = t1
  t2 = t2
  cem = cem
  dim = dim
  Threads = {t1, t2}
  Channels = {1, 2}
  Writes <- MCWrites
  Answers <- MCAnswers
  Asks <- MCAsks
  Logged <- MCLogged
  Selective <- MCSelective
  Others = {"get_last_error"}
  Exports <- MCExports
  IniFiles <- MCIniFiles
  NotLoaded = NotLoaded
  Nobody = Nobody
  Everybody = Everybody
  Requested = 4
  MaxCalls = 2
  MaxOwing = 2
  Window = 3
  Pauses = {4}
  MaxFrames = 5
  MaxExtras = 1
SPECIFICATION LogsSpec
INVARIANTS
  ProxyTypeOK
  LogFaithful
  SummaryTrue
PROPERTIES
  ImplementsDriver
  CallsReturn

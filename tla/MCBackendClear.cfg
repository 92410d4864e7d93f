CONSTANTS
  hs = hs
  ls = ls
  unknown = unknown
  None = None
  Buses <- MCBuses
  ConfigBus = hs
  Requested <- MCRequested
  LinkIds = {l1, l2}
  Modules <- MCModules
  ModulesOn <- MCModulesOn
SPECIFICATION FairSpec
PROPERTY
  ClearReported

CONSTANTS
  MaxDuration = 63
  MaxSyncInterval = 16
  MinSyncInterval = 2
  ZeroTime <- MC_ZeroTime
  MaxTime = 20
SPECIFICATION Spec

PROPERTIES ChangedGetsMinimum

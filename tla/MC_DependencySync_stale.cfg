CONSTANTS
  MaxDuration = 63
  MaxSyncInterval = 6
  MinSyncInterval = 2
  ZeroTime <- MC_ZeroTime
  MaxTime = 4
  u1 = u1  npmPkg = npmPkg  goPkg = goPkg  npm = npm
  Uploads = {u1}
  Pkgs = {npmPkg, goPkg}
  Kinds = {npm}
  NoKind = NoKind
  SchemeKind <- MC_SchemeKind
  Refs <- MC_Refs
  Indexed <- MC_Indexed
  SvcKind = npm
  MaxAttempts = 2
SPECIFICATION DepSpec

PROPERTIES LastSyncNeverRegresses

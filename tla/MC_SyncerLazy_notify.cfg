CONSTANTS
  h1 = h1  s1 = s1  s2 = s2  n1 = n1  n2 = n2  p1 = p1  p2 = p2  m1 = m1  site = site
  c1 = c1  c2 = c2
  Handlers = {h1}
  Svcs = {s1}
  Names = {n1, n2}
  Specs = {p1, p2}
  Metas = {m1}
  Namespaces = {site}
  SiteNamespace = site
  NamespaceOf <- MC_NamespaceOfCloud
  CloudDefault = {s1}
  PublicOnly = {}
  Listing <- MC_ListingNone
  InitRepos <- MC_InitRepos
  IsCloud = FALSE
  SiteLimit = 2
  UserLimit = 1
  NoName = NoName
  NoSvc = NoSvc
  MaxItems = 1
  Callers = {c1}
  PublicNames = {n1, n2}
  LazySvc <- MC_LazySvcCloud
  NoCaller = NoCaller
  CanCancel = FALSE
SPECIFICATION LazySpec
CHECK_DEADLOCK FALSE
PROPERTIES NotifiedDeletedIsGone

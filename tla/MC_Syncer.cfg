CONSTANTS
  h1 = h1  h2 = h2  s1 = s1  s2 = s2  s3 = s3
  n1 = n1  n2 = n2  n3 = n3  p1 = p1  p2 = p2  p3 = p3  m1 = m1  site = site  u1 = u1
  Handlers = {h1, h2}
  Svcs = {s1, s2}
  Names = {n1, n2, n3}
  Specs = {p1, p2, p3}
  Metas = {m1}
  Namespaces = {site, u1}
  SiteNamespace = site
  NamespaceOf <- MC_NamespaceOf
  CloudDefault = {}
  PublicOnly = {s2}
  Listing <- MC_Listing
  InitRepos <- MC_InitRepos
  IsCloud = FALSE
  SiteLimit = 2
  UserLimit = 1
  NoName = NoName
  NoSvc = NoSvc
  MaxItems = 2
SPECIFICATION Spec
PROPERTIES PruneSafety

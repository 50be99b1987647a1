CONSTANTS
  u1 = u1
  u2 = u2
  a1 = a1
  light = light
  other = other
  Uuids = {u1, u2}
  Addrs = {a1}
  Names = {light, other}
  RowNames = {light}
  Times = {0, 1}
  CacheMax = 2
  None = None
  Never = Never
  PROV_AUTO_RETRY_MS = 1
  MaxTime = 1
SYMMETRY Symmetry
SPECIFICATION ShellSpec
INVARIANTS
  ShellTypeOK
  NobodyNamedIsMissed
PROPERTIES
  PassSkipsNobody

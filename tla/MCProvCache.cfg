CONSTANTS
  Uuids = {u1, u2, u3, u4}
  Addrs = {a1, a2, a3}
  Names = {n1, n2}
  Times = {0}
  CacheMax = 3
  None = None
  Never = Never
SYMMETRY Symmetry
SPECIFICATION Spec
INVARIANTS
  TypeOK
  UuidUnique
  AddrUnique
  WellFormed
  VisibleIsNamed
  IndexNamesEntry
PROPERTIES
  ListedLeavesForAReason
  CooldownSurvives
  BeaconsEvictUnnamedFirst
  ImplementsDirectory

CONSTANTS
  p = p
  q = q
  d1 = d1
  d2 = d2
  r1 = r1
  r2 = r2
  x1 = x1
  none = none
  Replica = {p, q}
  Root = {r1, r2}
  Device = {d1, d2}
  Scan = {x1}
  NoIdentity = none
  MaxSeq = 2
  MaxBundles = 2
SPECIFICATION Spec
SYMMETRY Symmetry
INVARIANTS
  TypeOK
  SnapshotsRestorable
  BundlesAccepted
  NoReissue
  SyncConverges
  RepeatedSyncIsIdle
PROPERTIES
  KnowledgeGrows

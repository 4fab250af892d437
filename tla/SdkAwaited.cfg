CONSTANTS
  c1 = c1
  c2 = c2
  c3 = c3
  c4 = c4
  r1 = r1
  r2 = r2
  d1 = d1
  d2 = d2
  none = none
  Call = {c1, c2, c3, c4}
  Root = {r1, r2}
  Device = {d1, d2}
  Object = {}
  None = none
  Ops = {"createRoot", "setActiveAk", "addDeviceKey", "revokeDeviceKey", "append", "correct", "manifest", "importBundle"}
  MaxRunning = 1
  MaxSeq = 8
  MaxFiles = 2
  MaxFaults = 1
SPECIFICATION Spec
SYMMETRY Symmetry
INVARIANTS
  TypeOK
  AllOrNothing
  ActiveCanWrite
  KnowledgeStays
PROPERTIES
  ImplementsAtomicStore
  RevokedNeverWrites
  CountersGrow

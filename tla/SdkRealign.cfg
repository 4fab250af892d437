CONSTANTS
  c1 = c1
  c2 = c2
  c3 = c3
  c4 = c4
  r1 = r1
  r2 = r2
  d1 = d1
  d2 = d2
  none = none
  Call = {c1, c2, c3, c4}
  Root = {r1}
  Device = {d1}
  Object = {}
  None = none
  Ops = {"createRoot", "setActiveAk", "addDeviceKey", "revokeDeviceKey", "append"}
  MaxRunning = 1
  MaxSeq = 8
  MaxFiles = 0
  MaxFaults = 0
SPECIFICATION Spec
SYMMETRY Symmetry
INVARIANTS
  ReducerAgrees

CONSTANTS
  c1 = c1
  c2 = c2
  c3 = c3
  c4 = c4
  r1 = r1
  o1 = o1
  none = none
  Call = {c1, c2, c3, c4}
  Root = {r1}
  Device = {}
  Object = {o1}
  None = none
  Ops = {"createRoot", "append", "correct"}
  MaxRunning = 2
  MaxSeq = 8
  MaxFiles = 0
  MaxFaults = 0
  MaxPending = 1
  Ttl = 0
  MaxTokens = 2
  MaxNow = 1
SPECIFICATION AiSpec
SYMMETRY Symmetry
INVARIANTS
  OverlapKeepsRecords
  SectionsBalance
  TokenGoodForOnce
  AppliedStays

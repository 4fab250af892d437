CONSTANTS
  r = r
  d = d
  w1 = w1
  w2 = w2
  o1 = o1
  o2 = o2
  genesis = genesis
  Author = {r, d}
  Root = r
  Op = {o1, o2}
  GenesisOp = genesis
  Kcal = {1}
  MaxSeq = 2
  MaxSum = 2
  MaxEvents = 3
  Wallet = {w1, w2}
  Holder <- TwoHolders
  MaxFaults = 0
  MaxCrashes = 0
  MaxLosses = 0
SPECIFICATION Spec
INVARIANTS
  ExportsImportable

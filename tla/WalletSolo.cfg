CONSTANTS
  r = r
  d = d
  w1 = w1
  w2 = w2
  o1 = o1
  o2 = o2
  genesis = genesis
  Author = {r, d}
  Root = r
  Op = {o1, o2}
  GenesisOp = genesis
  Kcal = {1, 2}
  MaxSeq = 2
  MaxSum = 2
  MaxEvents = 8
  Wallet = {w1}
  Holder <- OneHolder
  MaxFaults = 2
  MaxCrashes = 1
  MaxLosses = 0
SPECIFICATION FairSpec
INVARIANTS
  IInv
  TypeOK
  WriteAhead
  ReceiptsDurable
PROPERTIES
  ImplementsRegister
  ReservationsSettle

SPECIFICATION FairSpec
CONSTANTS
  c1 = c1
  c2 = c2
  s1 = s1
  o1 = o1
  o2 = o2
  None = None
  Coins <- MCCoins
  Sweeps <- MCOneSweep
  Payments <- MCTwoPayments
  Value <- MCValue
  Amount <- MCAmount
  Cases = {"unsure"}
  MaxEvents = 1
INVARIANTS
  ReorgProof
PROPERTIES
  EverythingIsDone
CHECK_DEADLOCK FALSE

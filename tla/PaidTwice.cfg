SPECIFICATION Spec
CONSTANTS
  c1 = c1
  c2 = c2
  s1 = s1
  o1 = o1
  o2 = o2
  None = None
  Coins <- MCCoins
  Sweeps = {}
  Payments <- MCTwoPayments
  Value <- MCValue
  Amount <- MCAmount
  Cases = {}
  MaxEvents = 1
INVARIANTS
  NeverPaidTwice
CHECK_DEADLOCK FALSE

SPECIFICATION FairSpec
CONSTANTS
  p = p
  q = q
  h1 = h1
  h2 = h2
  h3 = h3
  a = a
  b = b
  c = c
  None = None
  Peer = {p, q}
  Htlc = {h1, h2, h3}
  Key = {a, b, c}
  Scenarios <- MCSome
  MaxAttempts = 2
  MaxCrashes = 0
  MaxFaults = 1
PROPERTIES
  EveryHTLCResolved
  PaidIsCollected
CHECK_DEADLOCK FALSE

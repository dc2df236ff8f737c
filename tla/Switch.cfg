SPECIFICATION Spec
CONSTANTS
  p = p
  q = q
  h1 = h1
  h2 = h2
  h3 = h3
  a = a
  b = b
  c = c
  None = None
  Peer = {p, q}
  Htlc = {h1, h2, h3}
  Key = {a, b, c}
  Scenarios <- MCMost
  MaxAttempts = 2
  MaxCrashes = 1
  MaxFaults = 2
INVARIANTS
  FailedNeverSettles
  PaidInFull
  ForwardingIsCovered
  FundingIsCovered
  ForwardedOnce
PROPERTIES
  BundleStartsComplete
CHECK_DEADLOCK FALSE

SPECIFICATION Spec
CONSTANTS
  alice = alice
  bob = bob
  None = None
  Owner <- MCOwner
  Initiator = alice
  Amount <- MCAmount
  Feerates <- MCOneFeerate
  MaxAccepted = 3
  MaxHtlcs <- MCOneFromAlice
  MaxUpdates = 2
  MaxFeeUpdates = 1
  MaxDisconnects = 1
  MaxCrashes = 1
  MaxMidSaves = 0
  MaxRestores = 0
  MaxFaults = 1
INVARIANT
  UpdatesCanBeReplayed
CHECK_DEADLOCK FALSE

SPECIFICATION Spec
CONSTANTS
  alice = alice
  bob = bob
  None = None
  Owner <- MCOwner
  Initiator = alice
  Amount <- MCAmount
  Feerates <- MCFeerates
  MaxAccepted = 3
  MaxHtlcs <- MCTwoAndOne
  MaxUpdates = 2
  MaxFeeUpdates = 1
  MaxDisconnects = 0
  MaxCrashes = 1
  MaxMidSaves = 1
  MaxRestores = 0
  MaxFaults = 1
INVARIANTS
  RefusedOnlyIfLost
  NeverClosed
  OneSignedCtxPerCtn
  FulfilledOnlyIfCommitted
  EveryRemovalReported
  CommitmentCanBeReplayed
PROPERTIES
  LockedInIsForGood
  ImplementsLedger
CHECK_DEADLOCK FALSE

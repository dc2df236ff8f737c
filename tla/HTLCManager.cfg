SPECIFICATION Spec
CONSTANTS
  us = us
  them = them
  None = None
  Owner <- MCOwner
  Local = us
  Amounts = {1}
  Feerates = {1, 2}
  MaxHtlcs = 1
  MaxCtn = 3
  MaxFeeUpdates = 3
CONSTRAINT Unmixed
INVARIANTS
  FeerateIsLastInForce
  SecondImpliesBoth
  CacheHidesNothing
  CacheKeepsBalances
PROPERTIES
  IrrevocableIsForGood

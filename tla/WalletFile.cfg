SPECIFICATION Spec
CONSTANTS
  Names <- MCNames
  Objects = {o1, o2}
  Values = {v1, v2}
  None = None
  KeepReplaced = FALSE
  MaxPending = 2
  Modes = {TRUE, FALSE}
  Cases <- MCCases
  BaseSize = 1
  MaxTail = 2
INVARIANTS
  CanBeOpened
  PendingBringsUpToDate
PROPERTIES
  IsDurable

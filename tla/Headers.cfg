SPECIFICATION Spec
CONSTANTS
  Blocks <- MCBlocks
  Genesis <- MCGenesis
  PrevBlock <- MCPrevBlock
  Servers = {s1, s2}
  ChunkSize = 3
  FarFromTip = 0
  None = None
  Main = Main
  MaxQueued = 1
  MaxFaults = 1
SYMMETRY MCSymmetry
CHECK_DEADLOCK FALSE
INVARIANTS
  HeadersConnect
  HeldOnce
  LastCommonIsCommon
  FollowsItsServer
PROPERTIES
  ObjectsKeepHeaders
  BestStaysStrongest

SPECIFICATION Spec
CONSTANTS
  Addrs = {"a", "b"}
  Txs = {"t", "u", "v"}
  Foreign = {"o"}
  Inputs <- MCInputs
  Pays <- MCPays
  Blocks <- MCBlocks
  Genesis = "g"
  PrevBlock <- MCPrevBlock
  BlockTxs <- MCBlockTxs
  ChainOf <- MCChainOf
  None = None
  Rare <- MCSynced
  MaxMoves = 2
  MaxFaults = 1
CHECK_DEADLOCK FALSE
INVARIANTS
  UndoneAfterReorg

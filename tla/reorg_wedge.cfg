SPECIFICATION Spec
CONSTANTS
  swap = swap
  mint = mint
  Txs = {swap, mint}
  Undecodable = {}
  NumFilters = 2
  FilterOf <- MCFilterOf
  Depth = 2
  StartArgs <- NoArgs
  EndArgs <- NoArgs
  ReorgPoints <- BetweenBlocks
  MaxReorg = 1
  MaxReorgs = 1
  MaxHeight = 6
  MaxStarts = 1
INVARIANTS BufferRebuilt
CHECK_DEADLOCK FALSE

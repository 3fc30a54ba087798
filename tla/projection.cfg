SPECIFICATION PoolSpec
CONSTANTS
  create = create
  mint = mint
  swap = swap
  Txs = {create, mint, swap}
  Undecodable = {}
  NumFilters = 1
  FilterOf <- MCFilterOf
  FactType <- MCFactType
  Amount <- MCAmount
  LogIndex <- MCLogIndex
  Depth = 2
  StartArgs <- ReplayStarts
  EndArgs <- ReplayEnds
  ReorgPoints <- NoPoints
  MaxReorg = 0
  MaxReorgs = 0
  MaxHeight = 5
  MaxStarts = 2
INVARIANTS ProjectionIsReplay PairResolved
CHECK_DEADLOCK FALSE

SPECIFICATION PoolSpec
CONSTANTS
  create = create
  mint = mint
  swap = swap
  Txs = {create, mint, swap}
  Undecodable = {}
  NumFilters = 1
  FilterOf <- MCFilterOf
  FactType <- MCFactType
  Amount <- MCAmount
  LogIndex <- MCLogIndex
  Depth = 2
  StartArgs <- NoArgs
  EndArgs <- NoArgs
  ReorgPoints <- NoPoints
  MaxReorg = 0
  MaxReorgs = 0
  MaxHeight = 5
  MaxStarts = 2
INVARIANTS CountedAtMostOnce
CHECK_DEADLOCK FALSE

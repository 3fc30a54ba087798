SPECIFICATION FairSpec
CONSTANTS
  swap = swap
  mint = mint
  Txs = {swap, mint}
  Undecodable = {}
  NumFilters = 2
  FilterOf <- MCFilterOf
  Depth = 2
  StartArgs <- NoArgs
  EndArgs <- ToTheEnd
  ReorgPoints <- NoPoints
  MaxReorg = 0
  MaxReorgs = 0
  MaxHeight = 5
  MaxStarts = 2
PROPERTIES EventuallyFinalized RecoveryCompletes
CHECK_DEADLOCK FALSE

SPECIFICATION Spec
CONSTANTS
  swap = swap
  mint = mint
  Txs = {swap, mint}
  Undecodable = {mint}
  NumFilters = 2
  FilterOf <- MCFilterOf
  Depth = 3
  StartArgs <- NoArgs
  EndArgs <- ToTheEnd
  ReorgPoints <- ControlPoints
  MaxReorg = 2
  MaxReorgs = 1
  MaxHeight = 5
  MaxStarts = 2
INVARIANTS CheckpointIsFinal CheckpointComplete EventTimeOfBlock
PROPERTIES RecoveryKeepsCheckpoint
CHECK_DEADLOCK FALSE

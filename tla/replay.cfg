SPECIFICATION Spec
CONSTANTS
  swap = swap
  mint = mint
  Txs = {swap, mint}
  Undecodable = {}
  NumFilters = 2
  FilterOf <- MCFilterOf
  Depth = 2
  StartArgs <- ReplayStarts
  EndArgs <- ReplayEnds
  ReorgPoints <- ControlPoints
  MaxReorg = 2
  MaxReorgs = 1
  MaxHeight = 4
  MaxStarts = 2
INVARIANTS StatusMatchesCount HeaderWindow FinalizedIsCanonical
PROPERTIES ImplementsLifecycle FactHistory FinalizedOnLinkedHeaders OrphanedAboveFork FinalizedForever
CHECK_DEADLOCK FALSE

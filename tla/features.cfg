CONSTANTS
  Second = 2
  Hour = 3
  OldSnapshots <- MCOldSnapshots
  OldBars <- MCOldBars
  Readings <- MCReadings
  Backfills <- MCBackfills
  Bars <- MCBars
  Labels <- MCLabels
  Prices <- MCPrices
  InsightTypes <- MCInsightTypes
  AskedTimes = {5}
  StartTime = 3
  MaxTime = 6
  MaxWrites = 2
  MaxRuns = 2
  MaxReads = 1
SPECIFICATION Spec
INVARIANTS Traceable RerunRefreshes ZeroLeakage RowsMissNothing RankingMissesNothing
PROPERTIES RiskNeverCleared
CHECK_DEADLOCK FALSE

CONSTANTS
  Newest <- MCNewest
  Activities <- MCActivities
  Answers <- MCAnswers
  Compared <- MCCompared
  MinTrades = 10
  Selectable = 2
  Quota = 1
  Attempts = 2
  Polls = 2
  Capacity = 4
  Refill = 3
  TokenParts = 2
  Day = 1
  Interval = 1
  MaxTime = 1
  MaxChanges = 2
  MaxCrashes = 1
SPECIFICATION FairSpec
INVARIANTS QuotaHeld RateBound FailuresIsolated InsightsAreFresh RulesGraded
PROPERTIES ScansEnd
CHECK_DEADLOCK FALSE

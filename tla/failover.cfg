SPECIFICATION FairSpec
CONSTANTS
  NumProviders = 2
  Threshold = 2
  Recovery = 2
  Rate = 1
  PostBackoff <- OneBackoff
  TryBackoff <- OneBackoff
CHECK_DEADLOCK FALSE
INVARIANTS HealthMatchesFailures InPriorityOrder OneSteadyProviderIsEnough
PROPERTIES EveryRequestEnds PrimaryReturns

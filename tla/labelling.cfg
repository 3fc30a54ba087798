CONSTANTS
  Created = 0
  Windows <- MCWindows
  Thresholds <- MCThresholds
  BarLength = 2
  Offsets <- MCOffsets
  Launch <- MCLaunch
  Moves <- MCMoves
  Interval = 1
  MaxLag = 0
  MaxTime = 1
  MaxEvents = 1
  MaxRuns = 1
  MaxCrashes = 1
SPECIFICATION FairSpec
INVARIANTS RulesExclude LabelledAfterClose
PROPERTIES LabelsAreFinal EveryWindowLabelled
CHECK_DEADLOCK FALSE

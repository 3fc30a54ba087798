CONSTANTS
  Listings <- MCBackfill
  Table <- MCTable
  Limits = {1, 2}
  Bounds = {1}
SPECIFICATION Spec
INVARIANTS NothingSkipped
CHECK_DEADLOCK FALSE

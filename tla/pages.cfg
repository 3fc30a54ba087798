CONSTANTS
  Listings <- MCListings
  Table <- MCTable
  Limits = {1, 2}
  Bounds = {1, 3}
SPECIFICATION Spec
INVARIANTS OnlyTiesAreLost
PROPERTIES PagesInOrder
CHECK_DEADLOCK FALSE

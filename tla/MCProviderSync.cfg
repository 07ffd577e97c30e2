\* A cycle beside a request of an administrator, pages of one token, one failing call.
SPECIFICATION Spec
CONSTANTS
  cycle = cycle
  admin = admin
  Cycles <- OneCycle
  Admins <- OneAdmin
  MaxTokens = 2
  PageSize = 1
  Counted = TRUE
  MaxFaults = 1
INVARIANTS
  TypeOK
  IdentifiedIsOwn
PROPERTIES
  RowsKept
  CleanupTakesTheGone
  Converges
CHECK_DEADLOCK FALSE

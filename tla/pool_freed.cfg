SPECIFICATION LinkedSpec
CONSTANTS
  Workers = {w1, w2}
  Jobs = {j1}
  Owner = Owner
  None = None
  MaxFailures = 0
  Spurious = FALSE
INVARIANT FreedAfterLastAccess

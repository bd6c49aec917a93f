SPECIFICATION SharedSpec
CONSTANTS
  Workers = {w1, w2}
  Jobs = {j1, j2}
  Owner = Owner
  None = None
  MaxFailures = 0
  Spurious = FALSE
PROPERTY JobsOutliveOtherPool
CHECK_DEADLOCK FALSE

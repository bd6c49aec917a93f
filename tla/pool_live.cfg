SPECIFICATION PauseSpec
CONSTANTS
  Workers = {w1, w2}
  Jobs = {j1, j2}
  Owner = Owner
  None = None
  MaxFailures = 0
  Spurious = FALSE
  MaxPauses = 2
  Careful = TRUE
PROPERTIES WaitReturns DestroyReturns EveryJobStarts EveryJobRuns

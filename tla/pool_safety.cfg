SPECIFICATION LinkedSpec
CONSTANTS
  Workers = {w1, w2, w3}
  Jobs = {j1, j2, j3}
  Owner = Owner
  None = None
  MaxFailures = 1
  Spurious = TRUE
SYMMETRY Symmetry
INVARIANTS TypeOK JobsAccounted NoLostWakeup PostWakesWorker QuietWhenFreed IInv ListIsQueue StructsOwned
PROPERTIES WaitIsComplete ImplementsJobPool

SPECIFICATION Spec
SYMMETRY Symmetry
CONSTANTS
  Clients = {c1, c2, c3}
  Fds = {1, 2}
  Listener = Listener
  None = None
  MaxPackets = 1
  Kinds = {"request", "disconn", "short"}
  Crowded = TRUE
  Pipelined = TRUE
  Leave = TRUE
  MaxEvents = 2
  RecvMax = 1
  NumThreads = 1
  MaxJobs = 3
  Uninitialized = TRUE
  Limit = 1
  UIntRange = 16
  IndexFirst = FALSE
  Null = Null
INVARIANTS CounterInRange IInv

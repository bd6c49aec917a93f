SPECIFICATION Spec
SYMMETRY Symmetry
CONSTANTS
  Clients = {c1, c2}
  Fds = {1, 2}
  Listener = Listener
  None = None
  MaxPackets = 2
  Kinds = {"request", "disconn", "short"}
  Crowded = TRUE
  Pipelined = FALSE
  Leave = TRUE
  MaxEvents = 2
  RecvMax = 2
  NumThreads = 2
  MaxJobs = 4
  Uninitialized = FALSE
  Limit = 4
  UIntRange = 16
  IndexFirst = FALSE
  Null = Null
INVARIANT RepliesFaithful
PROPERTY NoWrongClose

SPECIFICATION FairSpec
CONSTANTS
  Clients = {c1, c2}
  Fds = {1, 2}
  Listener = Listener
  None = None
  MaxPackets = 2
  Kinds = {"request"}
  Crowded = FALSE
  Pipelined = TRUE
  Leave = FALSE
  MaxEvents = 2
  RecvMax = 1
  NumThreads = 2
  MaxJobs = 4
  Uninitialized = FALSE
  Limit = 4
  UIntRange = 16
  IndexFirst = FALSE
  Null = Null
INVARIANT NoStrandedEvent
PROPERTY RequestsAnswered

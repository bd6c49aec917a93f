SPECIFICATION Spec
CONSTANTS
  Streams <- MCStreams
  RecvBufferLen <- MCBufferLen
  UuidLen = 2
  StrayBytes = {0, 1}
  StrayOffsets <- MCOffsets
CHECK_DEADLOCK FALSE
INVARIANTS CrashHasCause ClosedForReason ExactAnswered IInv

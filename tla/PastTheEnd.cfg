\* The file ends where a buffer ends.
CONSTANTS
  None = None
  Runners <- MCRunners
  Clients = {}
  ThreadCount = 1
  QueueDepth = 1
  BufferSize = 2
  FileSize = 4
  Faults = {}
SPECIFICATION Spec
INVARIANTS FollowUpHasFileLeft
CHECK_DEADLOCK FALSE

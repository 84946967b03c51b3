\* One worker and main, on one event.
CONSTANTS
  None = None
  Runners <- MCRunners
  Clients = {}
  ThreadCount = 1
  QueueDepth = 1
  BufferSize = 2
  FileSize = 3
  Faults = {}
SPECIFICATION FairSpec
PROPERTIES Ends
CHECK_DEADLOCK FALSE

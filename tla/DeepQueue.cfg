\* More initial reads than threads.
CONSTANTS
  None = None
  Runners <- MCRunners
  Clients = {}
  ThreadCount = 1
  QueueDepth = 2
  BufferSize = 2
  FileSize = 3
  Faults = {}
SPECIFICATION Spec
INVARIANTS ResultsAreLoaded
CHECK_DEADLOCK FALSE

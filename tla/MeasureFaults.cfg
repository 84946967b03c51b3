\* Every Win32 call that can fail may fail.
CONSTANTS
  None = None
  Runners <- MCRunners
  Clients = {}
  ThreadCount = 2
  QueueDepth = 2
  BufferSize = 2
  FileSize = 5
  Faults = {"SetEvent", "ResetEvent", "Wait", "ReadFile"}
SPECIFICATION FairSpec
INVARIANTS TypeOK IndInv MainLeavesLast NoTaskAbandoned StuckHasCause StuckIsDeadlock HangInv
PROPERTIES HangsHaveCauses
CHECK_DEADLOCK FALSE

\* The default: as many initial reads as threads; two chains of two reads each.
CONSTANTS
  None = None
  Runners <- MCRunners
  Clients = {}
  ThreadCount = 2
  QueueDepth = 2
  BufferSize = 2
  FileSize = 7
  Faults = {}
SPECIFICATION FairSpec
INVARIANTS ResultsAreLoaded BuffersOutliveReads ReadsInBounds FollowUpHasFileLeft PlanInv
PROPERTIES ImplementsReadPlan EachBufferReadOnce EndsOrLosesWakeup
CHECK_DEADLOCK FALSE

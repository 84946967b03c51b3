\* Fewer initial reads than threads, in a file that ends where a buffer ends:
\* three chains share two packets, and one goes one context too far.
CONSTANTS
  None = None
  Runners <- MCRunners
  Clients = {}
  ThreadCount = 3
  QueueDepth = 2
  BufferSize = 2
  FileSize = 4
  Faults = {}
SPECIFICATION Spec
INVARIANTS PacketBalance EndsOnlyWithEnoughReads
CHECK_DEADLOCK FALSE

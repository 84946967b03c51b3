\* A DWORD of three bits, a size_t of four and a LONGLONG of five: files and
\* buffers of up to twice what a DWORD holds, and depths for which the read
\* interval wraps, or does not but makes a negative LONGLONG of the sum.
CONSTANTS
  None = None
  ThreadCounts <- MCThreadCounts
  BufferSizes <- MCBufferSizes
  QueueDepths <- MCQueueDepths
  CoreCounts = {1, 2}
  IdealSizes = {2, 4}
  FileSizes <- MCFileSizes
  Dword = 8
  SizeT = 16
  LongLong = 32
SPECIFICATION Spec
INVARIANTS TypeOK HandlesClosedOnce ContextsTileFile ChainsFollowContexts OutcomeTells HandleInv
CHECK_DEADLOCK FALSE

\* Two queues on one event, statement by statement; every event call may fail.
CONSTANTS
  None = None
  Runners = {r1, r2}
  Clients = {c1}
  Tasks = {k1, k2}
  Faults = {"SetEvent", "ResetEvent", "Wait"}
SPECIFICATION Spec
SYMMETRY MCSymmetry
INVARIANTS MutexInv OneOwner
PROPERTIES ImplementsTaskQueue ImplementsMailbox
CHECK_DEADLOCK FALSE

\* One queue, so the event is its own.
CONSTANTS
  None = None
  Runners = {r1}
  Clients = {c1, c2}
  Tasks = {k1, k2, k3}
  Faults = {}
SPECIFICATION FairSpec
INVARIANTS TypeOK NoLostWakeup Signalled
PROPERTIES PostedIsTaken ShutdownEndsLoop
CHECK_DEADLOCK FALSE

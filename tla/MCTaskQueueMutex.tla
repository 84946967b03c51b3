--------------------------- MODULE MCTaskQueueMutex ---------------------------
EXTENDS TaskQueueMutex, TLC

\* All properties of this run are safety properties, and no definition tells
\* one runner or one task from another.
MCSymmetry == Permutations(Runners) \cup Permutations(Tasks)
=============================================================================

-------------------------------- MODULE ReadPlan --------------------------------
(***************************************************************************)
(* What a measurement promises, whatever threads, queues and packets do:   *)
(* every buffer of the file is read once, from its request to its arrival, *)
(* and the results are reported when all of them have arrived.             *)
(***************************************************************************)
CONSTANTS Buffers

VARIABLES
  reading,  \* requested and not arrived
  loaded,   \* arrived
  reported

vars == <<reading, loaded, reported>>

Init ==
  /\ reading = {}
  /\ loaded = {}
  /\ reported = FALSE

Request(b) ==
  /\ ~reported
  /\ b \notin reading \cup loaded
  /\ reading' = reading \cup {b}
  /\ UNCHANGED <<loaded, reported>>

Arrive(b) ==
  /\ b \in reading
  /\ reading' = reading \ {b}
  /\ loaded' = loaded \cup {b}
  /\ UNCHANGED reported

Report ==
  /\ loaded = Buffers
  /\ reported' = TRUE
  /\ UNCHANGED <<reading, loaded>>

Next ==
  \/ \E b \in Buffers : Request(b) \/ Arrive(b)
  \/ Report

Spec == Init /\ [][Next]_vars

=============================================================================

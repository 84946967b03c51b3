----------------------------- MODULE CoreSelection -----------------------------
(***************************************************************************)
(* How many threads CreateThreadPool() makes when the command line does    *)
(* not say: GetProcessorCoreInformation walks the records of the           *)
(* processor's cores and counts them in groups, one per efficiency class   *)
(* and hyperthreading; CreateThreadPool() then picks a group.              *)
(*                                                                         *)
(* Operators named <Operation>_<Fault> are what a plausible bug would make *)
(* of the operation after them; README.md says which property each breaks. *)
(***************************************************************************)
EXTENDS Integers, Sequences, FiniteSets

CONSTANTS
  Efficiencies,  \* efficiency classes of the processor's cores
  MaxCores       \* bound: cores of the processor

ASSUME CoresAssumption == Efficiencies \subseteq Nat /\ MaxCores \in Nat

Cores == [efficiency : Efficiencies, hyperthreading : BOOLEAN]

VARIABLES
  step,      \* "walk" the records, "pick" a group, or "done"
  cores,     \* the records walked so far: what is in the Win32 buffer
  groups,    \* core_informations
  next,      \* groups inspected so far
  best,      \* max_efficiency
  count      \* max_efficiency_core_count

vars == <<step, cores, groups, next, best, count>>

TypeOK ==
  /\ step \in {"walk", "pick", "done", "failed"}
  /\ cores \in Seq(Cores)
  /\ groups \in Seq([efficiency : Efficiencies, hyperthreading : BOOLEAN, count : Nat \ {0}])
  /\ next \in 0..Len(groups)
  /\ best \in Efficiencies \cup {-1}
  /\ count \in Nat

Init ==
  /\ step = "walk"
  /\ cores = <<>>
  /\ groups = <<>>
  /\ next = 0
  /\ best = -1
  /\ count = 0

\* GetLogicalProcessorInformationEx refused; nothing has been walked yet.
QueryFails ==
  /\ step = "walk"
  /\ cores = <<>>
  /\ step' = "failed"
  /\ UNCHANGED <<cores, groups, next, best, count>>

SameGroup_EfficiencyOnly(group, core) == group.efficiency = core.efficiency

SameGroup(group, core) ==
  /\ group.efficiency = core.efficiency
  /\ group.hyperthreading = core.hyperthreading

NewGroup_Uncounted(core) ==
  [efficiency |-> core.efficiency, hyperthreading |-> core.hyperthreading, count |-> 0]

NewGroup(core) ==
  [efficiency |-> core.efficiency, hyperthreading |-> core.hyperthreading, count |-> 1]

\* One record: every group that matches is counted up; if none did, a new one.
WalkRecord(core) ==
  /\ step = "walk"
  /\ Len(cores) < MaxCores
  /\ cores' = Append(cores, core)
  /\ LET counted == [i \in DOMAIN groups |->
                       IF SameGroup(groups[i], core)
                         THEN [groups[i] EXCEPT !.count = @ + 1] ELSE groups[i]]
     IN  groups' = IF \E i \in DOMAIN groups : SameGroup(groups[i], core)
                     THEN counted
                     ELSE Append(groups, NewGroup(core))
  /\ UNCHANGED <<step, next, best, count>>

\* current_pointer has reached the end of a buffer that holds one core or more.
EndOfBuffer ==
  /\ step = "walk"
  /\ cores # <<>>
  /\ step' = "pick"
  /\ UNCHANGED <<cores, groups, next, best, count>>

Better_OrAsGood(group) == group.efficiency >= best

Better(group) == group.efficiency > best

\* One turn of CreateThreadPool's loop over the groups.
InspectGroup ==
  /\ step = "pick"
  /\ next < Len(groups)
  /\ next' = next + 1
  /\ LET group == groups[next + 1]
     IN  IF Better(group)
           THEN best' = group.efficiency /\ count' = group.count
           ELSE UNCHANGED <<best, count>>
  /\ UNCHANGED <<step, cores, groups>>

Picked ==
  /\ step = "pick"
  /\ next = Len(groups)
  /\ step' = "done"
  /\ UNCHANGED <<cores, groups, next, best, count>>

Next ==
  \/ QueryFails
  \/ \E core \in Cores : WalkRecord(core)
  \/ EndOfBuffer
  \/ InspectGroup
  \/ Picked

Spec == Init /\ [][Next]_vars

-----------------------------------------------------------------------------
CoresLike(i) ==
  {k \in DOMAIN cores : cores[k] = [efficiency |-> groups[i].efficiency,
                                    hyperthreading |-> groups[i].hyperthreading]}

BestCores ==
  {k \in DOMAIN cores : \A j \in DOMAIN cores :
                          cores[k].efficiency >= cores[j].efficiency}

FirstOfBest == CHOOSE k \in BestCores : \A j \in BestCores : k <= j

(* Every record is counted in one group, whatever order they come in: the  *)
(* groups cut the cores into disjoint parts and each knows its size.       *)
GroupsPartitionCores ==
  /\ \A i \in DOMAIN groups : groups[i].count = Cardinality(CoresLike(i))
  /\ \A i, j \in DOMAIN groups : i # j => CoresLike(i) \cap CoresLike(j) = {}
  /\ UNION {CoresLike(i) : i \in DOMAIN groups} = DOMAIN cores

(* The pool gets one thread for each core that is of the best efficiency   *)
(* class and has hyperthreading as the first such core in the buffer has;  *)
(* never none.                                                             *)
OneThreadPerCoreOfFirstBest ==
  step = "done" =>
    /\ count = Cardinality({k \in BestCores : cores[k].hyperthreading
                                                = cores[FirstOfBest].hyperthreading})
    /\ count > 0

(* ThreadPool.hpp:24: "Create as many threads as there are max efficiency  *)
(* cores".                                                                 *)
AsManyThreadsAsBestCores == step = "done" => count = Cardinality(BestCores)

-----------------------------------------------------------------------------
(* The inductive invariant.                                                *)

(* Groups are in the order of their first cores. *)
GroupsInOrder ==
  \A i \in DOMAIN groups : \E k \in CoresLike(i) :
    \A j \in DOMAIN groups : i <= j => \A l \in CoresLike(j) : k <= l

(* What the groups inspected so far have left in best and count: those of  *)
(* the first of the best among them.                                       *)
FirstBestSoFar ==
  IF next = 0
    THEN best = -1
    ELSE \E f \in 1..next :
           /\ best = groups[f].efficiency /\ count = groups[f].count
           /\ \A g \in 1..next : groups[g].efficiency <= best
           /\ \A g \in 1..f - 1 : groups[g].efficiency < best

PoolInv ==
  /\ TypeOK
  /\ GroupsPartitionCores
  /\ GroupsInOrder
  /\ FirstBestSoFar
  /\ step = "walk" => next = 0
  /\ step \in {"pick", "done"} => cores # <<>>
  /\ step = "done" => next = Len(groups)

=============================================================================

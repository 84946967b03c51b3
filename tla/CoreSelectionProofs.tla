--------------------------- MODULE CoreSelectionProofs ---------------------------
(***************************************************************************)
(* Theorems about CoreSelection, for every processor: the groups cut the   *)
(* cores into parts, in the order of their first cores, and the pool gets  *)
(* the size of the group of the first most efficient core.                 *)
(***************************************************************************)
EXTENDS CoreSelection, FiniteSetTheorems, TLAPS

Groups == [efficiency : Efficiencies, hyperthreading : BOOLEAN, count : Nat \ {0}]

(* The types, element by element. *)
LEMMA TypeFacts ==
  ASSUME TypeOK
  PROVE  /\ groups \in Seq(Groups) /\ Len(groups) \in Nat /\ DOMAIN groups = 1..Len(groups)
         /\ cores \in Seq(Cores) /\ Len(cores) \in Nat /\ DOMAIN cores = 1..Len(cores)
         /\ \A i \in DOMAIN groups : groups[i] \in Groups
         /\ \A k \in DOMAIN cores : cores[k] \in Cores
  <1>1. groups \in Seq(Groups) /\ cores \in Seq(Cores)
    BY DEF TypeOK, Groups
  <1>2. QED
    BY <1>1

(* The cores of a group are records of the buffer, finitely many. *)
LEMMA CoresLikeFinite ==
  ASSUME TypeOK, NEW i \in DOMAIN groups
  PROVE  CoresLike(i) \subseteq 1..Len(cores) /\ IsFiniteSet(CoresLike(i))
  <1>1. CoresLike(i) \subseteq 1..Len(cores)
    BY DEF CoresLike, TypeOK
  <1>2. Len(cores) \in Nat
    BY DEF TypeOK
  <1>3. IsFiniteSet(1..Len(cores))
    BY <1>2, FS_Interval
  <1>4. QED
    BY <1>1, <1>3, FS_Subset

(* A group is never empty: it was made for a core. *)
LEMMA GroupHasCore ==
  ASSUME TypeOK, GroupsPartitionCores, NEW i \in DOMAIN groups
  PROVE  CoresLike(i) # {}
  <1>1. groups[i] \in Groups
    BY TypeFacts
  <1>2. groups[i].count # 0
    BY <1>1 DEF Groups
  <1>3. groups[i].count = Cardinality(CoresLike(i))
    BY DEF GroupsPartitionCores
  <1>4. QED
    BY <1>2, <1>3, FS_EmptySet

(* No two groups are for the same kind of core. *)
LEMMA GroupsDiffer ==
  ASSUME TypeOK, GroupsPartitionCores, NEW i \in DOMAIN groups, NEW j \in DOMAIN groups,
         groups[i].efficiency = groups[j].efficiency,
         groups[i].hyperthreading = groups[j].hyperthreading
  PROVE  i = j
  <1>1. CoresLike(i) = CoresLike(j)
    BY DEF CoresLike
  <1>2. CoresLike(i) # {}
    BY GroupHasCore
  <1>3. QED
    BY <1>1, <1>2 DEF GroupsPartitionCores

-----------------------------------------------------------------------------
(* What one more record does to the cores of a group: the new core joins   *)
(* the group it fits.                                                      *)
LEMMA CoreJoins ==
  ASSUME TypeOK, NEW core \in Cores, WalkRecord(core), NEW i \in DOMAIN groups
  PROVE  /\ i \in DOMAIN groups'
         /\ groups'[i].efficiency = groups[i].efficiency
         /\ groups'[i].hyperthreading = groups[i].hyperthreading
         /\ groups'[i].count
              = groups[i].count + (IF SameGroup(groups[i], core) THEN 1 ELSE 0)
         /\ CoresLike(i)' = CoresLike(i)
              \cup (IF SameGroup(groups[i], core) THEN {Len(cores) + 1} ELSE {})
  <1> DEFINE counted == [j \in DOMAIN groups |->
                          IF SameGroup(groups[j], core)
                            THEN [groups[j] EXCEPT !.count = @ + 1] ELSE groups[j]]
  <1>1. groups \in Seq(Groups) /\ groups[i] \in Groups /\ cores \in Seq(Cores)
    BY TypeFacts
  <1>2. counted \in Seq(Groups) /\ DOMAIN counted = DOMAIN groups /\ Len(counted) = Len(groups)
    <2>1. \A j \in 1..Len(groups) : groups[j] \in Groups
      BY <1>1
    <2>2. DOMAIN groups = 1..Len(groups) /\ Len(groups) \in Nat
      BY <1>1
    <2>3. \A j \in 1..Len(groups) : counted[j] \in Groups
      <3> TAKE j \in 1..Len(groups)
      <3>1. [groups[j] EXCEPT !.count = @ + 1] \in Groups
        BY <2>1 DEF Groups
      <3>2. QED
        BY <2>1, <2>2, <3>1
    <2>4. QED
      BY <2>2, <2>3
  <1>3. groups' = counted \/ groups' = Append(groups, NewGroup(core))
    BY DEF WalkRecord
  <1>4. groups' = Append(groups, NewGroup(core)) => ~SameGroup(groups[i], core)
    <2> SUFFICES ASSUME groups' = Append(groups, NewGroup(core)), SameGroup(groups[i], core)
                 PROVE  FALSE
      OBVIOUS
    <2>1. groups' = counted
      BY DEF WalkRecord
    <2>2. Len(Append(groups, NewGroup(core))) = Len(groups) + 1
      BY <1>1
    <2>3. Len(groups) \in Nat
      BY <1>1
    <2> HIDE DEF counted
    <2>4. QED
      BY <1>2, <2>1, <2>2, <2>3
  <1>5. /\ i \in DOMAIN groups'
        /\ groups'[i].efficiency = groups[i].efficiency
        /\ groups'[i].hyperthreading = groups[i].hyperthreading
        /\ groups'[i].count
             = groups[i].count + (IF SameGroup(groups[i], core) THEN 1 ELSE 0)
    <2>1. CASE groups' = Append(groups, NewGroup(core))
      <3>1. i \in DOMAIN groups' /\ groups'[i] = groups[i]
        BY <1>1, <2>1
      <3>2. groups[i].count \in Nat
        BY <1>1 DEF Groups
      <3>3. QED
        BY <1>4, <2>1, <3>1, <3>2
    <2>2. CASE groups' = counted
      <3>1. groups'[i] = IF SameGroup(groups[i], core)
                           THEN [groups[i] EXCEPT !.count = @ + 1] ELSE groups[i]
        BY <2>2
      <3>2. i \in DOMAIN groups'
        BY <1>2, <2>2
      <3>3. QED
        BY <1>1, <3>1, <3>2 DEF Groups
    <2>3. QED
      BY <1>3, <2>1, <2>2
  <1>6. CoresLike(i)' = CoresLike(i)
              \cup (IF SameGroup(groups[i], core) THEN {Len(cores) + 1} ELSE {})
    <2> DEFINE kind == [efficiency |-> groups[i].efficiency,
                        hyperthreading |-> groups[i].hyperthreading]
    <2>1. /\ DOMAIN cores' = DOMAIN cores \cup {Len(cores) + 1}
          /\ Len(cores) + 1 \notin DOMAIN cores
          /\ \A k \in DOMAIN cores : cores'[k] = cores[k]
          /\ cores'[Len(cores) + 1] = core
      BY <1>1 DEF WalkRecord
    <2>2. core = kind <=> SameGroup(groups[i], core)
      BY DEF Cores, SameGroup
    <2>3. CoresLike(i)' = {k \in DOMAIN cores' : cores'[k] = kind}
      BY <1>5 DEF CoresLike
    <2>4. CoresLike(i) = {k \in DOMAIN cores : cores[k] = kind}
      BY DEF CoresLike
    <2> HIDE DEF kind
    <2>5. QED
      BY <2>1, <2>2, <2>3, <2>4
  <1>7. QED
    BY <1>5, <1>6

(* What it does to the groups: one that fits is counted up, or else a new  *)
(* one has the new core alone.                                             *)
LEMMA GroupsGrow ==
  ASSUME TypeOK, GroupsPartitionCores, NEW core \in Cores, WalkRecord(core)
  PROVE  \/ /\ DOMAIN groups' = DOMAIN groups
            /\ \E i \in DOMAIN groups : SameGroup(groups[i], core)
         \/ /\ DOMAIN groups' = DOMAIN groups \cup {Len(groups) + 1}
            /\ \A i \in DOMAIN groups : ~SameGroup(groups[i], core)
            /\ \E m \in Nat : /\ m = Len(groups) + 1
                             /\ groups'[m] = NewGroup(core)
                             /\ CoresLike(m)' = {Len(cores) + 1}
  <1>1. groups \in Seq(Groups) /\ cores \in Seq(Cores)
    BY TypeFacts
  <1>2. CASE \E i \in DOMAIN groups : SameGroup(groups[i], core)
    <2>1. groups' = [j \in DOMAIN groups |->
                       IF SameGroup(groups[j], core)
                         THEN [groups[j] EXCEPT !.count = @ + 1] ELSE groups[j]]
      BY <1>2 DEF WalkRecord
    <2>2. QED
      BY <1>2, <2>1
  <1>3. CASE ~\E i \in DOMAIN groups : SameGroup(groups[i], core)
    <2>1. groups' = Append(groups, NewGroup(core))
      BY <1>3 DEF WalkRecord
    <2>2. PICK m \in Nat : m = Len(groups) + 1
      BY <1>1
    <2>3. /\ DOMAIN groups' = DOMAIN groups \cup {m}
          /\ groups'[m] = NewGroup(core)
      BY <1>1, <2>1, <2>2
    <2>4. CoresLike(m)' = {k \in DOMAIN cores' : cores'[k] = core}
      <3>1. [efficiency |-> groups'[m].efficiency, hyperthreading |-> groups'[m].hyperthreading]
              = core
        BY <2>3 DEF NewGroup, Cores
      <3>2. QED
        BY <3>1 DEF CoresLike
    <2>5. /\ DOMAIN cores' = DOMAIN cores \cup {Len(cores) + 1}
          /\ \A k \in DOMAIN cores : cores'[k] = cores[k]
          /\ cores'[Len(cores) + 1] = core
      BY <1>1 DEF WalkRecord
    <2>6. \A k \in DOMAIN cores : cores[k] # core
      <3> SUFFICES ASSUME NEW k \in DOMAIN cores, cores[k] = core
                   PROVE  FALSE
        OBVIOUS
      <3>1. PICK i \in DOMAIN groups : k \in CoresLike(i)
        BY DEF GroupsPartitionCores
      <3>2. SameGroup(groups[i], core)
        BY <3>1 DEF CoresLike, SameGroup
      <3>3. QED
        BY <1>3, <3>2
    <2>7. QED
      BY <1>3, <2>2, <2>3, <2>4, <2>5, <2>6
  <1>4. QED
    BY <1>2, <1>3

-----------------------------------------------------------------------------
(* The types survive one more record. *)
LEMMA WalkTypes ==
  ASSUME CoresAssumption, TypeOK, NEW core \in Cores, WalkRecord(core), next = 0
  PROVE  TypeOK'
  <1>1. groups \in Seq(Groups) /\ cores \in Seq(Cores)
    BY DEF TypeOK, Groups
  <1>2. cores' \in Seq(Cores)
    BY <1>1 DEF WalkRecord
  <1>3. groups' \in Seq(Groups) /\ Len(groups') \in Nat
    <2>1. \A j \in 1..Len(groups) : groups[j] \in Groups
      BY <1>1
    <2>2. CASE \E i \in DOMAIN groups : SameGroup(groups[i], core)
      <3>1. groups' = [j \in DOMAIN groups |->
                         IF SameGroup(groups[j], core)
                           THEN [groups[j] EXCEPT !.count = @ + 1] ELSE groups[j]]
        BY <2>2 DEF WalkRecord
      <3>2. DOMAIN groups = 1..Len(groups) /\ Len(groups) \in Nat
        BY <1>1
      <3>3. \A j \in 1..Len(groups) : groups'[j] \in Groups
        BY <2>1, <3>1, <3>2 DEF Groups
      <3>4. QED
        BY <3>1, <3>2, <3>3
    <2>3. CASE ~\E i \in DOMAIN groups : SameGroup(groups[i], core)
      <3>1. NewGroup(core) \in Groups
        BY DEF NewGroup, Groups, Cores
      <3>2. groups' = Append(groups, NewGroup(core))
        BY <2>3 DEF WalkRecord
      <3>3. QED
        BY <1>1, <3>1, <3>2
    <2>4. QED
      BY <2>2, <2>3
  <1>4. next' = 0 /\ step' = step /\ best' = best /\ count' = count
    BY DEF WalkRecord
  <1>5. next' \in 0..Len(groups')
    BY <1>3, <1>4
  <1>6. QED
    BY <1>2, <1>3, <1>4, <1>5 DEF TypeOK, Groups

(* So does the partition. *)
LEMMA WalkPartition ==
  ASSUME TypeOK, GroupsPartitionCores, NEW core \in Cores, WalkRecord(core)
  PROVE  GroupsPartitionCores'
  <1> DEFINE n == Len(cores) + 1
  <1>1. groups \in Seq(Groups) /\ cores \in Seq(Cores)
    BY DEF TypeOK, Groups
  <1>2. DOMAIN cores' = DOMAIN cores \cup {n} /\ n \notin DOMAIN cores
    BY <1>1 DEF WalkRecord
  <1>3. Len(groups) + 1 \notin DOMAIN groups
    BY <1>1
  <1>4. \A i \in DOMAIN groups : n \notin CoresLike(i) /\ CoresLike(i) \subseteq DOMAIN cores
    BY <1>2 DEF CoresLike
  <1>5. \A i \in DOMAIN groups : groups'[i].count = Cardinality(CoresLike(i)')
    <2> TAKE i \in DOMAIN groups
    <2>1. groups[i].count = Cardinality(CoresLike(i)) /\ IsFiniteSet(CoresLike(i))
      BY CoresLikeFinite DEF GroupsPartitionCores
    <2>2. CASE SameGroup(groups[i], core)
      <3>1. CoresLike(i)' = CoresLike(i) \cup {n} /\ groups'[i].count = groups[i].count + 1
        BY <2>2, CoreJoins
      <3>2. Cardinality(CoresLike(i) \cup {n}) = Cardinality(CoresLike(i)) + 1
        BY <1>4, <2>1, FS_AddElement
      <3>3. QED
        BY <2>1, <3>1, <3>2
    <2>3. CASE ~SameGroup(groups[i], core)
      <3>1. CoresLike(i)' = CoresLike(i)
        BY <2>3, CoreJoins
      <3>2. groups'[i].count = groups[i].count + 0
        BY <2>3, CoreJoins
      <3>3. groups[i].count \in Nat
        BY TypeFacts DEF Groups
      <3>4. QED
        BY <2>1, <3>1, <3>2, <3>3
    <2>4. QED
      BY <2>2, <2>3
  <1>6. \A i, j \in DOMAIN groups : i # j => CoresLike(i)' \cap CoresLike(j)' = {}
    <2> SUFFICES ASSUME NEW i \in DOMAIN groups, NEW j \in DOMAIN groups, i # j
                 PROVE  CoresLike(i)' \cap CoresLike(j)' = {}
      OBVIOUS
    <2>1. CoresLike(i) \cap CoresLike(j) = {}
      BY DEF GroupsPartitionCores
    <2>2. ~(SameGroup(groups[i], core) /\ SameGroup(groups[j], core))
      BY GroupsDiffer DEF SameGroup
    <2>3. /\ CoresLike(i)' = CoresLike(i) \cup (IF SameGroup(groups[i], core) THEN {n} ELSE {})
          /\ CoresLike(j)' = CoresLike(j) \cup (IF SameGroup(groups[j], core) THEN {n} ELSE {})
      BY CoreJoins
    <2> HIDE DEF n
    <2>4. QED
      BY <1>4, <2>1, <2>2, <2>3
  <1>7. \A i \in DOMAIN groups : CoresLike(i)' \subseteq DOMAIN cores'
    BY <1>2, <1>4, CoreJoins
  <1>8. \A k \in DOMAIN cores : \E i \in DOMAIN groups : k \in CoresLike(i)'
    <2> TAKE k \in DOMAIN cores
    <2>1. PICK i \in DOMAIN groups : k \in CoresLike(i)
      BY DEF GroupsPartitionCores
    <2>2. k \in CoresLike(i)'
      BY <2>1, CoreJoins
    <2>3. QED
      BY <2>2
  <1>9. CASE /\ DOMAIN groups' = DOMAIN groups
             /\ \E i \in DOMAIN groups : SameGroup(groups[i], core)
    <2>1. \E i \in DOMAIN groups : n \in CoresLike(i)'
      BY <1>9, CoreJoins
    <2>2. UNION {CoresLike(i)' : i \in DOMAIN groups'} = DOMAIN cores'
      BY <1>2, <1>7, <1>8, <1>9, <2>1
    <2>3. QED
      BY <1>5, <1>6, <1>9, <2>2 DEF GroupsPartitionCores
  <1>10. ASSUME NEW m \in Nat, m = Len(groups) + 1,
                DOMAIN groups' = DOMAIN groups \cup {m},
                \A i \in DOMAIN groups : ~SameGroup(groups[i], core),
                groups'[m] = NewGroup(core),
                CoresLike(m)' = {n}
         PROVE  GroupsPartitionCores'
    <2>1. groups'[m].count = 1 /\ Cardinality(CoresLike(m)') = 1
      <3>1. groups'[m].count = 1
        BY <1>10 DEF NewGroup
      <3>2. Cardinality(CoresLike(m)') = 1
        BY <1>10, FS_Singleton
      <3>3. QED
        BY <3>1, <3>2
    <2>2. \A i \in DOMAIN groups : n \notin CoresLike(i)'
      BY <1>4, <1>10, CoreJoins
    <2>3. \A i, j \in DOMAIN groups' : i # j => CoresLike(i)' \cap CoresLike(j)' = {}
      BY <1>6, <1>10, <2>2
    <2>4. UNION {CoresLike(i)' : i \in DOMAIN groups'} = DOMAIN cores'
      BY <1>2, <1>7, <1>8, <1>10
    <2>5. \A i \in DOMAIN groups' : groups'[i].count = Cardinality(CoresLike(i)')
      BY <1>5, <1>10, <2>1
    <2>6. QED
      BY <2>3, <2>4, <2>5 DEF GroupsPartitionCores
  <1>11. QED
    BY <1>9, <1>10, GroupsGrow

(* And so does the order of the groups. *)
LEMMA WalkOrder ==
  ASSUME TypeOK, GroupsPartitionCores, GroupsInOrder, NEW core \in Cores, WalkRecord(core)
  PROVE  GroupsInOrder'
  <1> DEFINE n == Len(cores) + 1
  <1>1. /\ Len(cores) \in Nat /\ DOMAIN cores = 1..Len(cores)
        /\ Len(groups) \in Nat /\ DOMAIN groups = 1..Len(groups)
    BY DEF TypeOK
  <1>2. \A i \in DOMAIN groups : CoresLike(i) \subseteq 1..Len(cores)
    BY CoresLikeFinite
  <1>3. \A i \in DOMAIN groups : CoresLike(i)' \subseteq CoresLike(i) \cup {n}
                                 /\ CoresLike(i) \subseteq CoresLike(i)'
    BY CoreJoins
  <1>4. \A i \in DOMAIN groups : \E k \in CoresLike(i)' :
          /\ k <= n
          /\ \A j \in DOMAIN groups : i <= j => \A l \in CoresLike(j)' : k <= l
    <2> TAKE i \in DOMAIN groups
    <2>1. PICK k \in CoresLike(i) :
            \A j \in DOMAIN groups : i <= j => \A l \in CoresLike(j) : k <= l
      BY DEF GroupsInOrder
    <2>2. k <= n
      BY <1>1, <1>2, <2>1
    <2>3. \A j \in DOMAIN groups : i <= j => \A l \in CoresLike(j)' : k <= l
      BY <1>3, <2>1, <2>2
    <2>4. QED
      BY <1>3, <2>2, <2>3
  <1>5. CASE DOMAIN groups' = DOMAIN groups
    BY <1>4, <1>5 DEF GroupsInOrder
  <1>6. ASSUME NEW m \in Nat, m = Len(groups) + 1,
               DOMAIN groups' = DOMAIN groups \cup {m}, CoresLike(m)' = {n}
        PROVE  GroupsInOrder'
    <2>1. \A j \in DOMAIN groups' : m <= j => \A l \in CoresLike(j)' : n <= l
      <3> SUFFICES ASSUME NEW j \in DOMAIN groups', m <= j
                   PROVE  \A l \in CoresLike(j)' : n <= l
        OBVIOUS
      <3>1. j = m
        BY <1>1, <1>6
      <3>2. QED
        BY <1>1, <1>6, <3>1
    <2>2. \A i \in DOMAIN groups : \E k \in CoresLike(i)' :
            \A j \in DOMAIN groups' : i <= j => \A l \in CoresLike(j)' : k <= l
      BY <1>4, <1>6
    <2>3. \E k \in CoresLike(m)' :
            \A j \in DOMAIN groups' : m <= j => \A l \in CoresLike(j)' : k <= l
      BY <1>6, <2>1
    <2>4. QED
      BY <1>6, <2>2, <2>3 DEF GroupsInOrder
  <1>7. QED
    BY <1>5, <1>6, GroupsGrow

(* One more group inspected: the first best among one more. *)
LEMMA InspectStep ==
  ASSUME CoresAssumption, TypeOK, FirstBestSoFar, InspectGroup
  PROVE  best' \in Efficiencies /\ count' \in Nat /\ FirstBestSoFar'
  <1> DEFINE group == groups[next + 1]
  <1>1. /\ next \in Nat /\ next < Len(groups) /\ Len(groups) \in Nat
        /\ next' = next + 1 /\ groups' = groups
    BY DEF TypeOK, InspectGroup
  <1>2. \A g \in 1..Len(groups) : groups[g] \in Groups
    BY TypeFacts
  <1>3. \A g \in 1..Len(groups) : groups[g].efficiency \in Nat /\ groups[g].count \in Nat
                                  /\ groups[g].efficiency \in Efficiencies
    BY <1>2, CoresAssumption DEF Groups, CoresAssumption
  <1>4. next + 1 \in 1..Len(groups)
    BY <1>1
  <1>5. best \in Int
    BY CoresAssumption DEF TypeOK, CoresAssumption
  <1>6. \A g \in 1..next : groups[g].efficiency <= best
    BY <1>1 DEF FirstBestSoFar
  <1>7. CASE Better(group)
    <2>1. best' = group.efficiency /\ count' = group.count /\ group.efficiency > best
      BY <1>7 DEF InspectGroup, Better
    <2>2. \A g \in 1..next : groups[g].efficiency < best'
      BY <1>1, <1>3, <1>4, <1>5, <1>6, <2>1
    <2>3. \A g \in 1..next' : groups[g].efficiency <= best'
      BY <1>1, <1>3, <1>4, <2>1, <2>2
    <2>4. next' # 0 /\ next' \in 1..next' /\ next' - 1 = next
      BY <1>1
    <2>5. best' = groups'[next'].efficiency /\ count' = groups'[next'].count
      BY <1>1, <2>1
    <2>6. FirstBestSoFar'
      BY <1>1, <2>2, <2>3, <2>4, <2>5 DEF FirstBestSoFar
    <2>7. QED
      BY <1>3, <1>4, <2>1, <2>6
  <1>8. CASE ~Better(group)
    <2>1. best' = best /\ count' = count /\ ~(group.efficiency > best)
      BY <1>8 DEF InspectGroup, Better
    <2>2. group.efficiency <= best
      BY <1>3, <1>4, <1>5, <2>1
    <2>3. next # 0
      BY <1>3, <1>4, <2>2 DEF FirstBestSoFar
    <2>4. PICK f \in 1..next :
            /\ best = groups[f].efficiency /\ count = groups[f].count
            /\ \A g \in 1..next : groups[g].efficiency <= best
            /\ \A g \in 1..f - 1 : groups[g].efficiency < best
      BY <2>3 DEF FirstBestSoFar
    <2>5. f \in 1..next' /\ next' # 0 /\ f \in 1..Len(groups)
      BY <1>1, <2>4
    <2>6. \A g \in 1..next' : groups[g].efficiency <= best
      BY <1>1, <2>2, <2>4
    <2>7. FirstBestSoFar'
      BY <1>1, <2>1, <2>4, <2>5, <2>6 DEF FirstBestSoFar
    <2>8. QED
      BY <1>3, <2>1, <2>4, <2>5, <2>7
  <1>9. QED
    BY <1>7, <1>8

-----------------------------------------------------------------------------
(* The invariant holds of the empty buffer. *)
LEMMA PoolInit == Init => PoolInv
  <1> SUFFICES ASSUME Init
               PROVE  PoolInv
    OBVIOUS
  <1>1. TypeOK
    BY DEF Init, TypeOK
  <1>2. DOMAIN groups = {} /\ DOMAIN cores = {}
    BY DEF Init
  <1>3. GroupsPartitionCores /\ GroupsInOrder
    BY <1>2 DEF GroupsPartitionCores, GroupsInOrder
  <1>4. FirstBestSoFar
    BY DEF Init, FirstBestSoFar
  <1>5. QED
    BY <1>1, <1>3, <1>4 DEF PoolInv, Init

(* A step that leaves the cores and the groups alone. *)
LEMMA SameGroups ==
  ASSUME GroupsPartitionCores, GroupsInOrder, UNCHANGED <<cores, groups>>
  PROVE  GroupsPartitionCores' /\ GroupsInOrder'
  BY DEF GroupsPartitionCores, GroupsInOrder, CoresLike

(* Every step keeps the invariant. *)
LEMMA PoolStep == CoresAssumption /\ PoolInv /\ [Next]_vars => PoolInv'
  <1> SUFFICES ASSUME CoresAssumption, PoolInv, [Next]_vars
               PROVE  PoolInv'
    OBVIOUS
  <1> USE DEF PoolInv
  <1>1. CASE QueryFails
    <2>1. TypeOK' /\ FirstBestSoFar'
      BY <1>1 DEF QueryFails, TypeOK, FirstBestSoFar
    <2>2. QED
      BY <1>1, <2>1, SameGroups DEF QueryFails
  <1>2. ASSUME NEW core \in Cores, WalkRecord(core)
        PROVE  PoolInv'
    <2>1. step = "walk" /\ next = 0 /\ UNCHANGED <<step, next, best, count>>
      BY <1>2 DEF WalkRecord
    <2>2. TypeOK'
      BY <1>2, <2>1, WalkTypes
    <2>3. GroupsPartitionCores' /\ GroupsInOrder'
      BY <1>2, WalkPartition, WalkOrder
    <2>4. FirstBestSoFar'
      BY <2>1 DEF FirstBestSoFar
    <2>5. QED
      BY <2>1, <2>2, <2>3, <2>4
  <1>3. CASE EndOfBuffer
    <2>1. TypeOK' /\ FirstBestSoFar'
      BY <1>3 DEF EndOfBuffer, TypeOK, FirstBestSoFar
    <2>2. QED
      BY <1>3, <2>1, SameGroups DEF EndOfBuffer
  <1>4. CASE InspectGroup
    <2>1. best' \in Efficiencies /\ count' \in Nat /\ FirstBestSoFar'
      BY <1>4, InspectStep
    <2>2. next' \in 0..Len(groups')
      BY <1>4 DEF InspectGroup, TypeOK
    <2>3. TypeOK'
      BY <1>4, <2>1, <2>2 DEF InspectGroup, TypeOK
    <2>4. QED
      BY <1>4, <2>1, <2>3, SameGroups DEF InspectGroup
  <1>5. CASE Picked
    <2>1. TypeOK' /\ FirstBestSoFar'
      BY <1>5 DEF Picked, TypeOK, FirstBestSoFar
    <2>2. QED
      BY <1>5, <2>1, SameGroups DEF Picked
  <1>6. CASE UNCHANGED vars
    <2>1. TypeOK' /\ FirstBestSoFar'
      BY <1>6 DEF vars, TypeOK, FirstBestSoFar
    <2>2. QED
      BY <1>6, <2>1, SameGroups DEF vars
  <1>7. QED
    BY <1>1, <1>2, <1>3, <1>4, <1>5, <1>6 DEF Next

(* It holds in every reachable state. *)
LEMMA PoolInvariance == Spec => []PoolInv
  BY PoolInit, PoolStep, CoresAssumption, PTL DEF Spec

(* The groups, the counters and the steps keep their types, for every set  *)
(* of efficiency classes and any number of cores.                          *)
THEOREM TypeCorrect == Spec => []TypeOK
  <1>1. PoolInv => TypeOK
    BY DEF PoolInv
  <1>2. QED
    BY <1>1, PoolInvariance, PTL

(* Every core record of every processor is counted in exactly one group,   *)
(* in whatever order GetLogicalProcessorInformationEx lists them.          *)
THEOREM CoresCountedOnce == Spec => []GroupsPartitionCores
  <1>1. PoolInv => GroupsPartitionCores
    BY DEF PoolInv
  <1>2. QED
    BY <1>1, PoolInvariance, PTL

-----------------------------------------------------------------------------
(* When all groups are inspected, the best cores and the first of them are *)
(* those of one group.                                                     *)
LEMMA BestGroup ==
  ASSUME CoresAssumption, PoolInv, step = "done"
  PROVE  \E f \in DOMAIN groups :
           /\ count = groups[f].count
           /\ CoresLike(f) = {k \in BestCores : cores[k].hyperthreading
                                                  = cores[FirstOfBest].hyperthreading}
  <1>1. TypeOK /\ GroupsPartitionCores /\ GroupsInOrder /\ FirstBestSoFar
        /\ next = Len(groups) /\ cores # <<>>
    BY DEF PoolInv
  <1>2. /\ DOMAIN groups = 1..Len(groups) /\ Len(groups) \in Nat
        /\ DOMAIN cores = 1..Len(cores) /\ Len(cores) \in Nat
        /\ \A g \in DOMAIN groups : groups[g] \in Groups
        /\ \A k \in DOMAIN cores : cores[k] \in Cores
    BY <1>1, TypeFacts
  <1>3. \A k \in DOMAIN cores : \E g \in DOMAIN groups : k \in CoresLike(g)
    BY <1>1 DEF GroupsPartitionCores
  <1>4. \A g \in DOMAIN groups : \A k \in CoresLike(g) :
          /\ k \in DOMAIN cores
          /\ cores[k].efficiency = groups[g].efficiency
          /\ cores[k].hyperthreading = groups[g].hyperthreading
    BY DEF CoresLike
  <1>5. next # 0
    <2>1. 1 \in DOMAIN cores
      BY <1>1, <1>2 DEF TypeOK
    <2>2. QED
      BY <1>1, <1>2, <1>3, <2>1
  <1>6. PICK f \in 1..next :
          /\ best = groups[f].efficiency /\ count = groups[f].count
          /\ \A g \in 1..next : groups[g].efficiency <= best
          /\ \A g \in 1..f - 1 : groups[g].efficiency < best
    BY <1>1, <1>5 DEF FirstBestSoFar
  <1>7. f \in DOMAIN groups /\ \A g \in DOMAIN groups : groups[g].efficiency <= best
    BY <1>1, <1>2, <1>6
  <1>8. best \in Nat /\ \A k \in DOMAIN cores : cores[k].efficiency \in Nat
    BY <1>2, <1>6, <1>7, CoresAssumption DEF Groups, Cores, CoresAssumption
  <1>9. \A k \in DOMAIN cores : cores[k].efficiency <= best
    BY <1>3, <1>4, <1>7
  <1>10. PICK k0 \in CoresLike(f) :
           \A j \in DOMAIN groups : f <= j => \A l \in CoresLike(j) : k0 <= l
    BY <1>1, <1>7 DEF GroupsInOrder
  <1>11. k0 \in DOMAIN cores /\ cores[k0].efficiency = best
    BY <1>4, <1>6, <1>7, <1>10
  <1>12. BestCores = {k \in DOMAIN cores : cores[k].efficiency = best}
    <2>1. ASSUME NEW k \in BestCores
          PROVE  k \in DOMAIN cores /\ cores[k].efficiency = best
      <3>1. k \in DOMAIN cores /\ cores[k].efficiency >= cores[k0].efficiency
        BY <1>11 DEF BestCores
      <3>2. QED
        BY <1>8, <1>9, <1>11, <3>1
    <2>2. ASSUME NEW k \in DOMAIN cores, cores[k].efficiency = best
          PROVE  k \in BestCores
      BY <1>8, <1>9, <2>2 DEF BestCores
    <2>3. QED
      BY <2>1, <2>2
  <1>13. \A l \in BestCores : k0 <= l
    <2> TAKE l \in BestCores
    <2>1. l \in DOMAIN cores /\ cores[l].efficiency = best
      BY <1>12
    <2>2. PICK g \in DOMAIN groups : l \in CoresLike(g)
      BY <1>3, <2>1
    <2>3. groups[g].efficiency = best
      BY <1>4, <2>1, <2>2
    <2>4. ~(g \in 1..f - 1)
      BY <1>6, <1>8, <2>3
    <2>5. f <= g
      BY <1>2, <1>6, <2>2, <2>4
    <2>6. QED
      BY <1>10, <2>2, <2>5
  <1>14. FirstOfBest = k0
    <2>1. k0 \in BestCores
      BY <1>11, <1>12
    <2>2. FirstOfBest \in BestCores /\ \A j \in BestCores : FirstOfBest <= j
      BY <1>13, <2>1 DEF FirstOfBest
    <2>3. FirstOfBest <= k0 /\ k0 <= FirstOfBest
      BY <1>13, <2>1, <2>2
    <2>4. FirstOfBest \in Int /\ k0 \in Int
      BY <1>2, <1>12, <2>1, <2>2
    <2>5. QED
      BY <2>3, <2>4
  <1>15. CoresLike(f) = {k \in BestCores : cores[k].hyperthreading = cores[k0].hyperthreading}
    <2>1. cores[k0].hyperthreading = groups[f].hyperthreading
      BY <1>4, <1>7, <1>10
    <2>2. ASSUME NEW k \in DOMAIN cores, cores[k].efficiency = best,
                 cores[k].hyperthreading = groups[f].hyperthreading
          PROVE  k \in CoresLike(f)
      <3>1. cores[k] \in Cores
        BY <1>2
      <3>2. QED
        BY <1>6, <2>2, <3>1 DEF CoresLike, Cores
    <2>3. QED
      BY <1>4, <1>6, <1>7, <1>12, <2>1, <2>2
  <1>16. QED
    BY <1>6, <1>7, <1>14, <1>15

(* By default the pool gets one thread for each core that is like the first*)
(* of the most efficient ones, and never none, on every processor.         *)
THEOREM PoolSize == Spec => []OneThreadPerCoreOfFirstBest
  <1>1. CoresAssumption /\ PoolInv => OneThreadPerCoreOfFirstBest
    <2> SUFFICES ASSUME CoresAssumption, PoolInv, step = "done"
                 PROVE  /\ count = Cardinality({k \in BestCores : cores[k].hyperthreading
                                                  = cores[FirstOfBest].hyperthreading})
                        /\ count > 0
      BY DEF OneThreadPerCoreOfFirstBest
    <2>1. PICK f \in DOMAIN groups :
            /\ count = groups[f].count
            /\ CoresLike(f) = {k \in BestCores : cores[k].hyperthreading
                                                   = cores[FirstOfBest].hyperthreading}
      BY BestGroup
    <2>2. groups[f].count = Cardinality(CoresLike(f))
      BY <2>1 DEF PoolInv, GroupsPartitionCores
    <2>3. groups[f] \in Groups
      BY <2>1, TypeFacts DEF PoolInv
    <2>4. groups[f].count > 0
      BY <2>3 DEF Groups
    <2>5. QED
      BY <2>1, <2>2, <2>4
  <1>2. QED
    BY <1>1, PoolInvariance, CoresAssumption, PTL

=============================================================================

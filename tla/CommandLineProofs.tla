---------------------------- MODULE CommandLineProofs ----------------------------
(***************************************************************************)
(* Theorems about CommandLine, for every set of words, every width of the  *)
(* numbers and command lines of every length: the machine reads argv as    *)
(* pairs of a flag and a value.                                            *)
(***************************************************************************)
EXTENDS CommandLine, Quotients, WellFoundedInduction, TLAPS

-----------------------------------------------------------------------------
(* What an attempt at a transition does, for tuples of every length.       *)

(* A non-empty set of numbers has a least element: induction over what     *)
(* data holds is by the first place that would be wrong.                   *)
LEMMA LeastNumber ==
  ASSUME NEW S, S \subseteq Nat, S # {}
  PROVE  \E m \in S : \A k \in S : m <= k
<1>1. PICK m \in S : \A k \in S : <<k, m>> \notin OpToRel(<, Nat)
  BY WFMin, NatLessThanWellFounded, Zenon
<1>2. ASSUME NEW k \in S PROVE m <= k
  <2>1. ~(k < m)
    BY <1>1 DEF OpToRel
  <2> QED
    BY <2>1
<1> QED
  BY <1>2

(* Of a node's transitions the first that matches acts, and no other.      *)
LEMMA FirstMatchActs ==
  ASSUME NEW node, NEW c, NEW w,
         Len(node.outbound) \in Nat,
         NEW j \in 1 .. Len(node.outbound),
         Machine!DoesMatch(node.outbound[j].matcher, w),
         \A i \in 1 .. j - 1 : ~Machine!DoesMatch(node.outbound[i].matcher, w),
         Callback(node.outbound[j].callback, c, w).to # None
  PROVE  Machine!NodeAttempt(node, c, w) = Callback(node.outbound[j].callback, c, w)
<1> DEFINE ts     == node.outbound
           n      == Len(ts)
           start  == [to |-> None, captured |-> c]
           result == Callback(ts[j].callback, c, w)
           visit(acc, t) ==
             IF acc.to # None THEN acc ELSE Machine!TryTransition(t, acc, w)
           after  == [k \in 0 .. n |-> IF k < j THEN start ELSE result]
           IsLeft(f) == f = [k \in 0 .. n |-> IF k = 0 THEN start ELSE visit(f[k - 1], ts[k])]
           left   == CHOOSE f : IsLeft(f)
<1>1. Machine!NodeAttempt(node, c, w) = left[n]
  BY DEF Machine!NodeAttempt, Machine!Visit
<1>2. \A k \in 1 .. n : k < j => visit(start, ts[k]) = start
  BY DEF Machine!TryTransition
<1>3. visit(start, ts[j]) = result
  BY DEF Machine!TryTransition
<1>4. \A t : visit(result, t) = result
  OBVIOUS
<1> HIDE DEF ts, n, start, result, visit
<1>5. j \in 1 .. n /\ n \in Nat
  BY DEF n, ts
<1>6. IsLeft(after)
  BY <1>2, <1>3, <1>4, <1>5
<1>7. IsLeft(left)
  <2> HIDE DEF IsLeft, after
  <2> QED
    BY <1>6
<1>8. \A k \in 0 .. n : left[k] = after[k]
  <2> DEFINE wrong == {k \in 0 .. n : left[k] # after[k]}
  <2> SUFFICES ASSUME wrong # {} PROVE FALSE
    OBVIOUS
  <2> HIDE DEF left
  <2>1. PICK k \in wrong : \A m \in wrong : k <= m
    <3>1. wrong \subseteq Nat
      BY <1>5
    <3> HIDE DEF wrong
    <3> QED
      BY <3>1, LeastNumber
  <2>2. k # 0
    BY <1>7, <1>5
  <2>3. left[k - 1] = after[k - 1]
    <3> HIDE DEF after, IsLeft
    <3>1. k - 1 \in 0 .. n /\ ~(k <= k - 1)
      BY <1>5, <2>2
    <3> QED
      BY <2>1, <3>1
  <2>4. left[k] = visit(left[k - 1], ts[k]) /\ after[k] = visit(after[k - 1], ts[k])
    BY <1>6, <1>7, <2>2
  <2> QED
    BY <2>3, <2>4
<1>9. left[n] = result
  <2> HIDE DEF left
  <2> QED
    BY <1>5, <1>8
<1> QED
  BY <1>1, <1>9 DEF result, ts

(* Of the nodes the first that is current acts on the input, and no other. *)
LEMMA CurrentNodeActs ==
  ASSUME NEW nodes, NEW c, NEW w,
         Len(nodes) \in Nat,
         NEW j \in 1 .. Len(nodes),
         \A i \in 1 .. j - 1 : nodes[i].this # nodes[j].this,
         Machine!NodeAttempt(nodes[j], c, w).to # None
  PROVE  Machine!AttemptTransition(nodes, nodes[j].this, c, w) =
           [happened |-> TRUE,
            current  |-> Machine!NodeAttempt(nodes[j], c, w).to,
            captured |-> Machine!NodeAttempt(nodes[j], c, w).captured]
<1> DEFINE n      == Len(nodes)
           start  == [happened |-> FALSE, current |-> nodes[j].this, captured |-> c]
           a      == Machine!NodeAttempt(nodes[j], c, w)
           result == [happened |-> TRUE, current |-> a.to, captured |-> a.captured]
           visit(acc, t) == IF acc.happened THEN acc ELSE Machine!TryNode(t, acc, w)
           after  == [k \in 0 .. n |-> IF k < j THEN start ELSE result]
           IsLeft(f) ==
             f = [k \in 0 .. n |-> IF k = 0 THEN start ELSE visit(f[k - 1], nodes[k])]
           left   == CHOOSE f : IsLeft(f)
<1>1. Machine!AttemptTransition(nodes, nodes[j].this, c, w) = left[n]
  BY DEF Machine!AttemptTransition, Machine!Visit
<1>2. \A k \in 1 .. n : k < j => visit(start, nodes[k]) = start
  BY DEF Machine!TryNode
<1>3. visit(start, nodes[j]) = result
  BY DEF Machine!TryNode
<1>4. \A t : visit(result, t) = result
  OBVIOUS
<1> HIDE DEF n, start, a, result, visit
<1>5. j \in 1 .. n /\ n \in Nat
  BY DEF n
<1>6. IsLeft(after)
  BY <1>2, <1>3, <1>4, <1>5
<1>7. IsLeft(left)
  <2> HIDE DEF IsLeft, after
  <2> QED
    BY <1>6
<1>8. \A k \in 0 .. n : left[k] = after[k]
  <2> DEFINE wrong == {k \in 0 .. n : left[k] # after[k]}
  <2> SUFFICES ASSUME wrong # {} PROVE FALSE
    OBVIOUS
  <2> HIDE DEF left
  <2>1. PICK k \in wrong : \A m \in wrong : k <= m
    <3>1. wrong \subseteq Nat
      BY <1>5
    <3> HIDE DEF wrong
    <3> QED
      BY <3>1, LeastNumber
  <2>2. k # 0
    BY <1>7, <1>5
  <2>3. left[k - 1] = after[k - 1]
    <3> HIDE DEF after, IsLeft
    <3>1. k - 1 \in 0 .. n /\ ~(k <= k - 1)
      BY <1>5, <2>2
    <3> QED
      BY <2>1, <3>1
  <2>4. left[k] = visit(left[k - 1], nodes[k]) /\ after[k] = visit(after[k - 1], nodes[k])
    BY <1>6, <1>7, <2>2
  <2> QED
    BY <2>3, <2>4
<1>9. left[n] = result
  <2> HIDE DEF left
  <2> QED
    BY <1>5, <1>8
<1> QED
  BY <1>1, <1>9 DEF result, a

(* The nodes of ProcessCommandLineParameters by their places in the tuple. *)
LEMMA NodePlaces ==
  /\ Nodes[1].this = "Start" /\ Nodes[2].this = "AwaitingFlags"
  /\ Nodes[3].this = "AwaitingInputFile" /\ Nodes[4].this = "Error"
  /\ Nodes[5].this = "buffer_size" /\ Nodes[6].this = "thread_count"
  /\ Nodes[7].this = "queue_depth"
BY DEF Nodes, Number

(* They have different names. *)
LEMMA NodesDiffer ==
  ASSUME NEW j \in 1 .. 7
  PROVE  \A i \in 1 .. j - 1 : Nodes[i].this # Nodes[j].this
BY NodePlaces

\* The k-th transition is the one of the node that takes w.
FirstMatch(node, k, w) ==
  /\ Len(node.outbound) \in Nat
  /\ k \in 1 .. Len(node.outbound)
  /\ Machine!DoesMatch(node.outbound[k].matcher, w)
  /\ \A i \in 1 .. k - 1 : ~Machine!DoesMatch(node.outbound[i].matcher, w)

(* Together: the machine does what the callback of that transition does.   *)
LEMMA Transition ==
  ASSUME NEW c, NEW w, NEW j \in 1 .. 7, NEW k, FirstMatch(Nodes[j], k, w),
         Callback(Nodes[j].outbound[k].callback, c, w).to # None
  PROVE  Machine!AttemptTransition(Nodes, Nodes[j].this, c, w) =
           [happened |-> TRUE,
            current  |-> Callback(Nodes[j].outbound[k].callback, c, w).to,
            captured |-> Callback(Nodes[j].outbound[k].callback, c, w).captured]
<1> DEFINE r == Callback(Nodes[j].outbound[k].callback, c, w)
<1>1. Len(Nodes) = 7
  BY DEF Nodes
<1>2. Machine!NodeAttempt(Nodes[j], c, w) = r
  BY FirstMatchActs DEF FirstMatch
<1>3. Len(Nodes) \in Nat /\ j \in 1 .. Len(Nodes)
  BY <1>1
<1>4. Machine!NodeAttempt(Nodes[j], c, w).to # None
  BY <1>2
<1>5. \A i \in 1 .. j - 1 : Nodes[i].this # Nodes[j].this
  BY NodesDiffer
<1>6. Machine!AttemptTransition(Nodes, Nodes[j].this, c, w) =
           [happened |-> TRUE,
            current  |-> Machine!NodeAttempt(Nodes[j], c, w).to,
            captured |-> Machine!NodeAttempt(Nodes[j], c, w).captured]
  BY <1>3, <1>4, <1>5, CurrentNodeActs
<1> QED
  BY <1>2, <1>6

\* The node at j has one transition, which every word takes.
Only(j, callback) == Nodes[j].outbound = <<Edge(Anything, callback)>>

(* A node with one transition takes it on every word. *)
LEMMA OnlyTransition ==
  ASSUME NEW c, NEW w, NEW j \in 1 .. 7, NEW callback,
         Only(j, callback),
         Callback(callback, c, w).to # None
  PROVE  Machine!AttemptTransition(Nodes, Nodes[j].this, c, w) =
           [happened |-> TRUE,
            current  |-> Callback(callback, c, w).to,
            captured |-> Callback(callback, c, w).captured]
<1>1. /\ Len(Nodes[j].outbound) = 1
      /\ Nodes[j].outbound[1].matcher = Anything
      /\ Nodes[j].outbound[1].callback = callback
  BY DEF Only, Edge
<1>2. FirstMatch(Nodes[j], 1, w)
  BY <1>1 DEF FirstMatch, Machine!DoesMatch
<1>3. Callback(Nodes[j].outbound[1].callback, c, w).to # None
  BY <1>1
<1>4. Machine!AttemptTransition(Nodes, Nodes[j].this, c, w) =
        [happened |-> TRUE,
         current  |-> Callback(Nodes[j].outbound[1].callback, c, w).to,
         captured |-> Callback(Nodes[j].outbound[1].callback, c, w).captured]
  BY <1>2, <1>3, Transition
<1> QED
  BY <1>1, <1>4

(* No node index is an empty optional. *)
LEMMA NodesExist == \A node \in NodeIndices : node # None
BY MarkersAssumption

(* Start takes the program's name. *)
LEMMA FromStart ==
  ASSUME NEW c, NEW w
  PROVE  LET after == Machine!AttemptTransition(Nodes, "Start", c, w)
         IN  after.current = "AwaitingFlags" /\ after.captured = c
<1> DEFINE r == [to |-> "AwaitingFlags", captured |-> c]
           callback == [does |-> "goto", node |-> "AwaitingFlags"]
<1>1. Only(1, callback)
  BY DEF Only, Nodes, Goto
<1>2. r = Callback(callback, c, w)
  BY DEF Callback
<1>3. r.to # None
  BY NodesExist DEF NodeIndices
<1> HIDE DEF r, callback
<1>4. Machine!AttemptTransition(Nodes, Nodes[1].this, c, w) =
        [happened |-> TRUE, current |-> r.to, captured |-> r.captured]
  BY <1>1, <1>2, <1>3, OnlyTransition
<1> QED
  BY <1>4, NodePlaces DEF r

(* Error takes every word and stays. *)
LEMMA FromError ==
  ASSUME NEW c, NEW w
  PROVE  LET after == Machine!AttemptTransition(Nodes, "Error", c, w)
         IN  after.current = "Error" /\ after.captured = c
<1> DEFINE r == [to |-> "Error", captured |-> c]
           callback == [does |-> "goto", node |-> "Error"]
<1>1. Only(4, callback)
  BY DEF Only, Nodes, Goto
<1>2. r = Callback(callback, c, w)
  BY DEF Callback
<1>3. r.to # None
  BY NodesExist DEF NodeIndices
<1> HIDE DEF r, callback
<1>4. Machine!AttemptTransition(Nodes, Nodes[4].this, c, w) =
        [happened |-> TRUE, current |-> r.to, captured |-> r.captured]
  BY <1>1, <1>2, <1>3, OnlyTransition
<1> QED
  BY <1>4, NodePlaces DEF r

(* The value of the input file's flag is any word. *)
LEMMA FromAwaitingInputFile ==
  ASSUME NEW c, NEW w
  PROVE  LET after == Machine!AttemptTransition(Nodes, "AwaitingInputFile", c, w)
         IN  /\ after.current = "AwaitingFlags"
             /\ after.captured = [c EXCEPT !.input_file = w]
<1> DEFINE r == TakeInputFile(c, w)
           callback == [does |-> "inputFile"]
<1>1. Only(3, callback)
  BY DEF Only, Nodes
<1>2. r = Callback(callback, c, w)
  BY DEF Callback
<1>3. r.to # None
  BY NodesExist DEF NodeIndices, TakeInputFile
<1> HIDE DEF r, callback
<1>4. Machine!AttemptTransition(Nodes, Nodes[3].this, c, w) =
        [happened |-> TRUE, current |-> r.to, captured |-> r.captured]
  BY <1>1, <1>2, <1>3, OnlyTransition
<1> QED
  BY <1>4, NodePlaces DEF r, TakeInputFile

(* The value of an option is converted. *)
LEMMA FromOption ==
  ASSUME NEW o \in Options, NEW c, NEW w
  PROVE  LET after == Machine!AttemptTransition(Nodes, o, c, w)
         IN  /\ after.current = ToNumber(o, c, w).to
             /\ after.captured = ToNumber(o, c, w).captured
<1> DEFINE r == ToNumber(o, c, w)
           callback == [does |-> "number", option |-> o]
<1>1. PICK j \in 5 .. 7 : Nodes[j] = Number(o)
  BY DEF Nodes, Options
<1>2. j \in 1 .. 7 /\ Nodes[j].this = o /\ Only(j, callback)
  BY <1>1 DEF Only, Number
<1>3. r = Callback(callback, c, w)
  BY DEF Callback
<1>4. r.to # None
  BY NodesExist DEF NodeIndices, ToNumber
<1> HIDE DEF r, callback
<1>5. Machine!AttemptTransition(Nodes, Nodes[j].this, c, w) =
        [happened |-> TRUE, current |-> r.to, captured |-> r.captured]
  BY <1>2, <1>3, <1>4, OnlyTransition
<1> QED
  BY <1>2, <1>5 DEF r

(* The flags are different words. *)
LEMMA FlagsDiffer ==
  /\ Flag["buffer_size"] = "--buffer_size"
  /\ Flag["thread_count"] = "--thread_count"
  /\ Flag["queue_depth"] = "--queue_depth"
  /\ \A o \in Options : Flag[o] # InputFlag
  /\ \A o, p \in Options : Flag[o] = Flag[p] => o = p
BY DEF Flag, Options, InputFlag

\* Where the word w leads from AwaitingFlags.
AfterFlag(w) ==
  CASE w = InputFlag            -> "AwaitingInputFile"
    [] w = Flag["buffer_size"]  -> "buffer_size"
    [] w = Flag["thread_count"] -> "thread_count"
    [] w = Flag["queue_depth"]  -> "queue_depth"
    [] OTHER                    -> "Error"

(* A flag leads to the node of its value, another word to the error node.  *)
LEMMA FromAwaitingFlags ==
  ASSUME NEW c, NEW w
  PROVE  LET after == Machine!AttemptTransition(Nodes, "AwaitingFlags", c, w)
         IN  /\ after.current = AfterFlag(w)
             /\ after.captured = IF IsFlag(w) THEN c ELSE Unexpected(c, w).captured
<1> DEFINE ts == Nodes[2].outbound
<1>1. /\ Len(ts) = 5
      /\ ts[1] = Goto(InputFlag, "AwaitingInputFile")
      /\ ts[2] = Goto(Flag["buffer_size"], "buffer_size")
      /\ ts[3] = Goto(Flag["thread_count"], "thread_count")
      /\ ts[4] = Goto(Flag["queue_depth"], "queue_depth")
      /\ ts[5] = Edge(Anything, [does |-> "unexpected"])
  BY DEF Nodes
<1>2. /\ Anything # InputFlag
      /\ \A o \in Options : Anything # Flag[o]
  BY MarkersAssumption
<1>3. "buffer_size" \in Options /\ "thread_count" \in Options /\ "queue_depth" \in Options
  BY DEF Options
<1> HIDE DEF ts
<1>4. /\ Machine!DoesMatch(ts[1].matcher, w) <=> w = InputFlag
      /\ Machine!DoesMatch(ts[2].matcher, w) <=> w = Flag["buffer_size"]
      /\ Machine!DoesMatch(ts[3].matcher, w) <=> w = Flag["thread_count"]
      /\ Machine!DoesMatch(ts[4].matcher, w) <=> w = Flag["queue_depth"]
      /\ Machine!DoesMatch(ts[5].matcher, w)
  BY <1>1, <1>2, <1>3 DEF Machine!DoesMatch, Goto, Edge
<1>5. /\ ts[1].callback = [does |-> "goto", node |-> "AwaitingInputFile"]
      /\ ts[2].callback = [does |-> "goto", node |-> "buffer_size"]
      /\ ts[3].callback = [does |-> "goto", node |-> "thread_count"]
      /\ ts[4].callback = [does |-> "goto", node |-> "queue_depth"]
      /\ ts[5].callback = [does |-> "unexpected"]
  BY <1>1 DEF Goto, Edge
<1> DEFINE Calls(i, node) == /\ Callback(ts[i].callback, c, w).to = node
                             /\ Callback(ts[i].callback, c, w).captured = c
<1>6. /\ Calls(1, "AwaitingInputFile") /\ Calls(2, "buffer_size")
      /\ Calls(3, "thread_count") /\ Calls(4, "queue_depth")
  BY <1>5 DEF Callback
<1> DEFINE Follows(i) == /\ FirstMatch(Nodes[2], i, w)
                         /\ Callback(ts[i].callback, c, w).to = AfterFlag(w)
                         /\ Callback(ts[i].callback, c, w).captured
                              = IF IsFlag(w) THEN c ELSE Unexpected(c, w).captured
<1> DEFINE Free(i) == \A h \in 1 .. i - 1 : ~Machine!DoesMatch(ts[h].matcher, w)
<1>7. ASSUME NEW i \in 1 .. 5, Machine!DoesMatch(ts[i].matcher, w), Free(i)
      PROVE  FirstMatch(Nodes[2], i, w)
  <2>1. Len(ts) \in Nat /\ i \in 1 .. Len(ts)
    BY <1>1
  <2> QED
    BY <1>7, <2>1 DEF FirstMatch, ts
<1>8. \E i \in 1 .. 5 : Follows(i)
  <2>1. CASE w = InputFlag
    <3>1. FirstMatch(Nodes[2], 1, w)
      BY <1>4, <1>7, <2>1
    <3>2. AfterFlag(w) = "AwaitingInputFile" /\ IsFlag(w)
      BY <2>1, FlagsDiffer DEF AfterFlag, IsFlag, Options
    <3>3. Follows(1)
      BY <1>6, <3>1, <3>2
    <3> QED
      BY <3>3
  <2>2. CASE w = Flag["buffer_size"]
    <3>1. w # InputFlag
      BY <1>3, <2>2, FlagsDiffer
    <3>2. FirstMatch(Nodes[2], 2, w)
      <4>1. Free(2)
        BY <1>4, <3>1
      <4> QED
        BY <1>4, <1>7, <2>2, <4>1
    <3>3. AfterFlag(w) = "buffer_size" /\ IsFlag(w)
      BY <1>3, <2>2, <3>1, FlagsDiffer DEF AfterFlag, IsFlag
    <3>4. Follows(2)
      BY <1>6, <3>2, <3>3
    <3> QED
      BY <3>4
  <2>3. CASE w = Flag["thread_count"]
    <3>1. w # InputFlag /\ w # Flag["buffer_size"]
      BY <1>3, <2>3, FlagsDiffer
    <3>2. FirstMatch(Nodes[2], 3, w)
      <4>1. Free(3)
        BY <1>4, <3>1
      <4> QED
        BY <1>4, <1>7, <2>3, <4>1
    <3>3. AfterFlag(w) = "thread_count" /\ IsFlag(w)
      BY <1>3, <2>3, <3>1, FlagsDiffer DEF AfterFlag, IsFlag
    <3>4. Follows(3)
      BY <1>6, <3>2, <3>3
    <3> QED
      BY <3>4
  <2>4. CASE w = Flag["queue_depth"]
    <3>1. w # InputFlag /\ w # Flag["buffer_size"] /\ w # Flag["thread_count"]
      BY <1>3, <2>4, FlagsDiffer
    <3>2. FirstMatch(Nodes[2], 4, w)
      <4>1. Free(4)
        BY <1>4, <3>1
      <4> QED
        BY <1>4, <1>7, <2>4, <4>1
    <3>3. AfterFlag(w) = "queue_depth" /\ IsFlag(w)
      BY <1>3, <2>4, <3>1, FlagsDiffer DEF AfterFlag, IsFlag
    <3>4. Follows(4)
      BY <1>6, <3>2, <3>3
    <3> QED
      BY <3>4
  <2>5. CASE ~IsFlag(w)
    <3>1. /\ w # InputFlag /\ w # Flag["buffer_size"]
          /\ w # Flag["thread_count"] /\ w # Flag["queue_depth"]
      BY <1>3, <2>5 DEF IsFlag
    <3>2. FirstMatch(Nodes[2], 5, w)
      <4>1. Free(5)
        BY <1>4, <3>1
      <4> QED
        BY <1>4, <1>7, <4>1
    <3>3. AfterFlag(w) = "Error"
      BY <3>1 DEF AfterFlag
    <3>4. Callback(ts[5].callback, c, w) = Unexpected(c, w)
      BY <1>5 DEF Callback
    <3>5. Unexpected(c, w).to = "Error"
      BY DEF Unexpected
    <3>6. Follows(5)
      BY <2>5, <3>2, <3>3, <3>4, <3>5
    <3> QED
      BY <3>6
  <2> QED
    BY <2>1, <2>2, <2>3, <2>4, <2>5 DEF IsFlag, Options
<1>9. PICK i \in 1 .. 5 : Follows(i)
  BY <1>8
<1>10. AfterFlag(w) # None
  BY NodesExist DEF NodeIndices, AfterFlag, Options
<1>11. Machine!AttemptTransition(Nodes, Nodes[2].this, c, w) =
         [happened |-> TRUE,
          current  |-> Callback(ts[i].callback, c, w).to,
          captured |-> Callback(ts[i].callback, c, w).captured]
  <2>1. Callback(ts[i].callback, c, w).to # None
    BY <1>9, <1>10
  <2>2. FirstMatch(Nodes[2], i, w)
    BY <1>9
  <2>3. 2 \in 1 .. 7
    OBVIOUS
  <2> QED
    BY <2>1, <2>2, <2>3, Transition, Zenon DEF ts
<1> QED
  BY <1>9, <1>11, NodePlaces

-----------------------------------------------------------------------------
(* Types.                                                                  *)

(* An option holds a size_t. *)
LEMMA SizeGivenType ==
  ASSUME NEW w \in Words
  PROVE  SizeGiven(w) \in 0 .. SizeMax
<1>1. SizeMax \in Nat
  BY NumeralAssumption
<1>2. CASE w \notin DOMAIN Numeral
  BY <1>1, <1>2 DEF SizeGiven
<1>3. CASE w \in DOMAIN Numeral
  <2>1. SizeGiven(w) = Numeral[w] % (SizeMax + 1) /\ Numeral[w] \in Int
    BY <1>3, NumeralAssumption DEF SizeGiven
  <2>2. PICK q \in Nat \ {0}, x \in Int : q = SizeMax + 1 /\ x = Numeral[w]
    BY <1>1, <2>1
  <2>3. x % q \in 0 .. q - 1
    BY IntegerDivision, Zenon
  <2> QED
    BY <1>1, <2>1, <2>2, <2>3
<1> QED
  BY <1>2, <1>3

(* Unless strtoull fails, an option holds the number given in the width of *)
(* a size_t, although it is cut down to an unsigned long long first.       *)
LEMMA SizeHeld ==
  ASSUME NEW w \in Words, ~OutOfRange(w)
  PROVE  ToSize(Strtoull(w)) = SizeGiven(w)
<1> DEFINE m == UllongMax + 1
           q == SizeMax + 1
<1>1. m \in Nat \ {0} /\ q \in Nat \ {0} /\ m % q = 0
  BY NumeralAssumption
<1>2. CASE w \notin DOMAIN Numeral
  <2>1. ToSize(Strtoull(w)) = 0 % q /\ SizeGiven(w) = 0
    BY <1>2 DEF Strtoull, ToSize, SizeGiven
  <2> HIDE DEF m, q
  <2>2. 0 % q = 0
    BY <1>1, FirstInChain
  <2> QED
    BY <2>1, <2>2
<1>3. CASE w \in DOMAIN Numeral
  <2>1. ToSize(Strtoull(w)) = (Numeral[w] % m) % q /\ SizeGiven(w) = Numeral[w] % q
    BY <1>3 DEF Strtoull, ToSize, SizeGiven
  <2>2. Numeral[w] \in Int
    BY <1>3, NumeralAssumption
  <2> HIDE DEF m, q
  <2>3. (Numeral[w] % m) % q = Numeral[w] % q
    BY <1>1, <2>2, NarrowTwice
  <2> QED
    BY <2>1, <2>3
<1> QED
  BY <1>2, <1>3

CapturedStates ==
  [errno : {"none", "ERANGE"},
   error_message : ErrorMessages \cup {None},
   input_file : Words \cup {None},
   number : [Options -> (0..SizeMax) \cup {None}]]

\* A converted number reaches the variable of its option.
WithNumber(c, o, w) == [c EXCEPT !.number[o] = SizeGiven(w)]

(* What a conversion leaves. *)
LEMMA ToNumberFacts ==
  ASSUME NEW o \in Options, NEW c \in CapturedStates, NEW w \in Words
  PROVE  /\ ToNumber(o, c, w).captured \in CapturedStates
         /\ ToNumber(o, c, w).to \in {"Error", "AwaitingFlags"}
         /\ ToNumber(o, c, w).captured.errno = "ERANGE" <=> ToNumber(o, c, w).to = "Error"
         /\ ToNumber(o, c, w).to = "Error" <=> c.errno = "ERANGE" \/ OutOfRange(w)
         /\ ToNumber(o, c, w).to = "Error" =>
              ToNumber(o, c, w).captured.error_message = <<"Could not convert", w>>
         /\ ToNumber(o, c, w).to = "AwaitingFlags" =>
              ToNumber(o, c, w).captured = WithNumber(c, o, w)
<1> DEFINE r == ToNumber(o, c, w)
           errno == IF OutOfRange(w) THEN "ERANGE" ELSE c.errno
<1>1. errno \in {"none", "ERANGE"} /\ (errno = "ERANGE" <=> c.errno = "ERANGE" \/ OutOfRange(w))
  BY DEF CapturedStates
<1>2. <<"Could not convert", w>> \in ErrorMessages
  BY DEF ErrorMessages
<1>3. CASE errno = "ERANGE"
  <2> DEFINE m == <<"Could not convert", w>>
  <2>1. r = [to |-> "Error",
             captured |-> [c EXCEPT !.errno = errno, !.error_message = m]]
    BY <1>3 DEF ToNumber
  <2>2. m \in ErrorMessages
    BY <1>2
  <2> HIDE DEF errno, r, m
  <2>3. r.captured \in CapturedStates
    BY <1>1, <2>1, <2>2 DEF CapturedStates
  <2>4. r.to = "Error" /\ r.captured.errno = "ERANGE" /\ r.captured.error_message = m
    BY <1>3, <2>1 DEF CapturedStates
  <2> QED
    BY <1>1, <1>3, <2>3, <2>4 DEF r, m
<1>4. CASE errno # "ERANGE"
  <2>1. r = [to |-> "AwaitingFlags", captured |-> [c EXCEPT !.number[o] = SizeGiven(w)]]
    <3>1. r = [to |-> "AwaitingFlags",
               captured |-> [c EXCEPT !.number[o] = ToSize(Strtoull(w))]]
      BY <1>4 DEF ToNumber
    <3>2. ToSize(Strtoull(w)) = SizeGiven(w)
      BY <1>1, <1>4, SizeHeld
    <3> QED
      BY <3>1, <3>2
  <2>2. SizeGiven(w) \in (0 .. SizeMax) \cup {None}
    BY SizeGivenType
  <2> HIDE DEF errno, r
  <2>3. r.captured \in CapturedStates /\ r.captured.errno = c.errno
    BY <2>1, <2>2 DEF CapturedStates
  <2>4. c.errno # "ERANGE"
    BY <1>1, <1>4
  <2> QED
    BY <1>1, <1>4, <2>1, <2>3, <2>4 DEF r, WithNumber
<1> QED
  BY <1>3, <1>4

-----------------------------------------------------------------------------
(* The inductive invariant.                                                *)

\* The nodes that wait for the value of a flag, and the flag they wait for.
ValueNodes == Options \cup {"AwaitingInputFile"}

FlagOf(node) == IF node = "AwaitingInputFile" THEN InputFlag ELSE Flag[node]

\* Where the machine is tells what the last word was.
Parity ==
  /\ current = "Start" <=> Len(argv) = 0
  /\ current = "AwaitingFlags" => Len(argv) % 2 = 1
  /\ current \in ValueNodes => Len(argv) % 2 = 0 /\ argv[Len(argv)] = FlagOf(current)

ErrorHasMessage == current = "Error" => captured.error_message # None

ParseInv == TypeOK /\ RangeErrorEndsParse /\ Parity /\ ErrorHasMessage /\ ReadsPairs

\* What a step of the machine does, by the node that is current.
Consumed(w) ==
  /\ current = "Start" =>
       current' = "AwaitingFlags" /\ captured' = captured
  /\ current = "AwaitingFlags" =>
       /\ current' = AfterFlag(w)
       /\ captured' = IF IsFlag(w) THEN captured ELSE Unexpected(captured, w).captured
  /\ current = "AwaitingInputFile" =>
       current' = "AwaitingFlags" /\ captured' = [captured EXCEPT !.input_file = w]
  /\ current \in Options =>
       /\ current' = ToNumber(current, captured, w).to
       /\ captured' = ToNumber(current, captured, w).captured
  /\ current = "Error" =>
       current' = "Error" /\ captured' = captured

(* A step of the machine follows the table of its nodes. *)
LEMMA ConsumeFacts ==
  ASSUME NEW w \in Words, Consume(w)
  PROVE  Consumed(w)
<1>1. LET after == Machine!AttemptTransition(Nodes, current, captured, w)
      IN  current' = after.current /\ captured' = after.captured
  BY DEF Consume
<1> QED
  BY <1>1, FromStart, FromAwaitingFlags, FromAwaitingInputFile, FromOption, FromError
  DEF Consumed

(* Where a flag leads. *)
LEMMA AfterFlagFacts ==
  ASSUME NEW w
  PROVE  /\ IsFlag(w) => AfterFlag(w) \in ValueNodes /\ FlagOf(AfterFlag(w)) = w
         /\ ~IsFlag(w) => AfterFlag(w) = "Error"
         /\ "Error" \notin ValueNodes /\ "AwaitingFlags" \notin ValueNodes
         /\ "Start" \notin ValueNodes
<1>1. "Error" \notin ValueNodes /\ "AwaitingFlags" \notin ValueNodes /\ "Start" \notin ValueNodes
  BY DEF ValueNodes, Options
<1>2. CASE w = InputFlag
  BY <1>1, <1>2, FlagsDiffer DEF IsFlag, AfterFlag, ValueNodes, FlagOf, Options
<1>3. CASE w = Flag["buffer_size"]
  BY <1>1, <1>3, FlagsDiffer DEF IsFlag, AfterFlag, ValueNodes, FlagOf, Options
<1>4. CASE w = Flag["thread_count"]
  BY <1>1, <1>4, FlagsDiffer DEF IsFlag, AfterFlag, ValueNodes, FlagOf, Options, InputFlag
<1>5. CASE w = Flag["queue_depth"]
  BY <1>1, <1>5, FlagsDiffer DEF IsFlag, AfterFlag, ValueNodes, FlagOf, Options, InputFlag
<1>6. CASE ~IsFlag(w)
  BY <1>1, <1>6 DEF IsFlag, AfterFlag, Options
<1> QED
  BY <1>2, <1>3, <1>4, <1>5, <1>6 DEF IsFlag, Options

(* Types, the parity of the words and the message of an error are kept. *)
LEMMA ConsumeShape ==
  ASSUME ParseInv, NEW w \in Words, Consume(w)
  PROVE  TypeOK' /\ RangeErrorEndsParse' /\ Parity' /\ ErrorHasMessage'
<1>1. Consumed(w)
  BY ConsumeFacts
<1>2. /\ argv \in Seq(Words) /\ current \in NodeIndices /\ captured \in CapturedStates
      /\ action' = action /\ action \in {"none", "ErrorAction", "SuccessAction"}
      /\ argv' = Append(argv, w)
  BY DEF ParseInv, TypeOK, Consume, CapturedStates
<1> DEFINE n == Len(argv)
<1>3. /\ n \in Nat /\ Len(argv') = n + 1
      /\ argv' \in Seq(Words)
      /\ argv'[Len(argv')] = w
  BY <1>2
<1>4. /\ RangeErrorEndsParse /\ Parity /\ ErrorHasMessage
  BY DEF ParseInv
<1> HIDE DEF n
<1>5. /\ (n % 2 = 1 => (n + 1) % 2 = 0)
      /\ (n % 2 = 0 => (n + 1) % 2 = 1)
      /\ n = 0 => (n + 1) % 2 = 1
      /\ n + 1 # 0
  BY <1>3
<1>6. SUFFICES /\ current' \in NodeIndices \ {"Start"}
               /\ captured' \in CapturedStates
               /\ captured'.errno = "ERANGE" => current' = "Error"
               /\ current' = "AwaitingFlags" => (n + 1) % 2 = 1
               /\ current' \in ValueNodes => (n + 1) % 2 = 0 /\ FlagOf(current') = w
               /\ current' = "Error" => captured'.error_message # None
  <2>1. TypeOK'
    BY <1>2, <1>3, <1>6 DEF TypeOK, CapturedStates
  <2>2. Parity'
    BY <1>3, <1>5, <1>6 DEF Parity
  <2> QED
    BY <1>6, <2>1, <2>2 DEF RangeErrorEndsParse, ErrorHasMessage
<1>7. /\ n = 0 <=> current = "Start"
      /\ current = "AwaitingFlags" => n % 2 = 1
      /\ current \in ValueNodes => n % 2 = 0
  BY <1>4 DEF Parity, n
<1>8. CASE current = "Start"
  BY <1>1, <1>2, <1>4, <1>5, <1>7, <1>8, AfterFlagFacts
  DEF Consumed, NodeIndices, RangeErrorEndsParse
<1>9. CASE current = "AwaitingFlags"
  <2>1. current' = AfterFlag(w) /\ (n + 1) % 2 = 0
    BY <1>1, <1>5, <1>7, <1>9 DEF Consumed
  <2>2. captured.errno # "ERANGE"
    BY <1>4, <1>9 DEF RangeErrorEndsParse
  <2>3. CASE IsFlag(w)
    <3>1. captured' = captured
      BY <1>1, <1>9, <2>3 DEF Consumed
    <3>2. current' \in ValueNodes /\ FlagOf(current') = w
      BY <2>1, <2>3, AfterFlagFacts
    <3> QED
      BY <1>2, <2>1, <2>2, <3>1, <3>2, AfterFlagFacts DEF ValueNodes, NodeIndices
  <2>4. CASE ~IsFlag(w)
    <3>1. current' = "Error"
      BY <2>1, <2>4, AfterFlagFacts
    <3>2. captured' = [captured EXCEPT !.error_message = <<"Unexpected parameter", w>>]
      BY <1>1, <1>9, <2>4 DEF Consumed, Unexpected
    <3>3. <<"Unexpected parameter", w>> \in ErrorMessages
      BY DEF ErrorMessages
    <3>4. captured' \in CapturedStates /\ captured'.error_message \in ErrorMessages
      BY <1>2, <3>2, <3>3 DEF CapturedStates
    <3>5. captured'.error_message # None
      BY <3>4, MarkersAssumption
    <3> QED
      BY <3>1, <3>4, <3>5, AfterFlagFacts DEF NodeIndices
  <2> QED
    BY <2>3, <2>4
<1>10. CASE current = "AwaitingInputFile"
  <2>1. current' = "AwaitingFlags" /\ captured' = [captured EXCEPT !.input_file = w]
    BY <1>1, <1>10 DEF Consumed
  <2>2. captured' \in CapturedStates /\ captured'.errno = captured.errno
    BY <1>2, <2>1 DEF CapturedStates
  <2>3. captured.errno # "ERANGE" /\ (n + 1) % 2 = 1
    BY <1>4, <1>5, <1>7, <1>10 DEF RangeErrorEndsParse, ValueNodes
  <2> QED
    BY <2>1, <2>2, <2>3, AfterFlagFacts DEF NodeIndices
<1>11. CASE current \in Options
  <2> DEFINE r == ToNumber(current, captured, w)
  <2>1. current' = r.to /\ captured' = r.captured
    BY <1>1, <1>11 DEF Consumed
  <2>2. /\ r.captured \in CapturedStates
        /\ r.to \in {"Error", "AwaitingFlags"}
        /\ r.captured.errno = "ERANGE" <=> r.to = "Error"
        /\ r.to = "Error" => r.captured.error_message = <<"Could not convert", w>>
    <3>1. captured \in CapturedStates
      BY <1>2
    <3> QED
      BY <1>11, <3>1, ToNumberFacts
  <2> HIDE DEF r
  <2>3. <<"Could not convert", w>> \in ErrorMessages
    BY DEF ErrorMessages
  <2>4. <<"Could not convert", w>> # None
    BY <2>3, MarkersAssumption
  <2>5. (n + 1) % 2 = 1
    BY <1>5, <1>7, <1>11 DEF ValueNodes
  <2> QED
    BY <2>1, <2>2, <2>4, <2>5, AfterFlagFacts DEF NodeIndices
<1>12. CASE current = "Error"
  BY <1>1, <1>2, <1>4, <1>12, AfterFlagFacts DEF Consumed, ErrorHasMessage, NodeIndices
<1> QED
  BY <1>2, <1>8, <1>9, <1>10, <1>11, <1>12 DEF NodeIndices

-----------------------------------------------------------------------------
(* The reading of argv as pairs, as argv grows by a word.                  *)

(* A non-empty set of numbers up to a bound has a greatest element. *)
LEMMA GreatestNumber ==
  ASSUME NEW n \in Nat, NEW S, S \subseteq 0 .. n, S # {}
  PROVE  \E m \in S : \A k \in S : m >= k
<1> DEFINE bounds == {b \in Nat : \A k \in S : b >= k}
<1>1. bounds # {} /\ bounds \subseteq Nat
  <2>1. n \in bounds
    OBVIOUS
  <2> QED
    BY <2>1
<1>2. PICK b \in bounds : \A a \in bounds : b <= a
  <2> HIDE DEF bounds
  <2> QED
    BY <1>1, LeastNumber
<1>3. b \in Nat /\ \A k \in S : k \in Nat /\ b >= k
  OBVIOUS
<1>4. b \in S
  <2> SUFFICES ASSUME b \notin S PROVE FALSE
    OBVIOUS
  <2>1. \A k \in S : b > k
    BY <1>3
  <2>2. b > 0
    <3>1. PICK k \in S : TRUE
      OBVIOUS
    <3> QED
      BY <1>3, <2>1, <3>1
  <2>3. b - 1 \in Nat /\ \A k \in S : b - 1 >= k
    BY <1>3, <2>1, <2>2
  <2>4. b <= b - 1
    BY <1>2, <2>3
  <2> QED
    BY <1>3, <2>4
<1> QED
  BY <1>3, <1>4

(* Max is the greatest element. *)
LEMMA MaxFacts ==
  ASSUME NEW n \in Nat, NEW S, S \subseteq 0 .. n, S # {}
  PROVE  Max(S) \in S /\ \A k \in S : Max(S) >= k
BY GreatestNumber DEF Max

(* Min is the least element. *)
LEMMA MinFacts ==
  ASSUME NEW S, S \subseteq Nat, S # {}
  PROVE  Min(S) \in S /\ \A k \in S : Min(S) <= k
BY LeastNumber DEF Min

(* A greater element does not change Min. *)
LEMMA MinStays ==
  ASSUME NEW n \in Nat, NEW S, S \subseteq 0 .. n, S # {}, NEW X, X \subseteq {n + 1}
  PROVE  Min(S \cup X) = Min(S) /\ Min(S) \in S
<1>1. S \subseteq Nat /\ S \cup X \subseteq Nat
  OBVIOUS
<1> DEFINE a == Min(S)
           b == Min(S \cup X)
<1>2. a \in S /\ \A k \in S : a <= k
  BY <1>1, MinFacts
<1>3. b \in S \cup X /\ \A k \in S \cup X : b <= k
  BY <1>1, MinFacts
<1> HIDE DEF a, b
<1>4. a \in 0 .. n /\ b \in 0 .. n + 1
  BY <1>2, <1>3
<1>5. b <= a
  BY <1>2, <1>3
<1>6. b \in S
  BY <1>3, <1>4, <1>5
<1>7. a = b
  BY <1>2, <1>4, <1>5, <1>6
<1> QED
  BY <1>2, <1>7 DEF a, b

(* A set of one number has it as its least element. *)
LEMMA MinOne ==
  ASSUME NEW x \in Nat
  PROVE  Min({x}) = x
BY MinFacts

\* Whether the word w, after n others, is one that cannot be accepted.
NewlyWrong(w) ==
  \/ /\ Len(argv) % 2 = 1
     /\ ~IsFlag(w)
  \/ /\ Len(argv) % 2 = 0 /\ Len(argv) # 0
     /\ IsNumberFlag(argv[Len(argv)]) /\ OutOfRange(w)

\* The places of the flag's complete pairs.
Given(flag) == {i \in Pairs : argv[i] = flag /\ HasValue(i)}

(* argv grows by w, and what was there stays where it was. *)
LEMMA Grown ==
  ASSUME ParseInv, NEW w \in Words, Consume(w)
  PROVE  /\ Len(argv) \in Nat /\ Len(argv') = Len(argv) + 1
         /\ argv'[Len(argv) + 1] = w
         /\ \A i \in 1 .. Len(argv) : argv'[i] = argv[i]
<1>1. argv \in Seq(Words) /\ argv' = Append(argv, w)
  BY DEF ParseInv, TypeOK, Consume
<1> QED
  BY <1>1

(* A number is even or odd, and its successor is the other. *)
LEMMA EvenOdd ==
  ASSUME NEW n \in Nat
  PROVE  /\ n % 2 \in {0, 1}
         /\ n % 2 = 0 => (n + 1) % 2 = 1
         /\ n % 2 = 1 => (n + 1) % 2 = 0
OBVIOUS

(* A pair starts at every second word. *)
LEMMA PairsGrow ==
  ASSUME ParseInv, NEW w \in Words, Consume(w)
  PROVE  /\ Pairs \subseteq 2 .. Len(argv)
         /\ Len(argv) % 2 = 1 => Len(argv) + 1 \in Pairs' /\ Len(argv) \notin Pairs
         /\ Len(argv) % 2 = 0 => Len(argv) + 1 \notin Pairs'
         /\ Len(argv) % 2 = 0 /\ Len(argv) # 0 => Len(argv) \in Pairs
         /\ Pairs' \ {Len(argv) + 1} = Pairs
<1> DEFINE n == Len(argv)
<1>1. n \in Nat /\ Len(argv') = n + 1
  BY Grown
<1>2. Pairs = {i \in 2 .. n : i % 2 = 0} /\ Pairs' = {i \in 2 .. n + 1 : i % 2 = 0}
  BY <1>1 DEF Pairs
<1> HIDE DEF n
<1>3. n % 2 = 1 => n + 1 \in Pairs' /\ n \notin Pairs
  <2>1. n % 2 = 1 => n >= 1
    BY <1>1
  <2> QED
    BY <1>1, <1>2, <2>1, EvenOdd
<1>4. n % 2 = 0 => n + 1 \notin Pairs'
  BY <1>1, <1>2, EvenOdd
<1>5. n % 2 = 0 /\ n # 0 => n \in Pairs
  <2>1. n % 2 = 0 /\ n # 0 => n >= 2
    BY <1>1
  <2> QED
    BY <1>1, <1>2, <2>1
<1>6. Pairs' \ {n + 1} = Pairs
  BY <1>1, <1>2
<1> QED
  BY <1>2, <1>3, <1>4, <1>5, <1>6 DEF n

(* What is wrong stays wrong, and the new word is at most one more place.  *)
LEMMA WrongGrows ==
  ASSUME ParseInv, NEW w \in Words, Consume(w)
  PROVE  /\ WrongPlaces \subseteq 1 .. Len(argv)
         /\ WrongPlaces' = WrongPlaces \cup (IF NewlyWrong(w) THEN {Len(argv) + 1} ELSE {})
<1>0. PICK n \in Nat : n = Len(argv)
  BY Grown
<1>1. /\ Len(argv') = n + 1
      /\ argv'[n + 1] = w
      /\ \A i \in 1 .. n : argv'[i] = argv[i]
  BY <1>0, Grown
<1>2. /\ Pairs \subseteq 2 .. n
      /\ n % 2 = 1 => n + 1 \in Pairs' /\ n \notin Pairs
      /\ n % 2 = 0 => n + 1 \notin Pairs'
      /\ n % 2 = 0 /\ n # 0 => n \in Pairs
      /\ Pairs' \ {n + 1} = Pairs
  BY <1>0, PairsGrow
<1>3. \A i : HasValue(i) <=> i + 1 <= n
  BY <1>0 DEF HasValue
<1>4. \A i : HasValue(i)' <=> i + 1 <= n + 1
  BY <1>1 DEF HasValue
<1>5. NewlyWrong(w) <=> \/ n % 2 = 1 /\ ~IsFlag(w)
                        \/ /\ n % 2 = 0 /\ n # 0
                           /\ IsNumberFlag(argv[n]) /\ OutOfRange(w)
  BY <1>0 DEF NewlyWrong
<1>6. \A x : IsNumberFlag(x) => IsFlag(x)
  BY DEF IsNumberFlag, IsFlag
<1>7. ASSUME NEW i \in Pairs, i # n
      PROVE  Wrong(i)' = Wrong(i) /\ Wrong(i) \subseteq 1 .. n
  <2>1. i \in 1 .. n /\ i + 1 \in 1 .. n
    BY <1>2, <1>7
  <2>2. HasValue(i) /\ HasValue(i)'
    BY <1>3, <1>4, <2>1
  <2>3. argv'[i] = argv[i] /\ argv'[i + 1] = argv[i + 1]
    BY <1>1, <2>1
  <2> QED
    BY <2>1, <2>2, <2>3 DEF Wrong
<1> DEFINE last == IF IsNumberFlag(argv[n]) /\ OutOfRange(w) THEN {n + 1} ELSE {}
<1>8. ASSUME n \in Pairs
      PROVE  Wrong(n) \subseteq 1 .. n /\ Wrong(n)' = Wrong(n) \cup last
  <2>1. n \in 1 .. n
    BY <1>2, <1>8
  <2>2. ~HasValue(n) /\ HasValue(n)'
    BY <1>3, <1>4
  <2>3. argv'[n] = argv[n] /\ argv'[n + 1] = w
    BY <1>1, <2>1
  <2>4. Wrong(n) = IF ~IsFlag(argv[n]) THEN {n} ELSE {}
    BY <2>2 DEF Wrong
  <2>5. Wrong(n)' = IF ~IsFlag(argv[n]) THEN {n} ELSE last
    BY <2>2, <2>3 DEF Wrong
  <2> QED
    BY <1>6, <2>1, <2>4, <2>5
<1>9. Wrong(n + 1)' = IF ~IsFlag(w) THEN {n + 1} ELSE {}
  <2>1. ~HasValue(n + 1)'
    BY <1>4
  <2> QED
    BY <1>1, <2>1 DEF Wrong
<1>10. WrongPlaces \subseteq 1 .. n
  BY <1>7, <1>8 DEF WrongPlaces
<1>11. CASE n % 2 = 1
  <2>1. \A i \in Pairs : Wrong(i)' = Wrong(i)
    BY <1>2, <1>7, <1>11
  <2>2. Pairs' = Pairs \cup {n + 1}
    BY <1>2, <1>11
  <2>3. WrongPlaces' = WrongPlaces \cup Wrong(n + 1)'
    BY <2>1, <2>2 DEF WrongPlaces
  <2>4. Wrong(n + 1)' = IF NewlyWrong(w) THEN {n + 1} ELSE {}
    BY <1>5, <1>9, <1>11
  <2> QED
    BY <1>0, <1>10, <2>3, <2>4
<1>12. CASE n % 2 # 1
  <2>1. n % 2 = 0
    BY <1>12, EvenOdd
  <2>2. Pairs' = Pairs
    BY <1>2, <2>1
  <2>3. CASE n = 0
    <3>1. Pairs = {}
      BY <1>2, <2>3
    <3> QED
      BY <1>0, <1>5, <1>10, <2>1, <2>2, <2>3, <3>1 DEF WrongPlaces
  <2>4. CASE n # 0
    <3>1. n \in Pairs
      BY <1>2, <2>1, <2>4
    <3>2. last = IF NewlyWrong(w) THEN {n + 1} ELSE {}
      BY <1>5, <2>1, <2>4
    <3> HIDE DEF last
    <3>3. WrongPlaces' = WrongPlaces \cup last
      BY <1>7, <1>8, <2>2, <3>1 DEF WrongPlaces
    <3> QED
      BY <1>0, <1>10, <3>2, <3>3
  <2> QED
    BY <2>3, <2>4
<1> QED
  BY <1>11, <1>12

\* Whether the word after the others is the value of a pair with this flag.
NewlyGiven(flag) == Len(argv) % 2 = 0 /\ Len(argv) # 0 /\ argv[Len(argv)] = flag

(* The value of the newest pair is the last one given, until the next one. *)
LEMMA GivenGrows ==
  ASSUME ParseInv, NEW w \in Words, Consume(w), NEW flag
  PROVE  /\ NewlyGiven(flag) =>
              Given(flag)' # {} /\ argv'[Max(Given(flag)') + 1] = w
         /\ ~NewlyGiven(flag) => Given(flag)' = Given(flag)
         /\ Given(flag) # {} =>
              argv'[Max(Given(flag)) + 1] = argv[Max(Given(flag)) + 1]
<1>0. PICK n \in Nat : n = Len(argv)
  BY Grown
<1>1. /\ Len(argv') = n + 1
      /\ argv'[n + 1] = w
      /\ \A i \in 1 .. n : argv'[i] = argv[i]
  BY <1>0, Grown
<1>2. /\ Pairs \subseteq 2 .. n
      /\ n % 2 = 1 => n + 1 \in Pairs' /\ n \notin Pairs
      /\ n % 2 = 0 => n + 1 \notin Pairs'
      /\ n % 2 = 0 /\ n # 0 => n \in Pairs
      /\ Pairs' \ {n + 1} = Pairs
  BY <1>0, PairsGrow
<1>3. Given(flag) = {i \in Pairs : argv[i] = flag /\ i + 1 <= n}
  BY <1>0 DEF Given, HasValue
<1>4. Given(flag)' = {i \in Pairs' : argv'[i] = flag /\ i + 1 <= n + 1}
  BY <1>1 DEF Given, HasValue
<1>in. \A i \in Pairs : i \in 0 .. n /\ (i + 1 <= n => i + 1 \in 1 .. n)
  BY <1>2
<1>5. Given(flag) \subseteq 0 .. n /\ \A i \in Given(flag) : i + 1 \in 1 .. n
  BY <1>in, <1>3
<1>6. Given(flag)' = {i \in Pairs : argv[i] = flag}
  <2>1. \A i \in Pairs : i + 1 <= n + 1 /\ argv'[i] = argv[i]
    BY <1>1, <1>2
  <2>2. n + 1 \notin Given(flag)'
    BY <1>4
  <2> QED
    BY <1>2, <1>4, <2>1, <2>2
<1>7. NewlyGiven(flag) => Given(flag)' # {} /\ Max(Given(flag)') = n
  <2> SUFFICES ASSUME NewlyGiven(flag)
               PROVE  Given(flag)' # {} /\ Max(Given(flag)') = n
    OBVIOUS
  <2>1. n \in Given(flag)'
    BY <1>0, <1>2, <1>6 DEF NewlyGiven
  <2>2. Given(flag)' \subseteq 0 .. n
    BY <1>in, <1>6
  <2> DEFINE S == Given(flag)'
             m == Max(S)
  <2> HIDE DEF S
  <2>3. m \in S /\ \A k \in S : m >= k
    BY <2>1, <2>2, MaxFacts DEF S
  <2> HIDE DEF m
  <2>4. m \in 0 .. n /\ m >= n
    BY <2>1, <2>2, <2>3 DEF S
  <2>5. m = n
    BY <2>4
  <2> QED
    BY <2>1, <2>5 DEF m, S
<1>8. ~NewlyGiven(flag) => Given(flag)' = Given(flag)
  <2> SUFFICES ASSUME ~NewlyGiven(flag)
               PROVE  Given(flag)' = Given(flag)
    OBVIOUS
  <2>1. n \in Pairs => argv[n] # flag
    <3>1. n \in Pairs => n % 2 = 0 /\ n # 0
      BY <1>2, EvenOdd
    <3> QED
      BY <1>0, <3>1 DEF NewlyGiven
  <2>2. \A i \in Pairs : i # n => i + 1 <= n
    BY <1>2
  <2> QED
    BY <1>3, <1>6, <2>1, <2>2
<1>9. Given(flag) # {} => argv'[Max(Given(flag)) + 1] = argv[Max(Given(flag)) + 1]
  <2> SUFFICES ASSUME Given(flag) # {}
               PROVE  argv'[Max(Given(flag)) + 1] = argv[Max(Given(flag)) + 1]
    OBVIOUS
  <2>1. Max(Given(flag)) \in Given(flag)
    BY <1>5, MaxFacts
  <2> QED
    BY <1>1, <1>5, <2>1
<1> QED
  BY <1>1, <1>7, <1>8, <1>9

-----------------------------------------------------------------------------
(* The machine agrees with the reading.                                    *)

(* A consumed word keeps the machine in agreement with the reading of the  *)
(* words as pairs.                                                         *)
LEMMA ConsumeReads ==
  ASSUME ParseInv, NEW w \in Words, Consume(w)
  PROVE  ReadsPairs'
<1>1. Consumed(w)
  BY ConsumeFacts
<1>2. /\ Len(argv) \in Nat
      /\ argv'[Len(argv) + 1] = w
      /\ \A i \in 1 .. Len(argv) : argv'[i] = argv[i]
  BY Grown
<1>3. /\ WrongPlaces \subseteq 1 .. Len(argv)
      /\ WrongPlaces' = WrongPlaces \cup (IF NewlyWrong(w) THEN {Len(argv) + 1} ELSE {})
  BY WrongGrows
<1>4. TypeOK /\ RangeErrorEndsParse /\ Parity /\ ReadsPairs
  BY DEF ParseInv
<1>5. captured \in CapturedStates /\ current \in NodeIndices
  BY <1>4 DEF TypeOK, CapturedStates
<1> DEFINE Word(flag) ==
      IF Given(flag) = {} THEN None ELSE argv[Max(Given(flag)) + 1]
           Value(flag) ==
      IF Given(flag) = {} THEN None ELSE SizeGiven(argv[Max(Given(flag)) + 1])
           Agrees == /\ captured.input_file = Word(InputFlag)
                     /\ \A o \in Options : captured.number[o] = Value(Flag[o])
<1>6. ReadsPairs <=> IF WrongPlaces # {}
                       THEN /\ current = "Error"
                            /\ captured.error_message[2] = argv[Min(WrongPlaces)]
                       ELSE current # "Error" /\ Agrees
  BY DEF ReadsPairs, LastGiven, Given
<1>7. ReadsPairs' <=> IF WrongPlaces' # {}
                        THEN /\ current' = "Error"
                             /\ captured'.error_message[2] = argv'[Min(WrongPlaces')]
                        ELSE current' # "Error" /\ Agrees'
  BY DEF ReadsPairs, LastGiven, Given
<1>8. \A flag : ~NewlyGiven(flag) => Word(flag)' = Word(flag) /\ Value(flag)' = Value(flag)
  <2> SUFFICES ASSUME NEW flag, ~NewlyGiven(flag)
               PROVE  Word(flag)' = Word(flag) /\ Value(flag)' = Value(flag)
    OBVIOUS
  <2>1. Given(flag)' = Given(flag)
    BY GivenGrows
  <2>2. Given(flag) # {} => argv'[Max(Given(flag)) + 1] = argv[Max(Given(flag)) + 1]
    BY GivenGrows
  <2>3. Max(Given(flag)') = Max(Given(flag))
    BY <2>1
  <2> QED
    BY <2>1, <2>2, <2>3
<1>9. \A flag : NewlyGiven(flag) => Word(flag)' = w /\ Value(flag)' = SizeGiven(w)
  <2> SUFFICES ASSUME NEW flag, NewlyGiven(flag)
               PROVE  Word(flag)' = w /\ Value(flag)' = SizeGiven(w)
    OBVIOUS
  <2>1. Given(flag)' # {} /\ argv'[Max(Given(flag)') + 1] = w
    BY GivenGrows
  <2> QED
    BY <2>1
<1> HIDE DEF Word, Value
<1>10. CASE current = "Error"
  <2>1. /\ current' = "Error" /\ captured' = captured
        /\ WrongPlaces # {} /\ captured.error_message[2] = argv[Min(WrongPlaces)]
    BY <1>1, <1>4, <1>6, <1>10 DEF Consumed
  <2>2. PICK n \in Nat : n = Len(argv)
    BY <1>2
  <2>3. WrongPlaces \subseteq 0 .. n
    BY <1>3, <2>2
  <2>4. PICK X : X \subseteq {n + 1} /\ WrongPlaces' = WrongPlaces \cup X
    BY <1>3, <2>2
  <2>5. Min(WrongPlaces \cup X) = Min(WrongPlaces) /\ Min(WrongPlaces) \in WrongPlaces
    BY <2>1, <2>3, <2>4, MinStays
  <2>6. Min(WrongPlaces') = Min(WrongPlaces)
    BY <2>4, <2>5
  <2>7. argv'[Min(WrongPlaces)] = argv[Min(WrongPlaces)]
    BY <1>2, <1>3, <2>5
  <2>8. WrongPlaces' # {}
    BY <2>1, <2>4
  <2> QED
    BY <1>7, <2>1, <2>6, <2>7, <2>8
<1>11. CASE current # "Error"
  <2>1. WrongPlaces = {} /\ Agrees
    BY <1>4, <1>6, <1>11
  <2>2. captured.errno # "ERANGE"
    BY <1>4, <1>11 DEF RangeErrorEndsParse
  <2>3. CASE NewlyWrong(w)
    <3>1. WrongPlaces' = {Len(argv) + 1} /\ Min(WrongPlaces') = Len(argv) + 1
      <4>1. WrongPlaces' = {Len(argv) + 1}
        BY <1>3, <2>1, <2>3
      <4>2. Len(argv) + 1 \in Nat
        BY <1>2
      <4> QED
        BY <4>1, <4>2, MinOne
    <3> SUFFICES current' = "Error" /\ captured'.error_message[2] = w
      BY <1>2, <1>7, <3>1
    <3>2. CASE Len(argv) % 2 = 1 /\ ~IsFlag(w)
      <4>1. current = "AwaitingFlags"
        BY <1>2, <1>4, <1>5, <1>11, <3>2 DEF Parity, NodeIndices, ValueNodes
      <4>2. current' = "Error" /\ captured' = Unexpected(captured, w).captured
        BY <1>1, <3>2, <4>1, AfterFlagFacts DEF Consumed
      <4>3. Unexpected(captured, w).captured.error_message = <<"Unexpected parameter", w>>
        BY <1>5 DEF Unexpected, CapturedStates
      <4> DEFINE message == <<"Unexpected parameter", w>>
      <4>4. captured'.error_message = message
        BY <4>2, <4>3
      <4>5. message[2] = w
        OBVIOUS
      <4> HIDE DEF message
      <4> QED
        BY <4>2, <4>4, <4>5
    <3>3. CASE /\ Len(argv) % 2 = 0 /\ Len(argv) # 0
               /\ IsNumberFlag(argv[Len(argv)]) /\ OutOfRange(w)
      <4>1. current \in Options
        <5>1. current \in ValueNodes
          BY <1>4, <1>5, <1>11, <3>3 DEF Parity, NodeIndices, ValueNodes
        <5>2. current # "AwaitingInputFile"
          BY <1>4, <3>3, <5>1, FlagsDiffer DEF Parity, FlagOf, IsNumberFlag
        <5> QED
          BY <5>1, <5>2 DEF ValueNodes
      <4>2. /\ ToNumber(current, captured, w).to = "Error"
            /\ ToNumber(current, captured, w).captured.error_message
                 = <<"Could not convert", w>>
        BY <1>5, <3>3, <4>1, ToNumberFacts
      <4> DEFINE message == <<"Could not convert", w>>
      <4>3. current' = "Error" /\ captured'.error_message = message
        BY <1>1, <4>1, <4>2 DEF Consumed
      <4>4. message[2] = w
        OBVIOUS
      <4> HIDE DEF message
      <4> QED
        BY <4>3, <4>4
    <3> QED
      BY <2>3, <3>2, <3>3 DEF NewlyWrong
  <2>4. CASE ~NewlyWrong(w)
    <3>1. WrongPlaces' = {}
      BY <1>3, <2>1, <2>4
    <3> SUFFICES current' # "Error" /\ Agrees'
      BY <1>7, <3>1
    <3> HIDE DEF Agrees
    <3>2. ASSUME \A flag : ~NewlyGiven(flag), captured' = captured
          PROVE  Agrees'
      BY <1>8, <2>1, <3>2 DEF Agrees
    <3>3. CASE current = "Start"
      <4>1. current' = "AwaitingFlags" /\ captured' = captured /\ Len(argv) = 0
        BY <1>1, <1>4, <3>3 DEF Consumed, Parity
      <4> QED
        BY <3>2, <4>1 DEF NewlyGiven
    <3>4. CASE current = "AwaitingFlags"
      <4>1. Len(argv) % 2 = 1 /\ IsFlag(w)
        BY <1>4, <2>4, <3>4 DEF Parity, NewlyWrong
      <4>2. current' \in ValueNodes /\ captured' = captured
        BY <1>1, <3>4, <4>1, AfterFlagFacts DEF Consumed
      <4> QED
        BY <3>2, <4>1, <4>2, AfterFlagFacts DEF NewlyGiven
    <3>5. CASE current \in ValueNodes
      <4>1. Len(argv) % 2 = 0 /\ Len(argv) # 0 /\ argv[Len(argv)] = FlagOf(current)
        BY <1>4, <3>5, AfterFlagFacts DEF Parity
      <4>2. \A flag : NewlyGiven(flag) <=> flag = FlagOf(current)
        BY <4>1 DEF NewlyGiven
      <4>3. CASE current = "AwaitingInputFile"
        <5>1. current' = "AwaitingFlags" /\ captured' = [captured EXCEPT !.input_file = w]
          BY <1>1, <4>3 DEF Consumed
        <5>2. captured'.input_file = w /\ captured'.number = captured.number
          BY <1>5, <5>1 DEF CapturedStates
        <5>3. FlagOf(current) = InputFlag
          BY <4>3 DEF FlagOf
        <5>4. Word(InputFlag)' = w
          BY <1>9, <4>2, <5>3
        <5>5. \A o \in Options : Value(Flag[o])' = Value(Flag[o])
          BY <1>8, <4>2, <5>3, FlagsDiffer
        <5> QED
          BY <2>1, <5>1, <5>2, <5>4, <5>5 DEF Agrees
      <4>4. CASE current \in Options
        <5>1. PICK p \in Options : p = current
          BY <4>4
        <5>2. FlagOf(current) = Flag[p]
          BY <4>4, <5>1 DEF FlagOf, Options
        <5>3. ~OutOfRange(w)
          BY <2>4, <4>1, <5>2 DEF NewlyWrong, IsNumberFlag
        <5>4. /\ ToNumber(p, captured, w).to = "AwaitingFlags"
              /\ ToNumber(p, captured, w).captured = WithNumber(captured, p, w)
          BY <1>5, <2>2, <5>3, ToNumberFacts
        <5>5. current' = "AwaitingFlags" /\ captured' = WithNumber(captured, p, w)
          BY <1>1, <4>4, <5>1, <5>4 DEF Consumed
        <5>6. /\ captured'.input_file = captured.input_file
              /\ captured'.number[p] = SizeGiven(w)
              /\ \A o \in Options \ {p} : captured'.number[o] = captured.number[o]
          BY <1>5, <5>5 DEF CapturedStates, WithNumber
        <5>7. Word(InputFlag)' = Word(InputFlag)
          BY <1>8, <4>2, <5>2, FlagsDiffer
        <5>8. Value(Flag[p])' = SizeGiven(w)
          BY <1>9, <4>2, <5>2
        <5>9. \A o \in Options \ {p} : Value(Flag[o])' = Value(Flag[o])
          BY <1>8, <4>2, <5>2, FlagsDiffer
        <5>10. \A o \in Options : captured'.number[o] = Value(Flag[o])'
          BY <2>1, <5>6, <5>8, <5>9 DEF Agrees
        <5> QED
          BY <2>1, <5>5, <5>6, <5>7, <5>10 DEF Agrees
      <4> QED
        BY <3>5, <4>3, <4>4 DEF ValueNodes
    <3> QED
      BY <1>5, <1>11, <3>3, <3>4, <3>5 DEF NodeIndices, ValueNodes
  <2> QED
    BY <2>3, <2>4
<1> QED
  BY <1>10, <1>11


(* The check of the errors after the last word changes no part of it.      *)
LEMMA CheckErrorsKeeps ==
  ASSUME ParseInv, UNCHANGED <<argv, current, captured>>,
         action' \in {"none", "ErrorAction", "SuccessAction"}
  PROVE  ParseInv'
<1>1. TypeOK' /\ RangeErrorEndsParse' /\ Parity' /\ ErrorHasMessage'
  BY DEF ParseInv, TypeOK, RangeErrorEndsParse, Parity, ErrorHasMessage
<1>2. Pairs' = Pairs /\ \A i : HasValue(i)' <=> HasValue(i)
  BY DEF Pairs, HasValue
<1>3. \A i : Wrong(i)' = Wrong(i)
  BY <1>2 DEF Wrong
<1>4. WrongPlaces' = WrongPlaces
  BY <1>2, <1>3 DEF WrongPlaces
<1>5. ReadsPairs
  BY DEF ParseInv
<1>6. ReadsPairs'
  BY <1>2, <1>4, <1>5 DEF ReadsPairs, LastGiven
<1> QED
  BY <1>1, <1>6 DEF ParseInv

(* Before the first word there is no pair.                                 *)
LEMMA ParseInit ==
  ASSUME Init
  PROVE  ParseInv
<1> USE DEF Init
<1>1. TypeOK
  <2>1. argv \in Seq(Words)
    OBVIOUS
  <2> QED
    BY <2>1 DEF TypeOK, NodeIndices
<1>2. Len(argv) = 0
  OBVIOUS
<1>3. RangeErrorEndsParse /\ Parity /\ ErrorHasMessage
  BY <1>2, AfterFlagFacts DEF RangeErrorEndsParse, Parity, ErrorHasMessage
<1>4. Pairs = {}
  BY <1>2 DEF Pairs
<1>5. ReadsPairs
  BY <1>4 DEF ReadsPairs, LastGiven, WrongPlaces
<1> QED
  BY <1>1, <1>3, <1>5 DEF ParseInv

(* Every step keeps the invariant. *)
LEMMA ParseStep ==
  ASSUME ParseInv, [Next]_vars
  PROVE  ParseInv'
<1>1. ASSUME NEW w \in Words, Consume(w)
      PROVE  ParseInv'
  BY <1>1, ConsumeShape, ConsumeReads DEF ParseInv
<1>2. CASE CheckErrors
  BY <1>2, CheckErrorsKeeps DEF CheckErrors
<1>3. CASE UNCHANGED vars
  BY <1>3, CheckErrorsKeeps DEF vars, ParseInv, TypeOK
<1> QED
  BY <1>1, <1>2, <1>3 DEF Next

(* For command lines of every length the parse keeps its invariant: what   *)
(* the words mean as pairs is what the node and the captured variables     *)
(* hold, and the last word is the flag that the node waits for.            *)
THEOREM ParseInvariance == Spec => []ParseInv
<1>1. Init => ParseInv
  BY ParseInit
<1>2. ParseInv /\ [Next]_vars => ParseInv'
  BY ParseStep
<1> QED
  BY <1>1, <1>2, PTL DEF Spec

(* The types: among them, that what is stored for an option fits a size_t. *)
THEOREM TypeCorrect == Spec => []TypeOK
<1>1. ParseInv => TypeOK
  BY DEF ParseInv
<1> QED
  BY <1>1, ParseInvariance, PTL

(* The state machine that is fed one word at a time agrees with the        *)
(* reading of the whole command line as pairs of a flag and a value.       *)
THEOREM MachineReadsPairs == Spec => []ReadsPairs
<1>1. ParseInv => ReadsPairs
  BY DEF ParseInv
<1> QED
  BY <1>1, ParseInvariance, PTL

(* errno, which nothing clears, is never left over when a word is          *)
(* converted: the first range error ends the parse.                        *)
THEOREM NoStaleRangeError == Spec => []RangeErrorEndsParse
<1>1. ParseInv => RangeErrorEndsParse
  BY DEF ParseInv
<1> QED
  BY <1>1, ParseInvariance, PTL

(* Once in the error node the machine keeps the first message, and main    *)
(* never prints the message of an empty optional for a parse error.        *)
THEOREM FirstErrorStays == Spec => FirstErrorReported
<1> DEFINE Reported ==
      /\ current = "Error" => current' = "Error" /\ UNCHANGED captured
      /\ action' = "ErrorAction" /\ current = "Error"
           => captured.error_message # None
<1>1. ParseInv /\ [Next]_vars => [Reported]_vars
  <2> SUFFICES ASSUME ParseInv, [Next]_vars
               PROVE  Reported \/ UNCHANGED vars
    OBVIOUS
  <2>1. current = "Error" => captured.error_message # None
    BY DEF ParseInv, ErrorHasMessage
  <2>2. ASSUME NEW w \in Words, Consume(w)
        PROVE  Reported
    BY <2>1, <2>2, ConsumeFacts DEF Consumed
  <2>3. CASE CheckErrors
    BY <2>1, <2>3 DEF CheckErrors
  <2> QED
    BY <2>2, <2>3 DEF Next
<1> QED
  BY <1>1, ParseInvariance, PTL DEF Spec, FirstErrorReported

=============================================================================

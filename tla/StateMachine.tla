----------------------------- MODULE StateMachine -----------------------------
(***************************************************************************)
(* max::Containers::StateMachine: nodes in a tuple, each with a tuple of   *)
(* transitions, each with a matcher and a callback.  The fold expressions  *)
(* of the code visit every element of their tuple and rely on a flag to    *)
(* let only the first that fits act; so does Visit here.                   *)
(*                                                                         *)
(* A callback may change the variables its lambda captured, and returns    *)
(* the next node: Callback(name, captured, input) = [to |-> node,          *)
(* captured |-> the variables afterwards].                                 *)
(***************************************************************************)
EXTENDS Naturals, Sequences

CONSTANTS
  Anything,          \* AnythingMatcher; another matcher is the text it matches
  NoNode,            \* an empty optional of a node index
  Callback(_, _, _)

\* std::apply of ((visit(args)), ...): what the visits of elements 1 to k
\* leave is left[k].  A recursive function, so that it can be proved about.
Visit(visit(_, _), start, elements) ==
  LET left[k \in 0..Len(elements)] ==
        IF k = 0 THEN start ELSE visit(left[k - 1], elements[k])
  IN  left[Len(elements)]

DoesMatch(matcher, input) == matcher = Anything \/ matcher = input

\* Transition::AttemptTransition; acc is what the transitions before t left.
TryTransition(t, acc, input) ==
  IF DoesMatch(t.matcher, input)
    THEN Callback(t.callback, acc.captured, input)
    ELSE acc

\* Node::AttemptTransition calls the first transition that matches.
NodeAttempt(node, captured, input) ==
  Visit(
    LAMBDA acc, t : IF acc.to # NoNode THEN acc ELSE TryTransition(t, acc, input),
    [to |-> NoNode, captured |-> captured],
    node.outbound)

TryNode(n, acc, input) ==
  LET a == NodeAttempt(n, acc.captured, input)
  IN  IF acc.current = n.this /\ a.to # NoNode
        THEN [happened |-> TRUE, current |-> a.to, captured |-> a.captured]
        ELSE acc

\* AttemptTransition without the flag: the input goes on to later nodes.
AttemptTransition_EveryNode(nodes, current, captured, input) ==
  Visit(
    LAMBDA acc, n : TryNode(n, acc, input),
    [happened |-> FALSE, current |-> current, captured |-> captured],
    nodes)

\* StateMachine::AttemptTransition: the input is for the node that is current
\* when it arrives, and not for the one it leads to.
AttemptTransition(nodes, current, captured, input) ==
  Visit(
    LAMBDA acc, n : IF acc.happened THEN acc ELSE TryNode(n, acc, input),
    [happened |-> FALSE, current |-> current, captured |-> captured],
    nodes)

=============================================================================

-------------------------------- MODULE Mailbox --------------------------------
(***************************************************************************)
(* What task queues promise to those who post tasks and to those who run   *)
(* them: no lock, no event, no loop.  A task is accepted unless its queue  *)
(* is closed, and then waits in the box of its owner; an owner takes the   *)
(* tasks of its box one at a time in the order of their arrival, and stops *)
(* taking only when its box has been closed.                               *)
(***************************************************************************)
EXTENDS Naturals, Sequences

CONSTANTS
  Owners,   \* each has a box
  Senders,
  Tasks,
  None

VARIABLES
  unsent,  \* tasks nobody has sent yet
  sent,    \* [Senders -> post or None]: accepted, on its way to a box
  box,     \* [Owners -> Seq(Tasks)]
  hand,    \* [Owners -> task or None]: the task an owner is at
  closed,  \* [Owners -> BOOLEAN]
  gone     \* owners who take no more tasks

vars == <<unsent, sent, box, hand, closed, gone>>

Init ==
  /\ unsent = Tasks
  /\ sent = [s \in Senders |-> None]
  /\ box = [o \in Owners |-> <<>>]
  /\ hand = [o \in Owners |-> None]
  /\ closed = [o \in Owners |-> FALSE]
  /\ gone = {}

Send(s, o, k) ==
  /\ sent[s] = None
  /\ k \in unsent
  /\ unsent' = unsent \ {k}
  /\ \/ /\ ~closed[o]
        /\ sent' = [sent EXCEPT ![s] = [queue |-> o, task |-> k]]
     \/ /\ closed[o]
        /\ UNCHANGED sent
  /\ UNCHANGED <<box, hand, closed, gone>>

Arrive(s) ==
  /\ sent[s] # None
  /\ box' = [box EXCEPT ![sent[s].queue] = Append(@, sent[s].task)]
  /\ sent' = [sent EXCEPT ![s] = None]
  /\ UNCHANGED <<unsent, hand, closed, gone>>

Take(o) ==
  /\ o \notin gone
  /\ hand[o] = None
  /\ box[o] # <<>>
  /\ hand' = [hand EXCEPT ![o] = Head(box[o])]
  /\ box' = [box EXCEPT ![o] = Tail(@)]
  /\ UNCHANGED <<unsent, sent, closed, gone>>

Finish(o) ==
  /\ hand[o] # None
  /\ hand' = [hand EXCEPT ![o] = None]
  /\ UNCHANGED <<unsent, sent, box, closed, gone>>

Close(o) ==
  /\ closed' = [closed EXCEPT ![o] = TRUE]
  /\ UNCHANGED <<unsent, sent, box, hand, gone>>

Leave(o) ==
  /\ closed[o]
  /\ hand[o] = None
  /\ gone' = gone \cup {o}
  /\ UNCHANGED <<unsent, sent, box, hand, closed>>

Next ==
  \/ \E s \in Senders : Arrive(s) \/ \E o \in Owners, k \in Tasks : Send(s, o, k)
  \/ \E o \in Owners : Take(o) \/ Finish(o) \/ Close(o) \/ Leave(o)

Spec == Init /\ [][Next]_vars

-----------------------------------------------------------------------------
SentAt(s, k) == sent[s] # None /\ sent[s].task = k

BoxAt(o, i, k) == i \in DOMAIN box[o] /\ box[o][i] = k

(* The places of task k: with a sender, in a hand, at a position of a box. *)
Places(k) ==
  {<<"sent", s, 0>> : s \in {s \in Senders : SentAt(s, k)}}
    \cup {<<"hand", o, 0>> : o \in {o \in Owners : hand[o] = k}}
    \cup UNION {{<<"box", o, i>> : i \in {i \in DOMAIN box[o] : BoxAt(o, i, k)}} :
                 o \in Owners}

(* One owner per task: at every moment a task object is with its maker or  *)
(* in one place, so that it can never be run twice, whatever calls fail    *)
(* and whoever posts.                                                      *)
OneOwner ==
  \A k \in Tasks :
    /\ k \in unsent => Places(k) = {}
    /\ \A p, r \in Places(k) : p = r

=============================================================================

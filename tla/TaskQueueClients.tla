--------------------------- MODULE TaskQueueClients ---------------------------
(***************************************************************************)
(* TaskQueue under the most general use its interface admits.  Every       *)
(* thread that executes code of its own, a client or a runner before its   *)
(* loop, inside task->Run() or after its loop, may post a task or shut a   *)
(* queue down whenever it likes.                                           *)
(***************************************************************************)
EXTENDS TaskQueue, FiniteSets

CONSTANTS Tasks  \* the task objects

ASSUME TasksAssumption == None \notin Tasks

VARIABLES fresh  \* tasks still owned by their maker's unique_ptr

vars == <<queueVars, fresh>>

TypeOK ==
  /\ QueueTypeOK(Tasks)
  /\ fresh \subseteq Tasks

Init ==
  /\ QueueInit
  /\ fresh = Tasks

\* Thread t executes code outside TaskQueue.
OwnCode(t) ==
  /\ posting[t] = None /\ signalling[t] = None
  /\ t \in Runners => pc[t] \in {"idle", "run", "exited"}

\* A unique_ptr is moved into AddTask, so an object is posted at most once.
Post(t, q, k) ==
  /\ OwnCode(t)
  /\ k \in fresh
  /\ fresh' = fresh \ {k}
  /\ AddTaskCheck(t, q, k)

FinishPost(t) ==
  /\ AddTaskOkay(t) \/ AddTaskCouldNotSetEvent(t)
  /\ UNCHANGED fresh

CallShutdown(t, q) ==
  /\ OwnCode(t)
  /\ Shutdown(t, q)
  /\ UNCHANGED fresh

FinishShutdown(t) ==
  /\ ShutdownSignals(t)
  /\ UNCHANGED fresh

RunnerStep(t) ==
  /\ LoopStep(t) \/ RunReturns(t)
  /\ UNCHANGED fresh

Next ==
  \/ \E t \in Threads, q \in Runners :
       \/ \E k \in Tasks : Post(t, q, k)
       \/ CallShutdown(t, q)
  \/ \E t \in Threads : FinishPost(t) \/ FinishShutdown(t)
  \/ \E t \in Runners : RunnerStep(t)

(* A scheduled thread leaves a library call, its loop goes round and its   *)
(* tasks return; nobody is obliged to post or to shut down.  A thread that *)
(* wants a mutex gets it in the end, though others take it in between.     *)
Fairness ==
  /\ \A t \in Threads : SF_vars(FinishPost(t)) /\ WF_vars(FinishShutdown(t))
  /\ \A t \in Runners : SF_vars(RunnerStep(t))

Spec == Init /\ [][Next]_vars

FairSpec == Spec /\ Fairness

-----------------------------------------------------------------------------
(* No lost wakeup: a runner never sleeps in WaitForEvent while its queue   *)
(* holds a task or its Shutdown has been called.  It relies on TryPopTask  *)
(* resetting the event under the lock BEFORE it looks at the queue, and on *)
(* AddTask setting it under the lock after the push.                       *)
NoLostWakeup == \A t \in Runners : ~AsleepWithWork(t)

(* What makes NoLostWakeup inductive when one runner owns the event: from  *)
(* the moment TryPopTask found nothing until the wait, work that arrives   *)
(* leaves the event signalled.                                             *)
Signalled ==
  \A t \in Runners :
    /\ t \in parked => pc[t] = "waiting" /\ ~wakeEvent
    /\ pc[t] \in {"decide", "wait"} /\ queue[t] # <<>> => wakeEvent
    /\ pc[t] = "wait" /\ shuttingDown[t] => wakeEvent \/ Locked(t)
    /\ ~AsleepWithWork(t)

(* A posted task is taken by the loop unless the queue is shut down.  The  *)
(* exit is no idle exception: a Shutdown that overtakes the loop between   *)
(* its last TryPopTask and its look at shutting_down_ abandons a task that *)
(* AddTask had accepted with Okay.                                         *)
PostedIsTaken ==
  \A q \in Runners : queue[q] # <<>> ~> (queue[q] = <<>> \/ shuttingDown[q])

(* A queue that is shut down lets go of its runner.                        *)
ShutdownEndsLoop ==
  \A q \in Runners : shuttingDown[q] ~> pc[q] = "exited"

(* The queues keep the promise of Mailbox, which knows no event, no mutex  *)
(* and no loop: a task is accepted unless its queue is shut down, accepted *)
(* tasks are taken once each, by their queue's runner, one at a time and   *)
(* first in first out, and a runner leaves only after a Shutdown, however  *)
(* the threads interleave and whichever event calls fail.                  *)
Mail == INSTANCE Mailbox WITH
  Owners <- Runners,
  Senders <- Threads,
  unsent <- fresh,
  sent <- posting,
  box <- queue,
  hand <- running,
  closed <- shuttingDown,
  gone <- {t \in Runners : pc[t] = "exited"}

ImplementsMailbox == Mail!Spec

(* One owner per task: at every moment a task object is with its maker, in *)
(* one AddTask, in one place of one queue, or in one running loop, so it   *)
(* can never be run twice, whatever calls fail and whoever posts.          *)
OneOwner == Mail!OneOwner

=============================================================================

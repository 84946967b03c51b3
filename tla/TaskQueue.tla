------------------------------ MODULE TaskQueue ------------------------------
(***************************************************************************)
(* max::Hardware::CPU::TaskQueue and TaskRunnerLoop.                       *)
(*                                                                         *)
(* A TaskQueue is a FIFO of tasks, a mutex, a shutting_down_ flag and a    *)
(* manual-reset Win32 event.  A runner is a thread that executes           *)
(* TaskRunnerLoop on the queue of its own; any thread may call AddTask and *)
(* Shutdown on any queue.                                                  *)
(*                                                                         *)
(* CreateTaskQueue names its event "wake_event_".  CreateEvent on a name   *)
(* that exists opens the existing object, so every queue of the process    *)
(* holds a handle to ONE event: the variable wakeEvent has no index.       *)
(*                                                                         *)
(* Grain.  What a thread does to one shared object between two looks of    *)
(* other threads is a step.  The mutex hides the queue, but not the event  *)
(* nor shutting_down_, which AddTask and the loop read unlocked: Shutdown  *)
(* is two steps, its flag and its SetEvent, with the mutex held between.   *)
(* The other critical sections touch the queue and the event once each and *)
(* are one step.                                                           *)
(***************************************************************************)
EXTENDS Naturals, Sequences

CONSTANTS
  Runners,  \* threads that run TaskRunnerLoop, each on its own queue
  Clients,  \* threads that only call AddTask and Shutdown
  Faults,   \* event calls that may fail: any of "SetEvent", "ResetEvent", "Wait"
  None      \* an empty unique_ptr<Task>

Threads == Runners \cup Clients

VARIABLES
  queue,         \* [Runners -> Seq(task)]: task_queue_
  shuttingDown,  \* [Runners -> BOOLEAN]: shutting_down_
  wakeEvent,     \* is the one event object signalled?
  parked,        \* runners blocked inside WaitForMultipleObjects
  pc,            \* [Runners -> LoopPoints]: where a runner is in the loop
  running,       \* [Runners -> task or None]: the loop's local `task`
  posting,       \* [Threads -> post or None]: an AddTask past its flag check
  signalling     \* [Threads -> queue or None]: a Shutdown before its SetEvent

queueVars ==
  <<queue, shuttingDown, wakeEvent, parked, pc, running, posting, signalling>>

LoopPoints ==
  {"idle",    \* TaskRunnerLoop not entered yet
   "pop",     \* about to call TryPopTask
   "run",     \* inside task->Run()
   "decide",  \* TryPopTask returned nullptr: about to read shutting_down_
   "wait",    \* about to wait for the event
   "waiting", \* inside the wait, or released from it and about to reset
   "exited"}  \* TaskRunnerLoop returned

QueueTypeOK(T) ==
  /\ queue \in [Runners -> Seq(T)]
  /\ shuttingDown \in [Runners -> BOOLEAN]
  /\ wakeEvent \in BOOLEAN
  /\ parked \subseteq Runners
  /\ pc \in [Runners -> LoopPoints]
  /\ running \in [Runners -> T \cup {None}]
  /\ posting \in [Threads -> [queue : Runners, task : T] \cup {None}]
  /\ signalling \in [Threads -> Runners \cup {None}]

QueueInit ==
  /\ queue = [q \in Runners |-> <<>>]
  /\ shuttingDown = [q \in Runners |-> FALSE]
  /\ wakeEvent = FALSE
  /\ parked = {}
  /\ pc = [t \in Runners |-> "idle"]
  /\ running = [t \in Runners |-> None]
  /\ posting = [t \in Threads |-> None]
  /\ signalling = [t \in Threads |-> None]

\* A Shutdown holds the mutex of queue q.
Locked(q) == \E t \in Threads : signalling[t] = q

-----------------------------------------------------------------------------
(* Operators named <Operation>_<Fault> are what a plausible bug would make *)
(* of the operation after them; README.md says which property each breaks. *)

(* The event.  Setting a manual-reset event releases every waiting thread. *)

SetEvent ==
  /\ wakeEvent' = TRUE
  /\ parked' = {}

SetEventFails ==
  /\ "SetEvent" \in Faults
  /\ UNCHANGED <<wakeEvent, parked>>

ResetEvent == wakeEvent' = FALSE

ResetEventFails ==
  /\ "ResetEvent" \in Faults
  /\ UNCHANGED wakeEvent

-----------------------------------------------------------------------------
(* AddTask: an unlocked look at shutting_down_, then a locked push.        *)

AddTaskCheck_OwnQueue(t, q, k) ==
  /\ posting[t] = None
  /\ posting' = IF shuttingDown[q] THEN posting
                ELSE [posting EXCEPT ![t] = [queue |-> t, task |-> k]]
  /\ UNCHANGED <<queue, shuttingDown, wakeEvent, parked, pc, running, signalling>>

\* If the flag is set, AddTask returns ShuttingDown and the task dies with
\* its unique_ptr; if not, thread t goes on to lock queue q and push task k.
AddTaskCheck(t, q, k) ==
  /\ posting[t] = None
  /\ posting' = IF shuttingDown[q] THEN posting
                ELSE [posting EXCEPT ![t] = [queue |-> q, task |-> k]]
  /\ UNCHANGED <<queue, shuttingDown, wakeEvent, parked, pc, running, signalling>>

\* The locked part pushes the task, whatever SetEvent then returns.
AddTaskPush(t) ==
  /\ posting[t] # None
  /\ ~Locked(posting[t].queue)
  /\ LET q == posting[t].queue
     IN  queue' = [queue EXCEPT ![q] = Append(@, posting[t].task)]
  /\ posting' = [posting EXCEPT ![t] = None]
  /\ UNCHANGED <<shuttingDown, pc, running, signalling>>

AddTaskOkay_NoSetEvent(t) == AddTaskPush(t) /\ UNCHANGED <<wakeEvent, parked>>

AddTaskOkay(t) == AddTaskPush(t) /\ SetEvent

AddTaskCouldNotSetEvent(t) == AddTaskPush(t) /\ SetEventFails

\* Shutdown of queue q by thread t, as far as its flag.
Shutdown(t, q) ==
  /\ ~Locked(q)
  /\ shuttingDown' = [shuttingDown EXCEPT ![q] = TRUE]
  /\ signalling' = [signalling EXCEPT ![t] = q]
  /\ UNCHANGED <<queue, wakeEvent, parked, pc, running, posting>>

ShutdownSignals_NoSetEvent(t) ==
  /\ signalling[t] # None
  /\ signalling' = [signalling EXCEPT ![t] = None]
  /\ UNCHANGED <<queue, shuttingDown, wakeEvent, parked, pc, running, posting>>

\* Its SetEvent; every caller ignores the result.
ShutdownSignals(t) ==
  /\ signalling[t] # None
  /\ signalling' = [signalling EXCEPT ![t] = None]
  /\ SetEvent \/ SetEventFails
  /\ UNCHANGED <<queue, shuttingDown, pc, running, posting>>

-----------------------------------------------------------------------------
(* TaskRunnerLoop on the runner's own queue.                               *)

Goto(t, from, to) ==
  /\ pc[t] = from
  /\ pc' = [pc EXCEPT ![t] = to]

EnterLoop(t) ==
  /\ Goto(t, "idle", "pop")
  /\ UNCHANGED <<queue, shuttingDown, wakeEvent, parked, running, posting, signalling>>

\* TryPopTask resets the event first, then looks at its own queue.
PopTask(t) ==
  /\ Goto(t, "pop", "run")
  /\ ~Locked(t)
  /\ ResetEvent
  /\ queue[t] # <<>>
  /\ running' = [running EXCEPT ![t] = Head(queue[t])]
  /\ queue' = [queue EXCEPT ![t] = Tail(@)]
  /\ UNCHANGED <<shuttingDown, parked, posting, signalling>>

\* nullptr: the queue is empty, or ResetEvent failed and it was not looked at.
PopNothing(t) ==
  /\ Goto(t, "pop", "decide")
  /\ ~Locked(t)
  /\ \/ ResetEvent /\ queue[t] = <<>>
     \/ ResetEventFails
  /\ UNCHANGED <<queue, shuttingDown, parked, running, posting, signalling>>

\* task->Run() returned; the unique_ptr goes out of scope.
RunReturns(t) ==
  /\ Goto(t, "run", "pop")
  /\ posting[t] = None /\ signalling[t] = None
  /\ running' = [running EXCEPT ![t] = None]
  /\ UNCHANGED <<queue, shuttingDown, wakeEvent, parked, posting, signalling>>

\* TryPopTask resetting the event after its look at the queue, unlocked.
Decide_ResetsLate(t) ==
  /\ Goto(t, "decide", IF shuttingDown[t] THEN "exited" ELSE "wait")
  /\ ResetEvent
  /\ UNCHANGED <<queue, shuttingDown, parked, running, posting, signalling>>

Decide(t) ==
  /\ Goto(t, "decide", IF shuttingDown[t] THEN "exited" ELSE "wait")
  /\ UNCHANGED <<queue, shuttingDown, wakeEvent, parked, running, posting, signalling>>

\* WaitForMultipleObjects returns at once if the event is signalled.
StartWait(t) ==
  /\ Goto(t, "wait", "waiting")
  /\ parked' = IF wakeEvent THEN parked ELSE parked \cup {t}
  /\ UNCHANGED <<queue, shuttingDown, wakeEvent, running, posting, signalling>>

\* The loop taking CouldNotWait for its end.
WaitFails_LeavesLoop(t) ==
  /\ "Wait" \in Faults
  /\ Goto(t, "wait", "exited")
  /\ UNCHANGED <<queue, shuttingDown, wakeEvent, parked, running, posting, signalling>>

\* The loop ignores CouldNotWait and goes around again.
WaitFails(t) ==
  /\ "Wait" \in Faults
  /\ Goto(t, "wait", "pop")
  /\ UNCHANGED <<queue, shuttingDown, wakeEvent, parked, running, posting, signalling>>

\* A released thread that looks at the event again, as if others' resets were
\* none of its business, before it goes on.
EndWait_LooksAgain(t) ==
  /\ t \notin parked /\ wakeEvent
  /\ Goto(t, "waiting", "pop")
  /\ ResetEvent \/ ResetEventFails
  /\ UNCHANGED <<queue, shuttingDown, parked, running, posting, signalling>>

\* Released: WaitForEvent resets the event before it returns.
EndWait(t) ==
  /\ t \notin parked
  /\ Goto(t, "waiting", "pop")
  /\ ResetEvent \/ ResetEventFails
  /\ UNCHANGED <<queue, shuttingDown, parked, running, posting, signalling>>

\* Every step of the loop outside task->Run().
LoopStep(t) ==
  \/ EnterLoop(t)
  \/ PopTask(t)
  \/ PopNothing(t)
  \/ Decide(t)
  \/ StartWait(t)
  \/ WaitFails(t)
  \/ EndWait(t)

-----------------------------------------------------------------------------
(* A runner asleep with work to do: parked in the wait although its queue  *)
(* holds a task or its Shutdown was called and will not signal any more.   *)
(* Nobody but the next SetEvent, by whichever thread, can wake it.         *)
AsleepWithWork(t) ==
  /\ t \in parked
  /\ queue[t] # <<>> \/ (shuttingDown[t] /\ ~Locked(t))

=============================================================================

---------------------------- MODULE TaskQueueMutex ----------------------------
(***************************************************************************)
(* Task queues with task_queue_mutex_ as a lock of its own: what TaskQueue *)
(* makes one step of, AddTask's push and SetEvent, or TryPopTask's reset   *)
(* and look, is here a step per statement, with the mutex taken before and *)
(* given back after.  The threads are the clients of TaskQueueClients, and *)
(* ImplementsTaskQueue says that the coarser steps leave nothing out.      *)
(***************************************************************************)
EXTENDS Naturals, Sequences

CONSTANTS
  Runners,  \* threads that run TaskRunnerLoop, each on its own queue
  Clients,  \* threads that only call AddTask and Shutdown
  Faults,   \* event calls that may fail: any of "SetEvent", "ResetEvent", "Wait"
  Tasks,    \* the task objects
  None      \* an empty unique_ptr<Task>; no thread, no call

Threads == Runners \cup Clients

VARIABLES
  mutex,         \* [Runners -> thread or None]: who holds task_queue_mutex_
  queue,         \* [Runners -> Seq(Tasks)]: task_queue_
  shuttingDown,  \* [Runners -> BOOLEAN]: shutting_down_
  wakeEvent,     \* is the one event object signalled?
  parked,        \* runners blocked inside WaitForMultipleObjects
  pc,            \* [Runners -> LoopPoints]: where a runner is in the loop
  task,          \* [Runners -> task or None]: `task` of TryPopTask, then of the loop
  call,          \* [Threads -> an AddTask or Shutdown in progress, or None]
  fresh          \* tasks still owned by their maker's unique_ptr

vars == <<mutex, queue, shuttingDown, wakeEvent, parked, pc, task, call, fresh>>

LoopPoints ==
  {"idle",     \* TaskRunnerLoop not entered yet
   "lock",     \* TryPopTask: about to lock the mutex,
   "reset",    \*             to reset the event,
   "look",     \*             to look at the queue and pop,
   "unlock",   \*             to unlock and return
   "run",      \* inside task->Run()
   "decide",   \* TryPopTask returned nullptr: about to read shutting_down_
   "wait",     \* about to wait for the event
   "waiting",  \* inside the wait, or released from it and about to reset
   "exited"}   \* TaskRunnerLoop returned

\* A call of AddTask past its look at the flag, or of Shutdown, which has no
\* task: about to lock, to push or to set the flag, to set the event, to unlock.
Calls ==
  [queue : Runners, task : Tasks \cup {None}, at : {"lock", "change", "signal", "unlock"}]

\* A call of AddTask, as TaskQueueClients writes it down.
Posts == [queue : Runners, task : Tasks]

ASSUME NoneAssumption == None \notin Threads \cup Tasks \cup Calls \cup Posts

IsAddTask(c) == c # None /\ c.task # None

IsShutdown(c) == c # None /\ c.task = None

TypeOK ==
  /\ mutex \in [Runners -> Threads \cup {None}]
  /\ queue \in [Runners -> Seq(Tasks)]
  /\ shuttingDown \in [Runners -> BOOLEAN]
  /\ wakeEvent \in BOOLEAN
  /\ parked \subseteq Runners
  /\ pc \in [Runners -> LoopPoints]
  /\ task \in [Runners -> Tasks \cup {None}]
  /\ call \in [Threads -> Calls \cup {None}]
  /\ fresh \subseteq Tasks

Init ==
  /\ mutex = [q \in Runners |-> None]
  /\ queue = [q \in Runners |-> <<>>]
  /\ shuttingDown = [q \in Runners |-> FALSE]
  /\ wakeEvent = FALSE
  /\ parked = {}
  /\ pc = [t \in Runners |-> "idle"]
  /\ task = [t \in Runners |-> None]
  /\ call = [t \in Threads |-> None]
  /\ fresh = Tasks

-----------------------------------------------------------------------------
(* Operators named <Operation>_<Fault> are what a plausible bug would make *)
(* of the operation after them; README.md says which property each breaks. *)

Lock_DoesNotWait(q, t) == mutex' = [mutex EXCEPT ![q] = t]

\* lock_guard of the mutex of queue q by thread t.
Lock(q, t) ==
  /\ mutex[q] = None
  /\ mutex' = [mutex EXCEPT ![q] = t]

Unlock(q) == mutex' = [mutex EXCEPT ![q] = None]

SetEvent ==
  \/ wakeEvent' = TRUE /\ parked' = {}
  \/ "SetEvent" \in Faults /\ UNCHANGED <<wakeEvent, parked>>

-----------------------------------------------------------------------------
(* AddTask and Shutdown, called by a thread in code of its own.            *)

OwnCode(t) ==
  /\ call[t] = None
  /\ t \in Runners => pc[t] \in {"idle", "run", "exited"}

Begin(t, q, k) ==
  call' = [call EXCEPT ![t] = [queue |-> q, task |-> k, at |-> "lock"]]

\* AddTask as far as its unlocked look at shutting_down_.
CallAddTask(t, q, k) ==
  /\ OwnCode(t)
  /\ k \in fresh
  /\ fresh' = fresh \ {k}
  /\ IF shuttingDown[q] THEN UNCHANGED call ELSE Begin(t, q, k)
  /\ UNCHANGED <<mutex, queue, shuttingDown, wakeEvent, parked, pc, task>>

CallShutdown(t, q) ==
  /\ OwnCode(t)
  /\ Begin(t, q, None)
  /\ UNCHANGED <<mutex, queue, shuttingDown, wakeEvent, parked, pc, task, fresh>>

CallGoto(t, from, to) ==
  /\ call[t] # None /\ call[t].at = from
  /\ call' = [call EXCEPT ![t].at = to]

LockForCall(t) ==
  /\ CallGoto(t, "lock", "change")
  /\ Lock(call[t].queue, t)
  /\ UNCHANGED <<queue, shuttingDown, wakeEvent, parked, pc, task, fresh>>

\* The scope of the guard ended before SetEvent.
Push_Unlocks(t) ==
  /\ CallGoto(t, "change", "signal")
  /\ call[t].task # None
  /\ queue' = [queue EXCEPT ![call[t].queue] = Append(@, call[t].task)]
  /\ Unlock(call[t].queue)
  /\ UNCHANGED <<shuttingDown, wakeEvent, parked, pc, task, fresh>>

Push(t) ==
  /\ CallGoto(t, "change", "signal")
  /\ call[t].task # None
  /\ queue' = [queue EXCEPT ![call[t].queue] = Append(@, call[t].task)]
  /\ UNCHANGED <<mutex, shuttingDown, wakeEvent, parked, pc, task, fresh>>

SetFlag(t) ==
  /\ CallGoto(t, "change", "signal")
  /\ call[t].task = None
  /\ shuttingDown' = [shuttingDown EXCEPT ![call[t].queue] = TRUE]
  /\ UNCHANGED <<mutex, queue, wakeEvent, parked, pc, task, fresh>>

Signal(t) ==
  /\ CallGoto(t, "signal", "unlock")
  /\ SetEvent
  /\ UNCHANGED <<mutex, queue, shuttingDown, pc, task, fresh>>

\* The guard's destructor, as the call returns.
CallReturns(t) ==
  /\ call[t] # None /\ call[t].at = "unlock"
  /\ call' = [call EXCEPT ![t] = None]
  /\ Unlock(call[t].queue)
  /\ UNCHANGED <<queue, shuttingDown, wakeEvent, parked, pc, task, fresh>>

CallStep(t) ==
  LockForCall(t) \/ Push(t) \/ SetFlag(t) \/ Signal(t) \/ CallReturns(t)

-----------------------------------------------------------------------------
(* TaskRunnerLoop on the runner's own queue.                               *)

Goto(t, from, to) ==
  /\ pc[t] = from
  /\ pc' = [pc EXCEPT ![t] = to]

EnterLoop(t) ==
  /\ Goto(t, "idle", "lock")
  /\ call[t] = None
  /\ UNCHANGED <<mutex, queue, shuttingDown, wakeEvent, parked, task, call, fresh>>

LockToPop(t) ==
  /\ Goto(t, "lock", "reset")
  /\ Lock(t, t)
  /\ UNCHANGED <<queue, shuttingDown, wakeEvent, parked, task, call, fresh>>

\* A ResetEvent that fails makes TryPopTask return before it looks.
Reset(t) ==
  /\ \/ Goto(t, "reset", "look") /\ wakeEvent' = FALSE
     \/ Goto(t, "reset", "unlock") /\ "ResetEvent" \in Faults /\ UNCHANGED wakeEvent
  /\ UNCHANGED <<mutex, queue, shuttingDown, parked, task, call, fresh>>

Look_LeavesFront(t) ==
  /\ Goto(t, "look", "unlock")
  /\ task' = [task EXCEPT ![t] = IF queue[t] = <<>> THEN None ELSE Head(queue[t])]
  /\ UNCHANGED <<mutex, queue, shuttingDown, wakeEvent, parked, call, fresh>>

Look_TakesNewest(t) ==
  /\ Goto(t, "look", "unlock")
  /\ IF queue[t] = <<>> THEN UNCHANGED <<task, queue>>
     ELSE /\ task' = [task EXCEPT ![t] = queue[t][Len(queue[t])]]
          /\ queue' = [queue EXCEPT ![t] = SubSeq(@, 1, Len(@) - 1)]
  /\ UNCHANGED <<mutex, shuttingDown, wakeEvent, parked, call, fresh>>

\* empty(), front() and pop().
Look(t) ==
  /\ Goto(t, "look", "unlock")
  /\ IF queue[t] = <<>> THEN UNCHANGED <<task, queue>>
     ELSE /\ task' = [task EXCEPT ![t] = Head(queue[t])]
          /\ queue' = [queue EXCEPT ![t] = Tail(@)]
  /\ UNCHANGED <<mutex, shuttingDown, wakeEvent, parked, call, fresh>>

PopReturns(t) ==
  /\ Goto(t, "unlock", IF task[t] # None THEN "run" ELSE "decide")
  /\ Unlock(t)
  /\ UNCHANGED <<queue, shuttingDown, wakeEvent, parked, task, call, fresh>>

\* task->Run() returned; the unique_ptr goes out of scope.
RunReturns(t) ==
  /\ Goto(t, "run", "lock")
  /\ call[t] = None
  /\ task' = [task EXCEPT ![t] = None]
  /\ UNCHANGED <<mutex, queue, shuttingDown, wakeEvent, parked, call, fresh>>

Decide(t) ==
  /\ Goto(t, "decide", IF shuttingDown[t] THEN "exited" ELSE "wait")
  /\ UNCHANGED <<mutex, queue, shuttingDown, wakeEvent, parked, task, call, fresh>>

\* WaitForMultipleObjects returns at once if the event is signalled; a wait
\* that fails sends the loop around again.
Wait(t) ==
  /\ \/ /\ Goto(t, "wait", "waiting")
        /\ parked' = IF wakeEvent THEN parked ELSE parked \cup {t}
     \/ /\ "Wait" \in Faults
        /\ Goto(t, "wait", "lock")
        /\ UNCHANGED parked
  /\ UNCHANGED <<mutex, queue, shuttingDown, wakeEvent, task, call, fresh>>

\* Released, WaitForEvent resets the event without the mutex.
EndWait(t) ==
  /\ t \notin parked
  /\ Goto(t, "waiting", "lock")
  /\ wakeEvent' = FALSE \/ ("ResetEvent" \in Faults /\ UNCHANGED wakeEvent)
  /\ UNCHANGED <<mutex, queue, shuttingDown, parked, task, call, fresh>>

LoopStep(t) ==
  \/ EnterLoop(t) \/ LockToPop(t) \/ Reset(t) \/ Look(t) \/ PopReturns(t)
  \/ RunReturns(t) \/ Decide(t) \/ Wait(t) \/ EndWait(t)

Next ==
  \/ \E t \in Threads, q \in Runners :
       CallShutdown(t, q) \/ \E k \in Tasks : CallAddTask(t, q, k)
  \/ \E t \in Threads : CallStep(t)
  \/ \E t \in Runners : LoopStep(t)

Spec == Init /\ [][Next]_vars

-----------------------------------------------------------------------------
(* Threads that are in a critical section of queue q.                      *)
Inside(q) ==
  {t \in Threads : call[t] # None /\ call[t].queue = q /\ call[t].at # "lock"}
    \cup (IF pc[q] \in {"reset", "look", "unlock"} THEN {q} ELSE {})

(* The mutex holds exactly one thread in, whatever calls fail, and every   *)
(* early return gives it back; a pushed task is the last of the queue until*)
(* its SetEvent; nobody holds one mutex while waiting for another.         *)
MutexInv ==
  /\ TypeOK
  /\ \A q \in Runners : Inside(q) = IF mutex[q] = None THEN {} ELSE {mutex[q]}
  /\ \A t \in Threads : IsAddTask(call[t]) /\ call[t].at = "signal" =>
       LET s == queue[call[t].queue]
       IN  s # <<>> /\ s[Len(s)] = call[t].task
  /\ \A t \in Runners :
       /\ call[t] # None => pc[t] \in {"idle", "run", "exited"}
       /\ pc[t] = "run" => task[t] # None
       /\ task[t] # None => pc[t] \in {"unlock", "run"}

-----------------------------------------------------------------------------
(* The coarser steps.  A push counts from its SetEvent on, a pop from its  *)
(* ResetEvent on: the one statement of each that threads without the mutex *)
(* can see.                                                                *)

Pushing(q) ==
  \E t \in Threads : IsAddTask(call[t]) /\ call[t].queue = q /\ call[t].at = "signal"

\* A TryPopTask that has reset the event will find the queue as it is.
Popping(q) == pc[q] = "look" /\ queue[q] # <<>>

Arrived(q) ==
  CASE Pushing(q) -> SubSeq(queue[q], 1, Len(queue[q]) - 1)
    [] Popping(q) -> Tail(queue[q])
    [] OTHER      -> queue[q]

Running(t) == IF Popping(t) THEN Head(queue[t]) ELSE task[t]

LoopPoint(t) ==
  CASE pc[t] \in {"lock", "reset"}  -> "pop"
    [] pc[t] \in {"look", "unlock"} -> IF Running(t) # None THEN "run" ELSE "decide"
    [] OTHER                        -> pc[t]

Posting(t) ==
  IF IsAddTask(call[t]) /\ call[t].at # "unlock"
    THEN [queue |-> call[t].queue, task |-> call[t].task]
    ELSE None

Signalling(t) ==
  IF IsShutdown(call[t]) /\ call[t].at = "signal" THEN call[t].queue ELSE None

Coarse == INSTANCE TaskQueueClients WITH
  queue <- [q \in Runners |-> Arrived(q)],
  pc <- [t \in Runners |-> LoopPoint(t)],
  running <- [t \in Runners |-> Running(t)],
  posting <- [t \in Threads |-> Posting(t)],
  signalling <- [t \in Threads |-> Signalling(t)]

(* Every behaviour of the statements is one of TaskQueue's steps, so that  *)
(* what is shown of those holds of the code at the grain of its statements.*)
ImplementsTaskQueue == Coarse!Spec

(* A task is accepted unless its queue is shut down, waits in order and is *)
(* taken once, by the queue's runner, statement by statement.              *)
ImplementsMailbox == Coarse!ImplementsMailbox

(* One owner per task: with its maker, in one AddTask, in one place of one *)
(* queue, or in one running loop, even in the middle of a call.            *)
OneOwner == Coarse!OneOwner

=============================================================================

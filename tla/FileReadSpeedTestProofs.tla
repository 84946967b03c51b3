----------------------- MODULE FileReadSpeedTestProofs -----------------------
(***************************************************************************)
(* Proofs about the measuring phase, for every number of threads, queue    *)
(* depth, buffer and file size, and whatever Win32 calls fail.             *)
(***************************************************************************)
EXTENDS FileReadSpeedTest, FiniteSetTheorems, TLAPS

(* The threads are the workers, numbered from 0, and main. *)
LEMMA Constants ==
  /\ Threads = Workers \cup {Main}
  /\ Runners = Threads
  /\ Main \notin Workers
  /\ Workers \subseteq Nat
  /\ IsFiniteSet(Workers)
  /\ Cardinality(Workers) = ThreadCount
<1>1. /\ IsFiniteSet(Workers)
      /\ Cardinality(Workers) = ThreadCount
  BY FS_Interval, SizesAssumption DEF Workers
<1> QED
  BY <1>1, ThreadsAssumption, SizesAssumption DEF Threads, Workers, Main

(* The distance between two reads of a chain is a natural number. *)
LEMMA IntervalType == ReadInterval \in Nat
  BY SizesAssumption DEF ReadInterval

(* A task is a Finished or a read task, never both. *)
LEMMA TaskKinds ==
  /\ Finished \notin ReadTasks
  /\ \A t \in Threads : TasksOf(t) \subseteq Tasks
  BY DEF Finished, ReadTasks, TasksOf, Tasks

-----------------------------------------------------------------------------
(* Types.                                                                  *)

TypeInv == TypeOK /\ Kinds

(* The loop: only TryPopTask moves a task, from the thread's own queue.    *)
LEMMA LoopTypes ==
  ASSUME TypeInv, NEW t \in Threads, Loop(t)
  PROVE  TypeInv'
<1> USE Constants DEF TypeInv, TypeOK, QueueTypeOK, LoopPoints, Kinds
<1>1. CASE PopTask(t)
  <2>1. queue[t] \in Seq(TasksOf(t))
    BY DEF TasksOf
  <2>2. /\ Head(queue[t]) \in TasksOf(t)
        /\ Tail(queue[t]) \in Seq(TasksOf(t))
    BY <2>1, <1>1 DEF PopTask
  <2>3. queue' = [queue EXCEPT ![t] = Tail(queue[t])]
    BY <1>1 DEF PopTask
  <2>4. queue' \in [Runners -> Seq(Tasks)]
    <3>1. Tail(queue[t]) \in Seq(Tasks)
      BY <1>1 DEF PopTask
    <3> QED
      BY <2>3, <3>1
  <2>5. /\ \A w \in Workers : queue'[w] \in Seq(ReadTasks)
        /\ queue'[Main] \in Seq({Finished})
    BY <2>2, <2>3 DEF TasksOf
  <2>6. running' = [running EXCEPT ![t] = Head(queue[t])]
    BY <1>1 DEF PopTask
  <2>7. running' \in [Runners -> Tasks \cup {None}]
    BY <2>2, <2>6, TaskKinds
  <2>8. \A u \in Threads : pc'[u] = "run" => running'[u] \in TasksOf(u)
    BY <2>2, <2>6, <1>1 DEF PopTask, Goto
  <2> QED
    BY <1>1, <2>4, <2>5, <2>7, <2>8
    DEF PopTask, Goto, ResetEvent, Loop, ioVars
<1>2. CASE ~PopTask(t)
  <2>1. /\ \A u \in Threads : pc'[u] = "run" => pc[u] = "run"
        /\ UNCHANGED <<queue, running, posting, step>>
    BY <1>2 DEF Loop, LoopStep, EnterLoop, PopNothing, Decide, StartWait,
                WaitFails, EndWait, Goto
  <2>2. /\ pc' \in [Runners -> LoopPoints]
        /\ wakeEvent' \in BOOLEAN
        /\ parked' \subseteq Runners
    <3>1. /\ pc \in [Runners -> LoopPoints]
          /\ wakeEvent \in BOOLEAN
          /\ parked \subseteq Runners
          /\ t \in Runners
      OBVIOUS
    <3> HIDE DEF TypeInv
    <3>2. CASE EnterLoop(t) \/ Decide(t) \/ WaitFails(t)
      BY <3>1, <3>2 DEF EnterLoop, Decide, WaitFails, Goto
    <3>3. CASE PopNothing(t) \/ EndWait(t)
      BY <3>1, <3>3 DEF PopNothing, EndWait, Goto, ResetEvent, ResetEventFails
    <3>4. CASE StartWait(t)
      BY <3>1, <3>4 DEF StartWait, Goto
    <3> QED
      BY <1>2, <3>2, <3>3, <3>4 DEF Loop, LoopStep
  <2>3. UNCHANGED <<shuttingDown, signalling>>
    BY <1>2 DEF Loop, LoopStep, EnterLoop, PopNothing, Decide, StartWait,
                WaitFails, EndWait
  <2> QED
    BY <2>1, <2>2, <2>3 DEF Loop, ioVars
<1> QED
  BY <1>1, <1>2

(* AddTask: the task of a post has the kind of the queue it goes to.       *)
LEMMA CheckTypes ==
  ASSUME TypeInv, NEW t \in Threads, NEW q \in Threads, NEW k \in TasksOf(q),
         AddTaskCheck(t, q, k)
  PROVE  QueueTypeOK(Tasks)' /\ Kinds'
<1>1. [queue |-> q, task |-> k] \in [queue : Runners, task : Tasks]
  BY Constants, TaskKinds
<1> QED
  BY <1>1, Constants, TaskKinds
  DEF AddTaskCheck, TypeInv, TypeOK, QueueTypeOK, Kinds

(* The locked part of AddTask puts a task of the right kind into the queue. *)
LEMMA PushTypes ==
  ASSUME TypeInv, NEW t \in Threads, AddTaskOkay(t) \/ AddTaskCouldNotSetEvent(t)
  PROVE  /\ QueueTypeOK(Tasks)'
         /\ Kinds'
         /\ \A w \in Workers : queue'[w] \in Seq(ReadTasks)
         /\ queue'[Main] \in Seq({Finished})
<1> USE Constants DEF TypeInv, TypeOK, QueueTypeOK
<1>1. /\ AddTaskPush(t)
      /\ wakeEvent' \in BOOLEAN
      /\ parked' \subseteq Runners
  BY DEF AddTaskOkay, AddTaskCouldNotSetEvent, SetEvent, SetEventFails
<1> DEFINE q == posting[t].queue
           k == posting[t].task
<1>2. /\ q \in Threads
      /\ k \in Tasks
      /\ k \in TasksOf(q)
  BY <1>1 DEF AddTaskPush, Kinds
<1>3. queue' = [queue EXCEPT ![q] = Append(queue[q], k)]
  BY <1>1 DEF AddTaskPush
<1>4. queue[q] \in Seq(TasksOf(q))
  BY <1>2 DEF TasksOf
<1>5. /\ Append(queue[q], k) \in Seq(TasksOf(q))
      /\ Append(queue[q], k) \in Seq(Tasks)
  <2> HIDE DEF q, k
  <2> QED
    BY <1>2, <1>4
<1>6. /\ queue' \in [Runners -> Seq(Tasks)]
      /\ \A w \in Workers : queue'[w] \in Seq(ReadTasks)
      /\ queue'[Main] \in Seq({Finished})
  <2> HIDE DEF q, k
  <2> QED
    BY <1>2, <1>3, <1>5 DEF TasksOf
<1>7. /\ posting' = [posting EXCEPT ![t] = None]
      /\ UNCHANGED <<shuttingDown, pc, running, signalling>>
  BY <1>1 DEF AddTaskPush
<1>8. Kinds'
  BY <1>7 DEF Kinds
<1> QED
  BY <1>1, <1>6, <1>7, <1>8

(* Neither step of Shutdown changes a type or a task. *)
LEMMA ShutdownTypes ==
  ASSUME TypeInv, NEW q \in Threads, Shutdown(Main, q) \/ ShutdownSignals(Main)
  PROVE  QueueTypeOK(Tasks)' /\ Kinds'
<1>1. UNCHANGED <<queue, pc, running, posting>>
  BY DEF Shutdown, ShutdownSignals
<1>2. /\ shuttingDown' \in [Runners -> BOOLEAN]
      /\ signalling' \in [Threads -> Runners \cup {None}]
  <2>1. /\ shuttingDown \in [Runners -> BOOLEAN]
        /\ signalling \in [Threads -> Runners \cup {None}]
        /\ q \in Runners
    BY Constants DEF TypeInv, TypeOK, QueueTypeOK
  <2>2. CASE Shutdown(Main, q)
    BY <2>1, <2>2 DEF Shutdown
  <2>3. CASE ShutdownSignals(Main)
    BY <2>1, <2>3 DEF ShutdownSignals
  <2> QED
    BY <2>2, <2>3
<1>3. wakeEvent' \in BOOLEAN /\ parked' \subseteq Runners
  <2>1. wakeEvent \in BOOLEAN /\ parked \subseteq Runners
    BY DEF TypeInv, TypeOK, QueueTypeOK
  <2> QED
    BY <2>1 DEF Shutdown, ShutdownSignals, SetEvent, SetEventFails
<1>4. QueueTypeOK(Tasks)'
  BY <1>1, <1>2, <1>3 DEF TypeInv, TypeOK, QueueTypeOK
<1>5. Kinds'
  BY <1>1 DEF TypeInv, Kinds
<1> QED
  BY <1>4, <1>5

(* OverlappedIOFileRead::Read keeps the types of the I/O state. *)
LEMMA ReadTypes ==
  ASSUME TypeInv, NEW t \in Threads, NEW c \in Nat, Read(t, c)
  PROVE  /\ inflight' \in SUBSET Requests
         /\ port' \in SUBSET Requests
         /\ requested' \in SUBSET Nat
         /\ isComplete' \in SUBSET Contexts
         /\ memory' \in SUBSET Contexts
         /\ process' \in {"running", "returned", "terminated"}
<1>1. [ctx |-> c, by |-> t] \in Requests
  BY DEF Requests
<1> QED
  BY <1>1 DEF TypeInv, TypeOK, Read

(* Every step of a worker keeps the types. *)
LEMMA WorkerTypes ==
  ASSUME TypeInv, NEW w \in Workers, WorkerStep(w)
  PROVE  TypeInv'
<1> USE Constants
<1>1. CASE Loop(w)
  BY <1>1, LoopTypes
<1>2. CASE Dequeue(w)
  BY <1>2
  DEF Dequeue, Enter, TypeInv, TypeOK, QueueTypeOK, Kinds, queueVars, WorkerSteps
<1>3. ASSUME At(w, "read") \/ At(w, "post")
      PROVE  /\ NewContextIndex(w) \in Nat
             /\ running[w].offset + ReadInterval \in Nat
  <2>1. running[w] \in ReadTasks
    BY <1>3 DEF At, TypeInv, Kinds, TasksOf
  <2> QED
    BY <2>1, IntervalType, SizesAssumption DEF NewContextIndex, ReadTasks
<1>4. CASE IssueNextRead(w)
  <2>1. Read(w, NewContextIndex(w)) /\ NewContextIndex(w) \in Nat
    BY <1>3, <1>4 DEF IssueNextRead
  <2> QED
    BY <2>1, ReadTypes, <1>4
    DEF IssueNextRead, Enter, TypeInv, TypeOK, QueueTypeOK, Kinds, queueVars,
        WorkerSteps
<1>5. ASSUME NEW q \in Threads, NEW k \in TasksOf(q), Add(w, q, k)
      PROVE  TypeInv'
  <2>1. QueueTypeOK(Tasks)' /\ Kinds'
    BY <1>5, CheckTypes DEF Add
  <2> QED
    BY <2>1, <1>5
    DEF Add, AddTaskCheck, Enter, TypeInv, TypeOK, QueueTypeOK, ioVars, WorkerSteps
<1>6. CASE PostNextTask(w)
  <2>1. NextTask(w) \in TasksOf(w)
    BY <1>3, <1>6 DEF PostNextTask, NextTask, ReadTask, ReadTasks, TasksOf
  <2> QED
    BY <1>5, <1>6, <2>1 DEF PostNextTask
<1>7. CASE NotifyMain(w)
  <2>1. Finished \in TasksOf(Main)
    BY DEF TasksOf
  <2> QED
    BY <1>5, <1>7, <2>1 DEF NotifyMain
<1>8. CASE FinishAdd(w)
  BY <1>8, PushTypes
  DEF FinishAdd, Enter, TypeInv, TypeOK, QueueTypeOK, ioVars, WorkerSteps
<1>9. CASE Return(w)
  BY <1>9
  DEF Return, RunReturns, Goto, Enter, TypeInv, TypeOK, QueueTypeOK, LoopPoints,
      Kinds, ioVars, WorkerSteps
<1> QED
  BY <1>1, <1>2, <1>4, <1>6, <1>7, <1>8, <1>9 DEF WorkerStep

(* Every step of main keeps the types. *)
LEMMA MainTypes ==
  ASSUME TypeInv, MainStep
  PROVE  TypeInv'
<1> USE Constants, SizesAssumption DEF MainSteps
<1>1. CASE AddInitialTask
  <2>1. /\ index \in Workers
        /\ ReadTask(index, index * BufferSize) \in TasksOf(index)
    <3>1. index \in Workers
      BY <1>1 DEF AddInitialTask, TypeInv, TypeOK, Workers
    <3>2. index \in Nat /\ index * BufferSize \in Nat
      BY DEF TypeInv, TypeOK
    <3> QED
      BY <3>1, <3>2 DEF ReadTask, ReadTasks, TasksOf
  <2>2. QueueTypeOK(Tasks)' /\ Kinds'
    BY <1>1, <2>1, CheckTypes DEF AddInitialTask
  <2> QED
    BY <1>1, <2>2
    DEF AddInitialTask, AddTaskCheck, TypeInv, TypeOK, QueueTypeOK, ioVars
<1>2. CASE InitialTaskAdded
  BY <1>2, PushTypes DEF InitialTaskAdded, TypeInv, TypeOK, ioVars
<1>3. CASE InitialTaskNotAdded
  BY <1>3, PushTypes DEF InitialTaskNotAdded, TypeInv, TypeOK, ioVars
<1>4. ASSUME NEW from, NEW limit, NEW to \in MainSteps, NextPhase(from, limit, to)
      PROVE  TypeInv'
  BY <1>4
  DEF NextPhase, Enter, TypeInv, TypeOK, QueueTypeOK, Kinds, ioVars, queueVars
<1>5. CASE IssueInitialRead
  <2>1. Read(Main, index) /\ index \in Nat
    BY <1>5 DEF IssueInitialRead, TypeInv, TypeOK
  <2>2. index + 1 \in Nat
    BY <2>1
  <2>3. /\ inflight' \in SUBSET Requests
        /\ port' \in SUBSET Requests
        /\ requested' \in SUBSET Nat
        /\ isComplete' \in SUBSET Contexts
        /\ memory' \in SUBSET Contexts
        /\ process' \in {"running", "returned", "terminated"}
    BY <2>1, ReadTypes
  <2> QED
    BY <2>2, <2>3, <1>5
    DEF IssueInitialRead, TypeInv, TypeOK, QueueTypeOK, Kinds, queueVars
<1>6. CASE Loop(Main)
  BY <1>6, LoopTypes
<1>7. CASE RunFinished
  <2>1. QueueTypeOK(Tasks)' /\ Kinds'
    <3>1. CASE Shutdown(Main, Main)
      BY <3>1, ShutdownTypes
    <3>2. CASE UNCHANGED queueVars
      BY <3>2 DEF queueVars, TypeInv, TypeOK, QueueTypeOK, Kinds
    <3> QED
      BY <1>7, <3>1, <3>2 DEF RunFinished
  <2> QED
    BY <2>1, <1>7
    DEF RunFinished, Shutdown, queueVars, Enter, TypeInv, TypeOK, ioVars
<1>8. CASE Return(Main)
  BY <1>8
  DEF Return, RunReturns, Goto, Enter, TypeInv, TypeOK, QueueTypeOK, LoopPoints,
      Kinds, ioVars
<1>9. CASE LeaveLoop \/ Join
  BY <1>9
  DEF LeaveLoop, Join, Enter, TypeInv, TypeOK, QueueTypeOK, Kinds, ioVars, queueVars
<1>10. CASE ShutdownWorker
  <2>1. index \in Workers
    BY <1>10 DEF ShutdownWorker, TypeInv, TypeOK, Workers
  <2>2. QueueTypeOK(Tasks)' /\ Kinds'
    BY <1>10, <2>1, ShutdownTypes DEF ShutdownWorker
  <2> QED
    BY <1>10, <2>2 DEF ShutdownWorker, Shutdown, TypeInv, TypeOK, ioVars
<1>11. CASE PrintResults
  BY <1>11 DEF PrintResults, TypeInv, TypeOK, QueueTypeOK, Kinds, queueVars
<1>12. CASE FinishShutdown
  <2>1. QueueTypeOK(Tasks)' /\ Kinds'
    BY <1>12, ShutdownTypes DEF FinishShutdown
  <2> QED
    BY <1>12, <2>1 DEF FinishShutdown, ShutdownSignals, TypeInv, TypeOK, ioVars
<1> QED
  BY <1>1, <1>2, <1>3, <1>4, <1>5, <1>6, <1>7, <1>8, <1>9, <1>10, <1>11, <1>12
  DEF MainStep

(* Every step of the program keeps the types. *)
LEMMA TypeStep == TypeInv /\ [Next]_vars => TypeInv'
<1> SUFFICES ASSUME TypeInv, [Next]_vars
             PROVE  TypeInv'
  OBVIOUS
<1>1. CASE MainStep
  BY <1>1, MainTypes
<1>2. ASSUME NEW w \in Workers, WorkerStep(w)
      PROVE  TypeInv'
  BY <1>2, WorkerTypes
<1>3. ASSUME NEW r \in inflight, CompleteRead(r)
      PROVE  TypeInv'
  BY <1>3 DEF CompleteRead, TypeInv, TypeOK, QueueTypeOK, Kinds, queueVars
<1>4. CASE UNCHANGED vars
  BY <1>4 DEF vars, queueVars, ioVars, TypeInv, TypeOK, QueueTypeOK, Kinds
<1> QED
  BY <1>1, <1>2, <1>3, <1>4 DEF Next

(* The types hold when main is about to post the first task. *)
LEMMA TypeInit == Init => TypeInv
<1>1. <<>> \in Seq(Tasks) /\ <<>> \in Seq(ReadTasks) /\ <<>> \in Seq({Finished})
  OBVIOUS
<1>2. Init => QueueTypeOK(Tasks) /\ Kinds
  <2>1. Init => /\ queue \in [Runners -> Seq(Tasks)]
                /\ pc \in [Runners -> LoopPoints]
                /\ Kinds
    BY <1>1, Constants DEF Init, QueueInit, LoopPoints, Kinds
  <2>2. Init => /\ running \in [Runners -> Tasks \cup {None}]
                /\ posting \in [Threads -> [queue : Runners, task : Tasks] \cup {None}]
                /\ signalling \in [Threads -> Runners \cup {None}]
    BY Constants DEF Init, QueueInit
  <2> QED
    BY <2>1, <2>2 DEF Init, QueueInit, QueueTypeOK
<1>3. Init => /\ \A w \in Workers : queue[w] = <<>>
              /\ queue[Main] = <<>>
  BY Constants DEF Init, QueueInit
<1>4. Init => /\ step \in [Threads -> MainSteps \cup WorkerSteps]
              /\ step[Main] \in MainSteps
              /\ \A w \in Workers : step[w] \in WorkerSteps
  BY Constants DEF Init, MainSteps, WorkerSteps
<1>5. Init => /\ \A w \in Workers : queue[w] \in Seq(ReadTasks)
              /\ queue[Main] \in Seq({Finished})
  <2> SUFFICES ASSUME Init
               PROVE  /\ \A w \in Workers : queue[w] \in Seq(ReadTasks)
                      /\ queue[Main] \in Seq({Finished})
    OBVIOUS
  <2> QED
    BY <1>1, <1>3
<1> QED
  BY <1>2, <1>4, <1>5 DEF Init, TypeInv, TypeOK

(* Workers' queues only ever hold read tasks with a context and an offset, *)
(* main's queue only Finished, and every other variable keeps its type.    *)
THEOREM TypeCorrect == Spec => []TypeOK
<1>1. TypeInv => TypeOK
  BY DEF TypeInv
<1> QED
  BY <1>1, TypeInit, TypeStep, PTL DEF Spec

-----------------------------------------------------------------------------
(* Control: where main and the workers can be.                             *)

Control == MainControl /\ WorkerControl

(* A worker's step touches its own place, and of main's only the queue.    *)
LEMMA WorkerFrame ==
  ASSUME TypeInv, Control, process = "running", NEW w \in Workers, WorkerStep(w)
  PROVE  /\ UNCHANGED <<index, completed, shuttingDown, memory>>
         /\ \A t \in Threads \ {w} : /\ pc'[t] = pc[t]
                                     /\ step'[t] = step[t]
                                     /\ posting'[t] = posting[t]
         /\ \A u \in Workers \ {w} : queue'[u] = queue[u]
         /\ ~FinishAdd(w) => queue'[Main] = queue[Main]
         /\ process' # "returned"
<1> USE Constants DEF TypeInv, TypeOK, QueueTypeOK, Control
<1>1. CASE Loop(w) \/ Return(w)
  BY <1>1
  DEF Loop, LoopStep, EnterLoop, PopTask, PopNothing, Decide, StartWait,
      WaitFails, EndWait, Return, RunReturns, Goto, Enter, ioVars
<1>2. CASE Dequeue(w) \/ IssueNextRead(w)
  BY <1>2 DEF Dequeue, IssueNextRead, Read, Enter, queueVars
<1>3. CASE PostNextTask(w) \/ NotifyMain(w)
  BY <1>3 DEF PostNextTask, NotifyMain, Add, AddTaskCheck, Enter, ioVars
<1>4. CASE FinishAdd(w)
  <2>1. posting[w].queue \in {w, Main}
    BY <1>4 DEF FinishAdd, At, WorkerControl
  <2>2. /\ UNCHANGED <<index, completed, shuttingDown, memory, process, pc>>
        /\ posting' = [posting EXCEPT ![w] = None]
        /\ step' = [step EXCEPT ![w] = "return"]
        /\ \A u \in Threads \ {posting[w].queue} : queue'[u] = queue[u]
    BY <1>4
    DEF FinishAdd, AddTaskOkay, AddTaskCouldNotSetEvent, AddTaskPush, Enter, ioVars
  <2> QED
    BY <1>4, <2>1, <2>2
<1> QED
  BY <1>1, <1>2, <1>3, <1>4 DEF WorkerStep

(* A worker's step leaves main where it is.                                *)
LEMMA WorkerControlStep ==
  ASSUME TypeInv, Control, process = "running", NEW w \in Workers, WorkerStep(w)
  PROVE  Control'
<1> USE Constants DEF TypeInv, TypeOK, QueueTypeOK, Control
<1>0. /\ index' = index
      /\ shuttingDown' = shuttingDown
      /\ memory' = memory
      /\ process' # "returned"
      /\ \A t \in Threads \ {w} : /\ pc'[t] = pc[t]
                                  /\ step'[t] = step[t]
                                  /\ posting'[t] = posting[t]
      /\ Main \in Threads \ {w}
  BY WorkerFrame
<1>1. MainControl'
  BY <1>0 DEF MainControl
<1> DEFINE InPlace ==
             /\ step'[w] # "dequeue" => pc'[w] = "run"
             /\ step'[w] = "posting" <=> posting'[w] # None
             /\ posting'[w] # None => posting'[w].queue \in {w, Main}
             /\ pc'[w] = "exited" => shuttingDown[w]
<1>2. InPlace
  <2> USE DEF WorkerControl
  <2>1. CASE Loop(w)
    BY <2>1
    DEF Loop, LoopStep, EnterLoop, PopTask, PopNothing, Decide, StartWait,
        WaitFails, EndWait, Goto
  <2>2. CASE Return(w)
    BY <2>2 DEF Return, RunReturns, At, Goto, Enter
  <2>3. CASE Dequeue(w) \/ IssueNextRead(w)
    BY <2>3 DEF Dequeue, IssueNextRead, At, Enter, queueVars
  <2>4. ASSUME NEW q \in {w, Main}, NEW k \in Tasks, Add(w, q, k), pc[w] = "run",
               step[w] \in {"post", "notify"}
        PROVE  InPlace
    <3>1. [queue |-> q, task |-> k] # None
      <4>1. [queue |-> q, task |-> k] \in [queue : Threads, task : Tasks]
        OBVIOUS
      <4> QED
        BY <4>1, NoneAssumption
    <3> QED
      BY <2>4, <3>1 DEF Add, AddTaskCheck, Enter
  <2>5. CASE FinishAdd(w)
    BY <2>5
    DEF FinishAdd, At, AddTaskOkay, AddTaskCouldNotSetEvent, AddTaskPush, Enter
  <2>6. CASE PostNextTask(w)
    <3> DEFINE k == NextTask(w)
    <3>1. k \in Tasks
      <4>1. running[w] \in ReadTasks
        BY <2>6 DEF PostNextTask, At, Kinds, TasksOf
      <4> QED
        BY <4>1, IntervalType, SizesAssumption
        DEF NextTask, NewContextIndex, ReadTask, ReadTasks, Tasks
    <3>2. Add(w, w, k) /\ pc[w] = "run" /\ step[w] = "post"
      BY <2>6 DEF PostNextTask, At
    <3> HIDE DEF k, InPlace
    <3> QED
      BY <2>4, <3>1, <3>2
  <2>7. CASE NotifyMain(w)
    <3>1. Finished \in Tasks
      BY DEF Tasks
    <3>2. Add(w, Main, Finished) /\ pc[w] = "run" /\ step[w] = "notify"
      BY <2>7 DEF NotifyMain, At
    <3> HIDE DEF InPlace
    <3> QED
      BY <2>4, <3>1, <3>2
  <2> HIDE DEF InPlace
  <2> QED
    BY <2>1, <2>2, <2>3, <2>5, <2>6, <2>7 DEF WorkerStep
<1> QED
  BY <1>0, <1>1, <1>2 DEF WorkerControl

(* main's steps leave the workers in place. *)
LEMMA MainFrame ==
  ASSUME TypeInv, MainStep
  PROVE  \A w \in Workers : /\ pc'[w] = pc[w]
                            /\ step'[w] = step[w]
                            /\ posting'[w] = posting[w]
<1> USE Constants DEF TypeInv, TypeOK, QueueTypeOK
<1> DEFINE InPlace == \A w \in Workers : /\ pc'[w] = pc[w]
                                         /\ step'[w] = step[w]
                                         /\ posting'[w] = posting[w]
<1>1. CASE AddInitialTask \/ InitialTaskAdded \/ InitialTaskNotAdded
  BY <1>1
  DEF AddInitialTask, InitialTaskAdded, InitialTaskNotAdded, AddTaskCheck,
      AddTaskOkay, AddTaskCouldNotSetEvent, AddTaskPush
<1>2. CASE IssueInitialRead \/ ShutdownWorker \/ PrintResults
  BY <1>2 DEF IssueInitialRead, ShutdownWorker, Shutdown, PrintResults, queueVars
<1>3. ASSUME NEW from, NEW limit, NEW to, NextPhase(from, limit, to)
      PROVE  InPlace
  BY <1>3 DEF NextPhase, Enter, queueVars
<1>4. CASE Loop(Main) \/ Return(Main)
  BY <1>4
  DEF Loop, LoopStep, EnterLoop, PopTask, PopNothing, Decide, StartWait,
      WaitFails, EndWait, Return, RunReturns, Goto, Enter
<1>5. CASE RunFinished \/ FinishShutdown \/ LeaveLoop \/ Join
  BY <1>5
  DEF RunFinished, LeaveLoop, Join, Shutdown, FinishShutdown, ShutdownSignals, Enter,
      queueVars
<1> QED
  BY <1>1, <1>2, <1>3, <1>4, <1>5 DEF MainStep

(* main shuts a worker down only past its own loop, and never comes back.  *)
LEMMA MainControlStep ==
  ASSUME TypeInv, Control, process = "running", MainStep
  PROVE  Control'
<1> USE Constants DEF TypeInv, TypeOK, QueueTypeOK, Control
<1>1. MainControl' /\ \A w \in Workers :
                        shuttingDown'[w] => step'[Main] \in {"shutdown", "join", "print"}
  <2> USE DEF MainControl, WorkerControl, MainSteps
  <2>1. CASE AddInitialTask
    <3>1. index \in Workers
      BY <2>1, SizesAssumption DEF AddInitialTask, Workers
    <3>2. shuttingDown[index] = FALSE
      BY <2>1, <3>1 DEF AddInitialTask
    <3>3. /\ posting' = [posting EXCEPT ![Main] =
                           [queue |-> index, task |-> ReadTask(index, index * BufferSize)]]
          /\ UNCHANGED <<shuttingDown, pc, step, index, process, memory>>
      BY <2>1, <3>2 DEF AddInitialTask, AddTaskCheck, ioVars
    <3> QED
      BY <2>1, <3>3 DEF AddInitialTask
  <2>2. CASE InitialTaskAdded \/ InitialTaskNotAdded
    BY <2>2, SizesAssumption
    DEF InitialTaskAdded, InitialTaskNotAdded, AddTaskOkay,
        AddTaskCouldNotSetEvent, AddTaskPush, ioVars
  <2>3. CASE IssueInitialRead
    BY <2>3, SizesAssumption DEF IssueInitialRead, Read, queueVars
  <2>4. CASE NextPhase("addTasks", ThreadCount, "issue")
    BY <2>4, SizesAssumption DEF NextPhase, Enter, queueVars, ioVars
  <2>5. CASE NextPhase("issue", QueueDepth, "loop")
    BY <2>5 DEF NextPhase, Enter, queueVars, ioVars
  <2>6. CASE Loop(Main)
    BY <2>6
    DEF Loop, LoopStep, EnterLoop, PopTask, PopNothing, Decide, StartWait,
        WaitFails, EndWait, Goto, ioVars
  <2>7. CASE RunFinished
    <3>1. /\ step[Main] = "loop" /\ pc[Main] = "run"
          /\ step' = [step EXCEPT ![Main] = "return"]
          /\ UNCHANGED <<pc, posting, index, memory, process>>
      BY <2>7 DEF RunFinished, At, Shutdown, Enter, queueVars, ioVars
    <3>2. \A t \in Threads : t # Main => shuttingDown'[t] = shuttingDown[t]
      BY <2>7 DEF RunFinished, Shutdown, queueVars
    <3>3. step'[Main] = "return"
      BY <3>1
    <3> QED
      BY <3>1, <3>2, <3>3
  <2>8. CASE Return(Main)
    BY <2>8 DEF Return, RunReturns, At, Goto, Enter, ioVars
  <2>9. CASE LeaveLoop
    BY <2>9 DEF LeaveLoop, Enter, queueVars, ioVars
  <2>10. CASE ShutdownWorker
    BY <2>10, SizesAssumption DEF ShutdownWorker, Shutdown, Workers, ioVars
  <2>11. CASE NextPhase("shutdown", ThreadCount, "join")
    BY <2>11 DEF NextPhase, Enter, queueVars, ioVars
  <2>12. CASE Join
    BY <2>12 DEF Join, Enter, queueVars, ioVars
  <2>13. CASE PrintResults
    BY <2>13 DEF PrintResults, queueVars
  <2>14. CASE FinishShutdown
    BY <2>14 DEF FinishShutdown, ShutdownSignals, ioVars
  <2> QED
    BY <2>1, <2>2, <2>3, <2>4, <2>5, <2>6, <2>7, <2>8, <2>9, <2>10, <2>11,
       <2>12, <2>13, <2>14
    DEF MainStep
<1>2. \A w \in Workers : pc[w] = "exited" => shuttingDown'[w]
  <2>1. \A w \in Workers : shuttingDown[w] => shuttingDown'[w]
    BY DEF MainStep, AddInitialTask, InitialTaskAdded, InitialTaskNotAdded,
           AddTaskCheck, AddTaskOkay, AddTaskCouldNotSetEvent, AddTaskPush,
           IssueInitialRead, ShutdownWorker, PrintResults, NextPhase, Loop,
           LoopStep, EnterLoop, PopTask, PopNothing, Decide, StartWait,
           WaitFails, EndWait, Return, RunReturns, RunFinished, LeaveLoop,
           FinishShutdown, ShutdownSignals,
           Join, Shutdown, queueVars
  <2> QED
    BY <2>1 DEF WorkerControl
<1> QED
  BY <1>1, <1>2, MainFrame DEF WorkerControl

(* Every step keeps main and the workers within their control points. *)
LEMMA ControlStep == TypeInv /\ Control /\ [Next]_vars => Control'
<1> SUFFICES ASSUME TypeInv, Control, [Next]_vars
             PROVE  Control'
  OBVIOUS
<1>1. CASE process = "running" /\ MainStep
  BY <1>1, MainControlStep
<1>2. ASSUME process = "running", NEW w \in Workers, WorkerStep(w)
      PROVE  Control'
  BY <1>2, WorkerControlStep
<1>3. ASSUME NEW r \in inflight, CompleteRead(r)
      PROVE  Control'
  BY <1>3 DEF CompleteRead, Control, MainControl, WorkerControl, queueVars
<1>4. CASE UNCHANGED vars
  BY <1>4 DEF vars, queueVars, ioVars, Control, MainControl, WorkerControl
<1> QED
  BY <1>1, <1>2, <1>3, <1>4 DEF Next

(* The control points hold initially. *)
LEMMA ControlInit == Init => Control
  BY Constants DEF Init, QueueInit, Control, MainControl, WorkerControl

-----------------------------------------------------------------------------
(* One task per chain.                                                     *)

(* Appending makes a sequence one longer. *)
LEMMA AppendLen ==
  ASSUME NEW S, NEW q \in Seq(S), NEW k \in S
  PROVE  /\ Len(Append(q, k)) = Len(q) + 1
         /\ Append(q, k) # <<>>
         /\ Len(q) \in Nat
         /\ q = <<>> <=> Len(q) = 0
  OBVIOUS

(* The tail of a sequence is one shorter. *)
LEMMA TailLen ==
  ASSUME NEW S, NEW q \in Seq(S), q # <<>>
  PROVE  /\ Len(Tail(q)) + 1 = Len(q)
         /\ Len(Tail(q)) \in Nat
         /\ Len(q) = 1 => Tail(q) = <<>>
<1>1. Len(q) \in Nat /\ Len(q) # 0
  OBVIOUS
<1>2. Tail(q) \in Seq(S) /\ Len(Tail(q)) = Len(q) - 1
  BY <1>1
<1> QED
  BY <1>1, <1>2

(* The push of AddTask. *)
LEMMA PushLen ==
  ASSUME TypeInv, NEW t \in Threads, AddTaskOkay(t) \/ AddTaskCouldNotSetEvent(t)
  PROVE  LET q == posting[t].queue
         IN  /\ posting[t] # None
             /\ q \in Threads
             /\ Len(queue'[q]) = Len(queue[q]) + 1
             /\ queue'[q] # <<>>
             /\ \A u \in Threads \ {q} : queue'[u] = queue[u]
             /\ posting' = [posting EXCEPT ![t] = None]
             /\ UNCHANGED <<shuttingDown, pc, running>>
<1> USE Constants DEF TypeInv, TypeOK, QueueTypeOK
<1> DEFINE q == posting[t].queue
           k == posting[t].task
<1>1. /\ posting[t] # None
      /\ queue' = [queue EXCEPT ![q] = Append(@, k)]
      /\ posting' = [posting EXCEPT ![t] = None]
      /\ UNCHANGED <<shuttingDown, pc, running>>
  BY DEF AddTaskOkay, AddTaskCouldNotSetEvent, AddTaskPush
<1>2. q \in Threads /\ k \in Tasks
  BY <1>1
<1> HIDE DEF q, k
<1>3. /\ Len(Append(queue[q], k)) = Len(queue[q]) + 1
      /\ Append(queue[q], k) # <<>>
  <2>1. queue[q] \in Seq(Tasks)
    BY <1>2
  <2> HIDE Constants DEF TypeInv, TypeOK, QueueTypeOK
  <2> QED
    BY <1>2, <2>1, AppendLen
<1>4. /\ Len(queue'[q]) = Len(queue[q]) + 1
      /\ queue'[q] # <<>>
      /\ \A u \in Threads \ {q} : queue'[u] = queue[u]
  BY <1>1, <1>2, <1>3
<1> QED
  BY <1>1, <1>2, <1>4 DEF q

(* TryPopTask. *)
LEMMA PopLen ==
  ASSUME TypeInv, NEW t \in Threads, PopTask(t)
  PROVE  /\ queue[t] # <<>>
         /\ Len(queue'[t]) + 1 = Len(queue[t])
         /\ Len(queue[t]) = 1 => queue'[t] = <<>>
         /\ \A u \in Threads \ {t} : queue'[u] = queue[u]
<1>1. /\ queue[t] \in Seq(Tasks)
      /\ queue[t] # <<>>
      /\ queue' = [queue EXCEPT ![t] = Tail(queue[t])]
      /\ queue \in [Threads -> Seq(Tasks)]
  BY Constants DEF PopTask, TypeInv, TypeOK, QueueTypeOK
<1>2. queue'[t] = Tail(queue[t])
  BY <1>1, Constants
<1>3. \A u \in Threads \ {t} : queue'[u] = queue[u]
  BY <1>1
<1>4. /\ Len(Tail(queue[t])) + 1 = Len(queue[t])
      /\ Len(queue[t]) = 1 => Tail(queue[t]) = <<>>
  BY <1>1, TailLen
<1> QED
  BY <1>1, <1>2, <1>3, <1>4

(* A worker's step leaves every chain with one task at most. *)
LEMMA OneTaskWorker ==
  ASSUME TypeInv, Control, OneTaskPerChain, process = "running",
         NEW w \in Workers, WorkerStep(w)
  PROVE  OneTaskPerChain'
<1>1. /\ index' = index
      /\ step'[Main] = step[Main]
      /\ \A u \in Workers \ {w} : /\ pc'[u] = pc[u]
                                  /\ step'[u] = step[u]
                                  /\ queue'[u] = queue[u]
  BY WorkerFrame, Constants
<1> USE Constants DEF TypeInv, TypeOK, QueueTypeOK, Control
<1> DEFINE OneTask == /\ Len(queue'[w]) <= 1
                      /\ pc'[w] = "run" /\ step'[w] # "return" => queue'[w] = <<>>
                      /\ step[Main] = "addTasks" /\ w >= index
                           => queue'[w] = <<>> /\ pc'[w] # "run"
<1>2. OneTask
  <2> USE DEF OneTaskPerChain
  <2>1. CASE Loop(w)
    <3>1. CASE PopTask(w)
      <4>1. Len(queue[w]) \in Nat /\ Len(queue[w]) # 0
        BY <3>1 DEF PopTask
      <4>2. Len(queue[w]) = 1
        <5> DEFINE n == Len(queue[w])
        <5>1. n \in Nat /\ n # 0 /\ n <= 1
          BY <4>1 DEF OneTaskPerChain
        <5>2. n = 1
          <6> HIDE DEF n
          <6> QED
            BY <5>1
        <5> QED
          BY <5>2
      <4>3. queue'[w] = <<>>
        BY <3>1, <4>2, PopLen
      <4>4. ~(step[Main] = "addTasks" /\ w >= index)
        BY <4>1
      <4> QED
        BY <4>3, <4>4
    <3>2. CASE ~PopTask(w)
      BY <2>1, <3>2
      DEF Loop, LoopStep, EnterLoop, PopNothing, Decide, StartWait, WaitFails,
          EndWait, Goto
    <3> QED
      BY <3>1, <3>2
  <2>2. CASE Return(w)
    BY <2>2 DEF Return, RunReturns, Goto
  <2>3. CASE Dequeue(w) \/ IssueNextRead(w)
    BY <2>3 DEF Dequeue, IssueNextRead, At, queueVars
  <2>4. CASE PostNextTask(w) \/ NotifyMain(w)
    BY <2>4 DEF PostNextTask, NotifyMain, At, Add, AddTaskCheck
  <2>5. CASE FinishAdd(w)
    <3>1. /\ queue[w] = <<>>
          /\ step'[w] = "return"
          /\ ~(step[Main] = "addTasks" /\ w >= index)
      BY <2>5 DEF FinishAdd, At, Enter
    <3>2. Len(queue'[w]) \in {Len(queue[w]), Len(queue[w]) + 1}
      <4>1. AddTaskOkay(w) \/ AddTaskCouldNotSetEvent(w)
        BY <2>5 DEF FinishAdd
      <4> QED
        BY <4>1, PushLen
    <3>3. Len(queue[w]) = 0
      BY <3>1
    <3>4. Len(queue'[w]) <= 1
      <4> DEFINE n == Len(queue'[w])
      <4>1. n \in {0, 0 + 1}
        BY <3>2, <3>3
      <4> HIDE DEF n
      <4>2. n <= 1
        BY <4>1
      <4> QED
        BY <4>2 DEF n
    <3> QED
      BY <3>1, <3>4
  <2> HIDE DEF OneTask
  <2> QED
    BY <2>1, <2>2, <2>3, <2>4, <2>5 DEF WorkerStep
<1> QED
  BY <1>1, <1>2 DEF OneTaskPerChain

(* main's pushes of initial tasks go to the worker it is counting at.      *)
LEMMA InitialPost ==
  ASSUME TypeInv, Control, InitialTaskAdded \/ InitialTaskNotAdded
  PROVE  /\ AddTaskOkay(Main) \/ AddTaskCouldNotSetEvent(Main)
         /\ posting[Main] # None
         /\ posting[Main].queue = index
         /\ index \in Workers
         /\ step[Main] = "addTasks"
         /\ step' = step
         /\ pc' = pc
         /\ queue'[index] # <<>>
         /\ Len(queue'[index]) = Len(queue[index]) + 1
         /\ \A t \in Threads \ {index} : queue'[t] = queue[t]
<1>1. /\ AddTaskOkay(Main) \/ AddTaskCouldNotSetEvent(Main)
      /\ step[Main] = "addTasks"
      /\ step' = step
  BY DEF InitialTaskAdded, InitialTaskNotAdded
<1>2. posting[Main] # None
  BY <1>1, PushLen, Constants
<1>3. posting[Main].queue = index /\ index \in Workers
  BY <1>2, SizesAssumption DEF Control, MainControl, TypeInv, TypeOK, Workers
<1> QED
  BY <1>1, <1>2, <1>3, PushLen, Constants

(* main's step leaves every chain with one task at most. *)
LEMMA OneTaskMain ==
  ASSUME TypeInv, Control, OneTaskPerChain, process = "running", MainStep
  PROVE  OneTaskPerChain'
<1> USE Constants, SizesAssumption DEF TypeInv, TypeOK, QueueTypeOK, Control
<1>1. \A w \in Workers : pc'[w] = pc[w] /\ step'[w] = step[w]
  BY MainFrame
<1>2. CASE AddInitialTask
  BY <1>2 DEF AddInitialTask, AddTaskCheck, OneTaskPerChain
<1>3. CASE InitialTaskAdded \/ InitialTaskNotAdded
  <2>1. /\ posting[Main] # None
        /\ posting[Main].queue = index
        /\ index \in Workers
        /\ step[Main] = "addTasks"
        /\ step' = step
    BY <1>3, InitialPost
  <2>2. queue[index] = <<>> /\ pc[index] # "run"
    BY <2>1 DEF OneTaskPerChain
  <2>3. /\ Len(queue'[index]) = Len(queue[index]) + 1
        /\ \A w \in Workers \ {index} : queue'[w] = queue[w]
    BY <1>3, InitialPost
  <2>4. /\ \A w \in Workers : Len(queue'[w]) <= 1
        /\ \A w \in Workers :
             pc'[w] = "run" /\ step'[w] # "return" => queue'[w] = <<>>
    <3>1. Len(queue'[index]) = 1 /\ pc'[index] # "run"
      <4>1. Len(queue[index]) = 0
        BY <2>2
      <4> QED
        BY <4>1, <2>1, <2>2, <2>3, <1>1
    <3>2. ASSUME NEW w \in Workers
          PROVE  /\ Len(queue'[w]) <= 1
                 /\ pc'[w] = "run" /\ step'[w] # "return" => queue'[w] = <<>>
      <4>1. CASE w = index
        <5> DEFINE n == Len(queue'[w])
        <5>1. n = 1 /\ pc'[w] # "run"
          BY <3>1, <4>1
        <5> HIDE DEF n
        <5>2. n <= 1
          BY <5>1
        <5> QED
          BY <5>1, <5>2 DEF n
      <4>2. CASE w # index
        BY <1>1, <2>3, <4>2 DEF OneTaskPerChain
      <4> QED
        BY <4>1, <4>2
    <3> QED
      BY <3>2
  <2>5. process' # "terminated" => index' = index + 1
    BY <1>3 DEF InitialTaskAdded, InitialTaskNotAdded
  <2>6. ASSUME NEW w \in Workers, process' # "terminated", w >= index'
        PROVE  queue'[w] = <<>> /\ pc'[w] # "run"
    <3>1. w \in Workers \ {index} /\ w >= index
      BY <2>1, <2>5, <2>6 DEF Workers
    <3> QED
      BY <3>1, <2>1, <2>3, <1>1 DEF OneTaskPerChain
  <2> QED
    BY <2>4, <2>6 DEF OneTaskPerChain
<1>4. CASE IssueInitialRead
  BY <1>4 DEF IssueInitialRead, queueVars, OneTaskPerChain
<1>5. ASSUME NEW from, NEW limit, NEW to, to # "addTasks", NextPhase(from, limit, to)
      PROVE  OneTaskPerChain'
  BY <1>1, <1>5 DEF NextPhase, Enter, queueVars, OneTaskPerChain
<1>6. CASE Loop(Main)
  <2>1. /\ \A w \in Workers : queue'[w] = queue[w]
        /\ step' = step
        /\ step[Main] = "loop"
    BY <1>6
    DEF Loop, LoopStep, EnterLoop, PopTask, PopNothing, Decide, StartWait,
        WaitFails, EndWait
  <2> QED
    BY <1>1, <2>1 DEF OneTaskPerChain
<1>7. CASE RunFinished \/ LeaveLoop \/ Join
  <2>1. /\ \A w \in Workers : queue'[w] = queue[w]
        /\ step'[Main] # "addTasks"
    BY <1>7 DEF RunFinished, LeaveLoop, Join, Shutdown, Enter, queueVars
  <2> QED
    BY <1>1, <2>1 DEF OneTaskPerChain
<1>8. CASE Return(Main)
  BY <1>1, <1>8 DEF Return, RunReturns, Enter, OneTaskPerChain
<1>9. CASE ShutdownWorker \/ PrintResults
  BY <1>9
  DEF ShutdownWorker, PrintResults, Shutdown, queueVars, OneTaskPerChain
<1>10. CASE FinishShutdown
  BY <1>10 DEF FinishShutdown, ShutdownSignals, OneTaskPerChain
<1> QED
  BY <1>2, <1>3, <1>4, <1>5, <1>6, <1>7, <1>8, <1>9, <1>10 DEF MainStep

(* Every step leaves every chain with one task at most. *)
LEMMA OneTaskStep ==
  TypeInv /\ Control /\ OneTaskPerChain /\ [Next]_vars => OneTaskPerChain'
<1> SUFFICES ASSUME TypeInv, Control, OneTaskPerChain, [Next]_vars
             PROVE  OneTaskPerChain'
  OBVIOUS
<1>1. CASE process = "running" /\ MainStep
  BY <1>1, OneTaskMain
<1>2. ASSUME process = "running", NEW w \in Workers, WorkerStep(w)
      PROVE  OneTaskPerChain'
  BY <1>2, OneTaskWorker
<1>3. ASSUME NEW r \in inflight, CompleteRead(r)
      PROVE  OneTaskPerChain'
  BY <1>3 DEF CompleteRead, OneTaskPerChain, queueVars
<1>4. CASE UNCHANGED vars
  BY <1>4 DEF vars, queueVars, OneTaskPerChain
<1> QED
  BY <1>1, <1>2, <1>3, <1>4 DEF Next

(* No chain has a task initially. *)
LEMMA OneTaskInit == Init => OneTaskPerChain
  BY Constants DEF Init, QueueInit, OneTaskPerChain

-----------------------------------------------------------------------------
(* Counting: every worker sends one Finished at most.                      *)

(* A subset of a finite set is finite and no larger. *)
LEMMA SubsetCard ==
  ASSUME NEW S, NEW T, IsFiniteSet(S), T \subseteq S
  PROVE  /\ IsFiniteSet(T)
         /\ Cardinality(S) \in Nat
         /\ Cardinality(T) \in Nat
         /\ Cardinality(T) <= Cardinality(S)
  BY FS_Subset, FS_CardinalityType

(* A subset that misses an element is smaller by one at least. *)
LEMMA LessOneCard ==
  ASSUME NEW S, NEW T, NEW x \in S, IsFiniteSet(S), T \subseteq S \ {x}
  PROVE  Cardinality(T) + 1 <= Cardinality(S)
<1>1. /\ IsFiniteSet(S \ {x})
      /\ Cardinality(S \ {x}) = Cardinality(S) - 1
  BY FS_RemoveElement
<1> QED
  BY <1>1, SubsetCard, FS_CardinalityType

(* A subset of a set with one more element is larger by one at most. *)
LEMMA OneMoreCard ==
  ASSUME NEW S, NEW T, NEW x, IsFiniteSet(S), T \subseteq S \cup {x}
  PROVE  Cardinality(T) <= Cardinality(S) + 1
<1> DEFINE U == S \cup {x}
<1>1. /\ IsFiniteSet(U)
      /\ Cardinality(U) = IF x \in S THEN Cardinality(S) ELSE Cardinality(S) + 1
  BY FS_AddElement
<1>2. Cardinality(S) \in Nat
  BY FS_CardinalityType
<1>3. Cardinality(U) <= Cardinality(S) + 1 /\ Cardinality(U) \in Nat
  BY <1>1, <1>2
<1> HIDE DEF U
<1>4. Cardinality(T) <= Cardinality(U) /\ Cardinality(T) \in Nat
  BY <1>1, SubsetCard DEF U
<1> QED
  BY <1>2, <1>3, <1>4

(* The sets of workers that the counting uses are finite. *)
LEMMA WorkerSubsets ==
  /\ IsFiniteSet(Unfinished) /\ Cardinality(Unfinished) \in Nat
  /\ IsFiniteSet(Expecting)  /\ Cardinality(Expecting) \in Nat
  /\ IsFiniteSet(Reissuing)  /\ Cardinality(Reissuing) \in Nat
  /\ Expecting \subseteq Unfinished
<1>1. /\ Unfinished \subseteq Workers
      /\ Expecting \subseteq Workers
      /\ Reissuing \subseteq Workers
      /\ Expecting \subseteq Unfinished
  BY DEF Unfinished, Expecting, Reissuing
<1> QED
  BY <1>1, Constants, SubsetCard

(* A worker's step leaves no other worker with more to do than before.     *)
LEMMA WorkerUnfinished ==
  ASSUME TypeInv, Control, OneTaskPerChain, process = "running", NEW w \in Workers, WorkerStep(w)
  PROVE  /\ Unfinished' \subseteq Unfinished
         /\ FinishAdd(w) /\ posting[w].queue = Main
              => w \in Unfinished /\ w \notin Unfinished'
<1>1. /\ index' = index
      /\ step'[Main] = step[Main]
      /\ \A u \in Workers \ {w} : /\ pc'[u] = pc[u]
                                  /\ step'[u] = step[u]
                                  /\ posting'[u] = posting[u]
                                  /\ queue'[u] = queue[u]
  BY WorkerFrame, Constants
<1> USE Constants DEF TypeInv, TypeOK, QueueTypeOK, Control
<1>2. \A u \in Workers \ {w} : u \in Unfinished' => u \in Unfinished
  <2> HIDE DEF TypeInv, Control
  <2> SUFFICES ASSUME NEW u \in Workers \ {w}
               PROVE  u \in Unfinished' => u \in Unfinished
    OBVIOUS
  <2> QED
    BY <1>1 DEF Unfinished, ExpectsPacket, At
<1>3. /\ w \in Unfinished' => w \in Unfinished
      /\ FinishAdd(w) /\ posting[w].queue = Main
           => w \in Unfinished /\ w \notin Unfinished'
  <2>1. CASE Loop(w)
    <3>1. ~FinishAdd(w)
      BY <2>1 DEF Loop, LoopStep, EnterLoop, PopTask, PopNothing, Decide,
                  StartWait, WaitFails, EndWait, FinishAdd, At, Goto
    <3>2. PopTask(w) => w \in Unfinished
      BY DEF PopTask, Unfinished, ExpectsPacket
    <3>3. ~PopTask(w) => (w \in Unfinished' => w \in Unfinished)
      BY <1>1, <2>1
      DEF Loop, LoopStep, EnterLoop, PopNothing, Decide, StartWait, WaitFails,
          EndWait, Goto, Unfinished, ExpectsPacket, At
    <3> QED
      BY <3>1, <3>2, <3>3
  <2>2. CASE Return(w)
    BY <1>1, <2>2
    DEF Return, RunReturns, Goto, Enter, FinishAdd, Unfinished, ExpectsPacket, At
  <2>3. CASE Dequeue(w) \/ IssueNextRead(w)
    BY <1>1, <2>3
    DEF Dequeue, IssueNextRead, Enter, FinishAdd, queueVars, Unfinished,
        ExpectsPacket, At
  <2>4. CASE PostNextTask(w) \/ NotifyMain(w)
    BY <1>1, <2>4, NoneAssumption
    DEF PostNextTask, NotifyMain, Add, AddTaskCheck, Enter, FinishAdd,
        Unfinished, ExpectsPacket, At
  <2>5. CASE FinishAdd(w)
    <3>1. posting[w] # None /\ posting[w].queue \in {w, Main}
      BY <2>5 DEF FinishAdd, At, WorkerControl
    <3>2. CASE posting[w].queue = w
      BY <3>1, <3>2, <2>5 DEF FinishAdd, Unfinished, ExpectsPacket, At
    <3>3. CASE posting[w].queue = Main
      <4>1. w \in Unfinished
        BY <3>1, <3>3, <2>5 DEF FinishAdd, Unfinished, At
      <4>2. /\ queue'[w] = queue[w]
            /\ step'[w] = "return"
            /\ queue[w] = <<>>
            /\ ~(step[Main] = "addTasks" /\ w >= index)
        BY <3>3, <2>5
        DEF FinishAdd, At, AddTaskOkay, AddTaskCouldNotSetEvent, AddTaskPush, Enter,
            OneTaskPerChain
      <4> QED
        BY <4>1, <4>2, <1>1 DEF Unfinished, ExpectsPacket, At
    <3> QED
      BY <3>1, <3>2, <3>3
  <2> QED
    BY <2>1, <2>2, <2>3, <2>4, <2>5 DEF WorkerStep
<1>4. Unfinished \subseteq Workers /\ Unfinished' \subseteq Workers
  BY DEF Unfinished
<1> QED
  BY <1>2, <1>3, <1>4

(* Finished tasks sent are no fewer than those counted or being run. *)
LEMMA SentType ==
  ASSUME TypeInv
  PROVE  /\ Sent \in Nat
         /\ completed \in Nat
         /\ completed <= Sent
         /\ At(Main, "loop") => completed + 1 <= Sent
<1> DEFINE n == Len(queue[Main])
<1>1. n \in Nat /\ completed \in Nat
  BY DEF TypeInv, TypeOK
<1>2. Sent = completed + n + (IF At(Main, "loop") THEN 1 ELSE 0)
  BY DEF Sent
<1> HIDE DEF n
<1> QED
  BY <1>1, <1>2

(* A worker sends a Finished only by the push into main's queue. *)
LEMMA WorkerSent ==
  ASSUME TypeInv, Control, process = "running", NEW w \in Workers, WorkerStep(w)
  PROVE  Sent' = IF FinishAdd(w) /\ posting[w].queue = Main THEN Sent + 1 ELSE Sent
<1> USE Constants
<1>1. /\ completed' = completed
      /\ At(Main, "loop")' = At(Main, "loop")
      /\ ~FinishAdd(w) => queue'[Main] = queue[Main]
  BY WorkerFrame DEF At
<1>2. CASE FinishAdd(w) /\ posting[w].queue = Main
  <2>1. AddTaskOkay(w) \/ AddTaskCouldNotSetEvent(w)
    BY <1>2 DEF FinishAdd
  <2>2. Len(queue'[Main]) = Len(queue[Main]) + 1
    BY <2>1, <1>2, PushLen
  <2> DEFINE n == Len(queue[Main])
             m == Len(queue'[Main])
             here == IF At(Main, "loop") THEN 1 ELSE 0
  <2>3. Sent = completed + n + here /\ here \in Nat
    BY DEF Sent
  <2>4. Sent' = completed + m + here
    BY <1>1 DEF Sent
  <2>5. n \in Nat /\ completed \in Nat
    BY DEF TypeInv, TypeOK
  <2>6. m = n + 1
    BY <2>2
  <2> HIDE DEF n, m, here
  <2> QED
    BY <1>2, <2>3, <2>4, <2>5, <2>6
<1>3. CASE ~(FinishAdd(w) /\ posting[w].queue = Main)
  <2>1. queue'[Main] = queue[Main]
    <3>1. CASE FinishAdd(w)
      <4>1. AddTaskOkay(w) \/ AddTaskCouldNotSetEvent(w)
        BY <3>1 DEF FinishAdd
      <4> QED
        BY <4>1, <1>3, <3>1, PushLen
    <3> QED
      BY <1>1, <3>1
  <2>2. Sent' = Sent
    BY <1>1, <2>1 DEF Sent
  <2> QED
    BY <1>3, <2>2
<1> QED
  BY <1>2, <1>3

(* main only moves a Finished on: from its queue to its loop to the count. *)
LEMMA MainSent ==
  ASSUME TypeInv, Control, process = "running", MainStep
  PROVE  Sent' = Sent
<1> USE Constants, SizesAssumption DEF TypeInv, TypeOK, QueueTypeOK
<1> DEFINE here == IF At(Main, "loop") THEN 1 ELSE 0
           hereNow == IF At(Main, "loop")' THEN 1 ELSE 0
           n == Len(queue[Main])
           m == Len(queue'[Main])
<1>1. /\ Sent = completed + n + here
      /\ n \in Nat
      /\ completed \in Nat
  BY DEF Sent
<1>2. Sent' = completed' + m + hereNow
  BY DEF Sent
<1>3. CASE PopTask(Main) /\ Loop(Main)
  <2>1. m + 1 = n
    BY <1>3, PopLen
  <2>2. here = 0 /\ hereNow = 1 /\ completed' = completed
    BY <1>3 DEF PopTask, Loop, Goto, At
  <2>3. m \in Nat
    <3>1. Tail(queue[Main]) \in Seq(Tasks)
      BY <1>3 DEF PopTask
    <3>2. queue'[Main] = Tail(queue[Main])
      BY <1>3 DEF PopTask
    <3> QED
      BY <3>1, <3>2
  <2> HIDE DEF n, m, here, hereNow, TypeInv, TypeOK, QueueTypeOK
  <2> QED
    BY <1>1, <1>2, <2>1, <2>2, <2>3
<1>4. CASE RunFinished
  <2>1. m = n
    BY <1>4 DEF RunFinished, Shutdown, queueVars
  <2>2. here = 1 /\ hereNow = 0 /\ completed' = completed + 1
    BY <1>4 DEF RunFinished, At, Enter, MainSteps
  <2> HIDE DEF n, m, here, hereNow, TypeInv, TypeOK, QueueTypeOK
  <2> QED
    BY <1>1, <1>2, <2>1, <2>2
<1>5. ASSUME ~PopTask(Main), ~RunFinished
      PROVE  queue'[Main] = queue[Main] /\ completed' = completed /\ hereNow = here
  <2> USE <1>5 DEF Control, MainControl
  <2>1. CASE Loop(Main) \/ Return(Main)
    BY <2>1
    DEF Loop, LoopStep, EnterLoop, PopNothing, Decide, StartWait, WaitFails,
        EndWait, Return, RunReturns, Goto, Enter, At
  <2>2. CASE AddInitialTask
    BY <2>2 DEF AddInitialTask, AddTaskCheck, At
  <2>3. CASE InitialTaskAdded \/ InitialTaskNotAdded
    <3>1. queue'[Main] = queue[Main] /\ pc' = pc /\ step' = step
      BY <2>3, InitialPost
    <3> QED
      BY <2>3, <3>1 DEF InitialTaskAdded, InitialTaskNotAdded, At
  <2>4. ASSUME NEW from \in MainSteps \ {"loop"}, NEW limit, NEW to, NextPhase(from, limit, to),
               pc[Main] # "run"
        PROVE  queue'[Main] = queue[Main] /\ completed' = completed /\ hereNow = here
    BY <2>4 DEF NextPhase, Enter, queueVars, At
  <2>5. CASE \/ NextPhase("addTasks", ThreadCount, "issue")
             \/ NextPhase("issue", QueueDepth, "loop")
             \/ NextPhase("shutdown", ThreadCount, "join")
    BY <2>4, <2>5 DEF NextPhase, MainSteps
  <2>6. CASE \/ LeaveLoop \/ Join \/ ShutdownWorker \/ FinishShutdown
             \/ IssueInitialRead \/ PrintResults
    BY <2>6
    DEF LeaveLoop, Join, ShutdownWorker, Shutdown,
        FinishShutdown, ShutdownSignals, IssueInitialRead,
        PrintResults, Enter, queueVars, At
  <2> QED
    BY <2>1, <2>2, <2>3, <2>5, <2>6 DEF MainStep
<1>6. PopTask(Main) => Loop(Main)
  BY DEF PopTask, Goto, MainStep, AddInitialTask, AddTaskCheck, InitialTaskAdded,
         InitialTaskNotAdded, AddTaskOkay, AddTaskCouldNotSetEvent, AddTaskPush,
         NextPhase, IssueInitialRead, RunFinished, At, Return, RunReturns,
         LeaveLoop, ShutdownWorker, Shutdown, FinishShutdown, ShutdownSignals,
         Join, PrintResults, queueVars, Control, MainControl
<1> QED
  BY <1>1, <1>2, <1>3, <1>4, <1>5, <1>6

(* main's steps give no worker anything to do it did not have coming.      *)
LEMMA MainUnfinished ==
  ASSUME TypeInv, Control, process = "running", MainStep
  PROVE  /\ \A w \in Workers : ExpectsPacket(w)' => ExpectsPacket(w)
         /\ Unfinished' \subseteq Unfinished
<1> USE Constants, SizesAssumption DEF TypeInv, TypeOK, QueueTypeOK, Control
<1>1. \A w \in Workers : /\ pc'[w] = pc[w]
                         /\ step'[w] = step[w]
                         /\ posting'[w] = posting[w]
  BY MainFrame
<1>2. \A w \in Workers :
        \/ queue'[w] = queue[w]
        \/ step[Main] = "addTasks" /\ w >= index
  <2>1. CASE InitialTaskAdded \/ InitialTaskNotAdded
    <3>1. /\ step[Main] = "addTasks"
          /\ index \in Workers
          /\ \A t \in Threads \ {index} : queue'[t] = queue[t]
      BY <2>1, InitialPost
    <3> QED
      BY <3>1 DEF Workers
  <2>2. CASE ~(InitialTaskAdded \/ InitialTaskNotAdded)
    BY <2>2
    DEF MainStep, AddInitialTask, AddTaskCheck, NextPhase, IssueInitialRead,
        Loop, LoopStep, EnterLoop, PopTask, PopNothing, Decide, StartWait,
        WaitFails, EndWait, RunFinished, Shutdown, FinishShutdown, ShutdownSignals,
        Return, RunReturns, LeaveLoop, ShutdownWorker, Join, PrintResults, queueVars
  <2> QED
    BY <2>1, <2>2
<1>3. \A w \in Workers : step'[Main] = "addTasks" /\ w >= index'
                           => step[Main] = "addTasks" /\ w >= index
  <2>1. CASE InitialTaskAdded \/ InitialTaskNotAdded
    <3>1. step' = step /\ step[Main] = "addTasks" /\ index' \in {index, index + 1}
      BY <2>1, InitialPost DEF InitialTaskAdded, InitialTaskNotAdded
    <3> QED
      BY <3>1 DEF Workers
  <2>2. CASE AddInitialTask \/ Return(Main) \/ LeaveLoop \/ Join
    BY <2>2 DEF AddInitialTask, Return, LeaveLoop, Join, Enter
  <2>3. CASE IssueInitialRead \/ Loop(Main) \/ RunFinished \/ FinishShutdown
             \/ ShutdownWorker \/ PrintResults
    BY <2>3
    DEF IssueInitialRead, Loop, RunFinished, FinishShutdown, At, Enter,
        ShutdownWorker, PrintResults
  <2>4. ASSUME NEW from, NEW limit, NEW to, to # "addTasks", NextPhase(from, limit, to)
        PROVE  step'[Main] # "addTasks"
    BY <2>4 DEF NextPhase, Enter
  <2> QED
    BY <2>1, <2>2, <2>3, <2>4 DEF MainStep
<1>4. \A w \in Workers : ExpectsPacket(w)' => ExpectsPacket(w)
  BY <1>1, <1>2, <1>3 DEF ExpectsPacket, At
<1>5. Unfinished' \subseteq Unfinished
  BY <1>1, <1>4 DEF Unfinished, At
<1> QED
  BY <1>4, <1>5

(* After its last Finished main counts no other, and no worker has one to  *)
(* send.                                                                   *)
LEMMA LastFinished ==
  ASSUME TypeInv, FinishedBound
  PROVE  /\ completed <= ThreadCount
         /\ At(Main, "loop") => completed < ThreadCount
         /\ shuttingDown[Main] => /\ Unfinished = {}
                                  /\ queue[Main] = <<>>
                                  /\ ~At(Main, "loop")
<1> DEFINE u == Cardinality(Unfinished)
<1>1. /\ u \in Nat
      /\ Sent + u <= ThreadCount
      /\ shuttingDown[Main] => completed = ThreadCount
  BY WorkerSubsets DEF FinishedBound
<1>2. u = 0 => Unfinished = {}
  BY WorkerSubsets, FS_EmptySet
<1>3. shuttingDown[Main] => u = 0 /\ Sent = completed
  <2> HIDE DEF u
  <2> QED
    BY <1>1, SentType, SizesAssumption
<1>4. /\ completed <= ThreadCount
      /\ At(Main, "loop") => completed < ThreadCount
  <2> HIDE DEF u
  <2> QED
    BY <1>1, SentType, SizesAssumption
<1>5. Sent = completed => queue[Main] = <<>> /\ ~At(Main, "loop")
  <2> DEFINE n == Len(queue[Main])
             here == IF At(Main, "loop") THEN 1 ELSE 0
  <2>1. /\ n \in Nat /\ completed \in Nat
        /\ Sent = completed + n + here
        /\ n = 0 => queue[Main] = <<>>
    BY DEF Sent, TypeInv, TypeOK
  <2>2. here \in {0, 1} /\ (here = 0 => ~At(Main, "loop"))
    OBVIOUS
  <2> HIDE DEF n, here
  <2> QED
    BY <2>1, <2>2
<1> QED
  BY <1>2, <1>3, <1>4, <1>5

(* Every step keeps Finished tasks and unfinished workers within the threads. *)
LEMMA FinishedStep ==
  TypeInv /\ Control /\ OneTaskPerChain /\ FinishedBound /\ [Next]_vars
    => FinishedBound'
<1> SUFFICES ASSUME TypeInv, Control, OneTaskPerChain, FinishedBound, [Next]_vars
             PROVE  FinishedBound'
  OBVIOUS
<1> DEFINE u == Cardinality(Unfinished)
           v == Cardinality(Unfinished')
<1>1. u \in Nat /\ IsFiniteSet(Unfinished) /\ Sent + u <= ThreadCount
  BY WorkerSubsets DEF FinishedBound
<1>2. Sent \in Nat /\ ThreadCount \in Nat
  BY SentType, SizesAssumption
<1>3. Unfinished' \subseteq Unfinished => v \in Nat /\ v <= u
  BY <1>1, SubsetCard
<1>4. CASE process = "running" /\ MainStep
  <2>1. Sent' + v <= ThreadCount
    <3>1. Sent' = Sent /\ v \in Nat /\ v <= u
      BY <1>3, <1>4, MainSent, MainUnfinished
    <3> HIDE DEF u, v
    <3> QED
      BY <1>1, <1>2, <3>1
  <2>2. shuttingDown'[Main] => completed' = ThreadCount /\ completed' > 0
    <3> USE Constants DEF TypeInv, TypeOK, QueueTypeOK
    <3>1. CASE RunFinished
      <4>1. ~shuttingDown[Main]
        BY <3>1, LastFinished DEF RunFinished
      <4> QED
        BY <3>1, <4>1 DEF RunFinished, Shutdown, queueVars
    <3>2. CASE ShutdownWorker
      <4>1. index # Main
        BY <3>2 DEF ShutdownWorker, Main
      <4> QED
        BY <3>2, <4>1 DEF ShutdownWorker, Shutdown, FinishedBound
    <3>3. CASE ~RunFinished /\ ~ShutdownWorker
      <4>1. shuttingDown' = shuttingDown /\ completed' = completed
        BY <1>4, <3>3
        DEF MainStep, AddInitialTask, InitialTaskAdded, InitialTaskNotAdded,
            AddTaskCheck, AddTaskOkay, AddTaskCouldNotSetEvent, AddTaskPush,
            NextPhase, IssueInitialRead, Loop, LoopStep, EnterLoop, PopTask,
            PopNothing, Decide, StartWait, WaitFails, EndWait, Return,
            RunReturns, FinishShutdown, ShutdownSignals, LeaveLoop, Join,
            PrintResults, queueVars
      <4> QED
        BY <4>1 DEF FinishedBound
    <3> QED
      BY <3>1, <3>2, <3>3
  <2> QED
    BY <2>1, <2>2 DEF FinishedBound
<1>5. ASSUME process = "running", NEW w \in Workers, WorkerStep(w)
      PROVE  FinishedBound'
  <2>1. shuttingDown' = shuttingDown /\ completed' = completed
    BY <1>5, WorkerFrame
  <2>2. Unfinished' \subseteq Unfinished
    BY <1>5, WorkerUnfinished
  <2>3. Sent' + v <= ThreadCount
    <3>1. CASE FinishAdd(w) /\ posting[w].queue = Main
      <4>1. Sent' = Sent + 1
        BY <1>5, <3>1, WorkerSent
      <4>2. w \in Unfinished /\ Unfinished' \subseteq Unfinished \ {w}
        BY <1>5, <2>2, <3>1, WorkerUnfinished
      <4>3. v + 1 <= u /\ v \in Nat
        BY <1>1, <1>3, <4>2, LessOneCard
      <4> HIDE DEF u, v
      <4> QED
        BY <1>1, <1>2, <4>1, <4>3
    <3>2. CASE ~(FinishAdd(w) /\ posting[w].queue = Main)
      <4>1. Sent' = Sent
        BY <1>5, <3>2, WorkerSent
      <4>2. v <= u /\ v \in Nat
        BY <1>3, <2>2
      <4> HIDE DEF u, v
      <4> QED
        BY <1>1, <1>2, <4>1, <4>2
    <3> QED
      BY <3>1, <3>2
  <2> QED
    BY <2>1, <2>3 DEF FinishedBound
<1>6. CASE UNCHANGED <<queueVars, step, index, completed>>
  BY <1>6
  DEF queueVars, FinishedBound, Sent, At, Unfinished, ExpectsPacket
<1>7. ASSUME NEW r \in inflight, CompleteRead(r)
      PROVE  UNCHANGED <<queueVars, step, index, completed>>
  BY <1>7 DEF CompleteRead
<1>8. UNCHANGED vars => UNCHANGED <<queueVars, step, index, completed>>
  BY DEF vars
<1> QED
  BY <1>4, <1>5, <1>6, <1>7, <1>8 DEF Next

(* Nothing has been sent initially. *)
LEMMA FinishedInit == Init => FinishedBound
<1> SUFFICES ASSUME Init
             PROVE  FinishedBound
  OBVIOUS
<1>1. Sent = 0
  BY Constants DEF Init, QueueInit, Sent, At
<1>2. Unfinished \subseteq Workers
  BY DEF Unfinished
<1>3. Cardinality(Unfinished) \in Nat /\ Cardinality(Unfinished) <= ThreadCount
  BY <1>2, Constants, SubsetCard
<1>4. ~shuttingDown[Main]
  BY Constants DEF Init, QueueInit
<1> QED
  BY <1>1, <1>3, <1>4 DEF FinishedBound

-----------------------------------------------------------------------------
(* The balance of packets and of the tasks that will take one.             *)

LoopInv ==
  /\ TypeInv
  /\ Control
  /\ OneTaskPerChain
  /\ FinishedBound

FinitePackets == IsFiniteSet(inflight) /\ IsFiniteSet(port)

(* The terms of the balance are numbers. *)
LEMMA PacketTypes ==
  ASSUME TypeInv, FinitePackets
  PROVE  /\ Cardinality(inflight) \in Nat
         /\ Cardinality(port) \in Nat
         /\ Cardinality(Reissuing) \in Nat
         /\ Cardinality(Expecting) \in Nat
         /\ ToIssue \in Int
  BY WorkerSubsets, FS_CardinalityType, SizesAssumption
  DEF FinitePackets, ToIssue, TypeInv, TypeOK

(* A read adds one to the reads in flight at most. *)
LEMMA ReadPackets ==
  ASSUME FinitePackets, NEW t, NEW c, Read(t, c)
  PROVE  /\ IsFiniteSet(inflight')
         /\ port' = port
         /\ Cardinality(inflight') \in Nat
         /\ Cardinality(inflight') <= Cardinality(inflight) + 1
<1>1. \/ inflight' = inflight
      \/ inflight' = inflight \cup {[ctx |-> c, by |-> t]}
  BY DEF Read
<1> DEFINE r == [ctx |-> c, by |-> t]
<1>2. Cardinality(inflight) \in Nat /\ IsFiniteSet(inflight)
  BY FS_CardinalityType DEF FinitePackets
<1>3. /\ IsFiniteSet(inflight \cup {r})
      /\ Cardinality(inflight \cup {r})
           = IF r \in inflight THEN Cardinality(inflight) ELSE Cardinality(inflight) + 1
  BY <1>2, FS_AddElement
<1>4. port' = port
  BY DEF Read
<1> QED
  BY <1>1, <1>2, <1>3, <1>4

(* A chain is not cut short: its worker's queue is open while it has a     *)
(* task to post, for main only shuts it down after the last Finished.      *)
LEMMA QueueOpen ==
  ASSUME LoopInv, NEW w \in Unfinished
  PROVE  ~shuttingDown[w]
<1>1. w \in Workers
  BY DEF Unfinished
<1>2. ~shuttingDown[Main]
  BY LastFinished DEF LoopInv
<1>3. step[Main] \notin {"shutdown", "join", "print"}
  BY <1>2 DEF LoopInv, Control, MainControl
<1> QED
  BY <1>1, <1>3 DEF LoopInv, Control, WorkerControl

(* A worker expects a packet until it takes one for the last time.         *)
LEMMA WorkerExpecting ==
  ASSUME LoopInv, process = "running", NEW w \in Workers, WorkerStep(w)
  PROVE  /\ \A u \in Workers \ {w} : ExpectsPacket(u) => ExpectsPacket(u)'
         /\ ~Dequeue(w) => (ExpectsPacket(w) => ExpectsPacket(w)')
         /\ Dequeue(w) /\ step'[w] = "read" => ExpectsPacket(w)'
<1>1. /\ index' = index
      /\ step'[Main] = step[Main]
      /\ \A u \in Workers \ {w} : /\ pc'[u] = pc[u]
                                  /\ step'[u] = step[u]
                                  /\ posting'[u] = posting[u]
                                  /\ queue'[u] = queue[u]
  BY WorkerFrame, Constants DEF LoopInv
<1> USE Constants DEF LoopInv, TypeInv, TypeOK, QueueTypeOK, Control
<1>2. \A u \in Workers \ {w} : ExpectsPacket(u) => ExpectsPacket(u)'
  <2> HIDE DEF LoopInv, TypeInv, Control
  <2> SUFFICES ASSUME NEW u \in Workers \ {w}
               PROVE  ExpectsPacket(u) => ExpectsPacket(u)'
    OBVIOUS
  <2> QED
    BY <1>1 DEF ExpectsPacket, At
<1>3. Dequeue(w) /\ step'[w] = "read" => ExpectsPacket(w)'
  BY DEF Dequeue, queueVars, ExpectsPacket, At
<1>4. ASSUME ~Dequeue(w), ExpectsPacket(w)
      PROVE  ExpectsPacket(w)'
  <2>1. CASE Loop(w)
    <3>1. CASE PopTask(w)
      BY <1>1, <2>1, <3>1
      DEF PopTask, Loop, Goto, WorkerControl, ExpectsPacket, At
    <3>2. CASE ~PopTask(w)
      BY <1>1, <1>4, <2>1, <3>2
      DEF Loop, LoopStep, EnterLoop, PopNothing, Decide, StartWait, WaitFails,
          EndWait, Goto, ExpectsPacket, At
    <3> QED
      BY <3>1, <3>2
  <2>2. CASE IssueNextRead(w) \/ Return(w)
    BY <1>1, <1>4, <2>2
    DEF IssueNextRead, Return, RunReturns, Goto, Enter, queueVars, ExpectsPacket, At
  <2>3. CASE PostNextTask(w)
    <3> DEFINE k == NextTask(w)
    <3>1. At(w, "post") /\ Add(w, w, k)
      BY <2>3 DEF PostNextTask
    <3>2. ~shuttingDown[w]
      <4>1. w \in Unfinished
        BY <3>1 DEF Unfinished, ExpectsPacket
      <4> QED
        BY <4>1, QueueOpen
    <3>3. posting' = [posting EXCEPT ![w] = [queue |-> w, task |-> k]]
      BY <3>1, <3>2 DEF Add, AddTaskCheck
    <3>4. posting'[w] # None /\ posting'[w].queue = w
      <4>1. k \in Tasks
        <5>1. running[w] \in ReadTasks
          BY <3>1 DEF At, Kinds, TasksOf
        <5> QED
          BY <5>1, IntervalType, SizesAssumption
          DEF NextTask, NewContextIndex, ReadTask, ReadTasks, Tasks
      <4> HIDE DEF k
      <4>2. [queue |-> w, task |-> k] \in [queue : Threads, task : Tasks]
        BY <4>1
      <4> QED
        BY <3>3, <4>2, NoneAssumption
    <3>5. At(w, "posting")'
      BY <3>1, <3>2 DEF Add, AddTaskCheck, Enter, At
    <3> QED
      BY <3>4, <3>5 DEF ExpectsPacket
  <2>4. CASE NotifyMain(w)
    BY <1>1, <1>4, <2>4 DEF NotifyMain, Add, AddTaskCheck, ExpectsPacket, At
  <2>5. CASE FinishAdd(w)
    <3>1. /\ AddTaskOkay(w) \/ AddTaskCouldNotSetEvent(w)
          /\ posting[w].queue \in {w, Main}
      BY <2>5 DEF FinishAdd, At, WorkerControl
    <3>2. CASE posting[w].queue = w
      BY <3>1, <3>2, PushLen DEF ExpectsPacket
    <3>3. CASE posting[w].queue = Main
      <4>1. queue'[w] = queue[w]
        BY <3>1, <3>3 DEF AddTaskOkay, AddTaskCouldNotSetEvent, AddTaskPush
      <4>2. step[w] = "posting" /\ posting[w].queue # w
        BY <2>5, <3>3 DEF FinishAdd, At
      <4>3. \/ step[Main] = "addTasks" /\ w >= index
            \/ queue[w] # <<>>
        BY <1>4, <4>2 DEF ExpectsPacket, At
      <4> QED
        BY <1>1, <4>1, <4>3 DEF ExpectsPacket
    <3> QED
      BY <3>1, <3>2, <3>3
  <2> QED
    BY <1>4, <2>1, <2>2, <2>3, <2>4, <2>5 DEF WorkerStep
<1> QED
  BY <1>2, <1>3, <1>4

(* A worker comes to issue a follow-up read only by taking a packet. *)
LEMMA WorkerReissuing ==
  ASSUME LoopInv, process = "running", NEW w \in Workers, WorkerStep(w)
  PROVE  /\ Reissuing' \ {w} \subseteq Reissuing
         /\ w \in Reissuing' => Dequeue(w) /\ step'[w] = "read"
<1> USE Constants DEF LoopInv, TypeInv, TypeOK, QueueTypeOK, Control
<1>1. \A u \in Workers \ {w} : pc'[u] = pc[u] /\ step'[u] = step[u]
  BY WorkerFrame
<1>2. Reissuing' \ {w} \subseteq Reissuing
  BY <1>1 DEF Reissuing, At
<1>3. ASSUME ~Dequeue(w)
      PROVE  ~At(w, "read")'
  BY <1>3
  DEF WorkerStep, Loop, LoopStep, EnterLoop, PopTask, PopNothing, Decide,
      StartWait, WaitFails, EndWait, Goto, WorkerControl, IssueNextRead,
      PostNextTask, NotifyMain, Add, FinishAdd, Return, Enter, At
<1> QED
  BY <1>2, <1>3 DEF Reissuing, At

(* main takes no packet away from a worker that expects one.               *)
LEMMA MainExpecting ==
  ASSUME LoopInv, process = "running", MainStep, process' # "terminated"
  PROVE  \A w \in Workers : ExpectsPacket(w) => ExpectsPacket(w)'
<1> USE Constants, SizesAssumption DEF LoopInv, TypeInv, TypeOK, QueueTypeOK, Control
<1>1. \A w \in Workers : /\ pc'[w] = pc[w]
                         /\ step'[w] = step[w]
                         /\ posting'[w] = posting[w]
  BY MainFrame
<1>2. \A w \in Workers : queue[w] # <<>> => queue'[w] # <<>>
  <2>1. CASE InitialTaskAdded \/ InitialTaskNotAdded
    BY <2>1, InitialPost
  <2>2. CASE ~(InitialTaskAdded \/ InitialTaskNotAdded)
    BY <2>2
    DEF MainStep, AddInitialTask, AddTaskCheck, NextPhase, IssueInitialRead,
        Loop, LoopStep, EnterLoop, PopTask, PopNothing, Decide, StartWait,
        WaitFails, EndWait, RunFinished, Shutdown, FinishShutdown, ShutdownSignals,
        Return, RunReturns, LeaveLoop, ShutdownWorker, Join, PrintResults, queueVars
  <2> QED
    BY <2>1, <2>2
<1>3. ASSUME NEW w \in Workers, step[Main] = "addTasks", w >= index
      PROVE  ExpectsPacket(w)'
  <2>1. CASE AddInitialTask
    BY <1>3, <2>1 DEF AddInitialTask, ExpectsPacket
  <2>2. CASE InitialTaskAdded
    <3>1. queue'[index] # <<>> /\ step' = step /\ index' = index + 1 /\ index \in Workers
      BY <2>2, InitialPost DEF InitialTaskAdded
    <3>2. w = index \/ w >= index'
      BY <1>3, <3>1 DEF Workers
    <3> QED
      BY <1>3, <3>1, <3>2 DEF ExpectsPacket
  <2>3. ~NextPhase("addTasks", ThreadCount, "issue")
    BY <1>3 DEF NextPhase, Workers
  <2>4. CASE FinishShutdown
    BY <1>3, <2>4 DEF FinishShutdown, ExpectsPacket
  <2> QED
    BY <1>3, <2>1, <2>2, <2>3, <2>4
    DEF MainStep, InitialTaskNotAdded, NextPhase, IssueInitialRead, Loop,
        RunFinished, Return, At, LeaveLoop, ShutdownWorker, Join, PrintResults
<1> QED
  BY <1>1, <1>2, <1>3 DEF ExpectsPacket, At

(* A read main issues is one it no longer has to issue. *)
LEMMA MainToIssue ==
  ASSUME LoopInv, process = "running", MainStep
  PROVE  ToIssue' = IF IssueInitialRead THEN ToIssue - 1 ELSE ToIssue
<1> USE SizesAssumption, Constants DEF LoopInv, TypeInv, TypeOK, QueueTypeOK, Control
<1>1. CASE IssueInitialRead
  BY <1>1 DEF IssueInitialRead, ToIssue
<1>2. CASE NextPhase("addTasks", ThreadCount, "issue")
  BY <1>2 DEF NextPhase, Enter, ToIssue, IssueInitialRead
<1>3. CASE NextPhase("issue", QueueDepth, "loop")
  <2>1. index = QueueDepth
    BY <1>3 DEF NextPhase, MainControl
  <2> QED
    BY <1>3, <2>1 DEF NextPhase, Enter, ToIssue, IssueInitialRead
<1>4. CASE AddInitialTask \/ InitialTaskAdded \/ InitialTaskNotAdded \/ FinishShutdown
  BY <1>4
  DEF AddInitialTask, InitialTaskAdded, InitialTaskNotAdded, FinishShutdown, ToIssue,
      IssueInitialRead
<1>5. ASSUME step[Main] \notin {"addTasks", "issue"}
      PROVE  step'[Main] \notin {"addTasks", "issue"}
  BY <1>5
  DEF MainStep, AddInitialTask, InitialTaskAdded, InitialTaskNotAdded, NextPhase,
      IssueInitialRead, Loop, RunFinished, FinishShutdown, Return, LeaveLoop,
      ShutdownWorker, Join, PrintResults, Enter
<1>6. CASE step[Main] \notin {"addTasks", "issue"}
  BY <1>5, <1>6 DEF ToIssue, IssueInitialRead
<1>7. CASE step[Main] \in {"addTasks", "issue"}
  <2>1. pc[Main] = "idle"
    BY <1>7 DEF MainControl
  <2>2. \/ AddInitialTask \/ InitialTaskAdded \/ InitialTaskNotAdded
        \/ NextPhase("addTasks", ThreadCount, "issue")
        \/ IssueInitialRead
        \/ NextPhase("issue", QueueDepth, "loop")
        \/ FinishShutdown
    BY <1>7
    DEF MainStep, NextPhase, Loop, RunFinished, Return, LeaveLoop, ShutdownWorker,
        Join, PrintResults, At
  <2> QED
    BY <1>1, <1>2, <1>3, <1>4, <2>2
<1> QED
  BY <1>6, <1>7

(* The sum of the balance, each of its terms a number of its own.          *)
LEMMA BalanceSum ==
  ASSUME NEW t \in Nat, NEW d \in Nat,
         NEW i \in Nat, NEW p \in Nat, NEW r \in Nat, NEW x \in Int, NEW e \in Nat,
         NEW i1 \in Nat, NEW p1 \in Nat, NEW r1 \in Nat, NEW x1 \in Int, NEW e1 \in Nat,
         t + i + p + r + x <= d + e,
         i1 + p1 + r1 + x1 + e <= i + p + r + x + e1
  PROVE  t + i1 + p1 + r1 + x1 <= d + e1
  OBVIOUS

(* The balance is kept by a step that adds no more packets than takers. *)
LEMMA BalanceFrom ==
  ASSUME LoopInv, FinitePackets, PacketBalance, process # "terminated",
         LoopInv', FinitePackets',
         Cardinality(inflight') + Cardinality(port') + Cardinality(Reissuing')
           + ToIssue' + Cardinality(Expecting)
         <= Cardinality(inflight) + Cardinality(port) + Cardinality(Reissuing)
           + ToIssue + Cardinality(Expecting')
  PROVE  PacketBalance'
<1>1. LoopInv => TypeInv
  BY DEF LoopInv
<1>2. /\ Cardinality(inflight) \in Nat /\ Cardinality(port) \in Nat
      /\ Cardinality(Reissuing) \in Nat /\ Cardinality(Expecting) \in Nat
      /\ ToIssue \in Int
  BY <1>1, PacketTypes
<1>3. /\ Cardinality(inflight') \in Nat /\ Cardinality(port') \in Nat
      /\ Cardinality(Reissuing') \in Nat /\ Cardinality(Expecting') \in Nat
      /\ ToIssue' \in Int
  <2>1. Reissuing' \subseteq Workers /\ Expecting' \subseteq Workers
    BY DEF Reissuing, Expecting
  <2>2. Cardinality(Reissuing') \in Nat /\ Cardinality(Expecting') \in Nat
    BY <2>1, Constants, SubsetCard
  <2>3. index' \in Nat
    BY DEF LoopInv, TypeInv, TypeOK
  <2>4. ToIssue' \in Int
    BY <2>3, SizesAssumption DEF ToIssue
  <2> QED
    BY <2>2, <2>4, FS_CardinalityType DEF FinitePackets
<1>4. ThreadCount + Cardinality(inflight) + Cardinality(port)
        + Cardinality(Reissuing) + ToIssue
      <= QueueDepth + Cardinality(Expecting)
  BY DEF PacketBalance
<1>5. ThreadCount + Cardinality(inflight') + Cardinality(port')
        + Cardinality(Reissuing') + ToIssue'
      <= QueueDepth + Cardinality(Expecting')
  BY <1>2, <1>3, <1>4, BalanceSum, SizesAssumption
<1> QED
  BY <1>5 DEF PacketBalance

(* A worker's step keeps the balance: a packet taken is a read reissued or a chain over. *)
LEMMA BalanceWorker ==
  ASSUME LoopInv, FinitePackets, PacketBalance, LoopInv', FinitePackets',
         process = "running", NEW w \in Workers, WorkerStep(w), process' # "terminated"
  PROVE  PacketBalance'
<1> DEFINE i == Cardinality(inflight)   i1 == Cardinality(inflight')
           p == Cardinality(port)       p1 == Cardinality(port')
           r == Cardinality(Reissuing)  r1 == Cardinality(Reissuing')
           e == Cardinality(Expecting)  e1 == Cardinality(Expecting')
           x == ToIssue                 x1 == ToIssue'
<1>1. i \in Nat /\ p \in Nat /\ r \in Nat /\ e \in Nat /\ x \in Int
  BY PacketTypes DEF LoopInv
<1>2. /\ Reissuing' \subseteq Workers /\ Expecting' \subseteq Workers
      /\ IsFiniteSet(Reissuing') /\ IsFiniteSet(Expecting')
      /\ r1 \in Nat /\ e1 \in Nat /\ i1 \in Nat /\ p1 \in Nat
  <2>1. Reissuing' \subseteq Workers /\ Expecting' \subseteq Workers
    BY DEF Reissuing, Expecting
  <2> QED
    BY <2>1, Constants, SubsetCard, FS_CardinalityType DEF FinitePackets
<1>3. x1 = x
  <2>1. index' = index /\ step'[Main] = step[Main]
    BY WorkerFrame, Constants DEF LoopInv
  <2> QED
    BY <2>1 DEF ToIssue
<1>4. /\ IsFiniteSet(inflight) /\ IsFiniteSet(port)
      /\ IsFiniteSet(Reissuing) /\ IsFiniteSet(Expecting)
      /\ Expecting \subseteq Workers
  BY WorkerSubsets DEF FinitePackets, Expecting
<1>5. /\ Reissuing' \ {w} \subseteq Reissuing
      /\ w \in Reissuing' => Dequeue(w) /\ step'[w] = "read"
  BY WorkerReissuing
<1>6. /\ \A u \in Workers \ {w} : ExpectsPacket(u) => ExpectsPacket(u)'
      /\ ~Dequeue(w) => (ExpectsPacket(w) => ExpectsPacket(w)')
      /\ Dequeue(w) /\ step'[w] = "read" => ExpectsPacket(w)'
  BY WorkerExpecting
<1>7. CASE Dequeue(w)
  <2>1. i1 = i /\ p1 + 1 <= p
    <3>1. PICK a \in port : port' = port \ {a}
      BY <1>7 DEF Dequeue
    <3>2. inflight' = inflight
      BY <1>7 DEF Dequeue
    <3>3. p1 + 1 <= p
      BY <1>4, <3>1, LessOneCard
    <3> QED
      BY <3>2, <3>3
  <2>2. CASE step'[w] = "read"
    <3>1. r1 <= r + 1
      <4>1. Reissuing' \subseteq Reissuing \cup {w}
        BY <1>5
      <4> QED
        BY <1>4, <4>1, OneMoreCard
    <3>2. e <= e1
      <4>1. Expecting \subseteq Expecting'
        BY <1>6, <1>7, <2>2 DEF Expecting
      <4> QED
        BY <1>2, <4>1, SubsetCard
    <3>3. i1 + p1 + r1 + x1 + e <= i + p + r + x + e1
      <4> HIDE DEF i, p, r, e, x, i1, p1, r1, e1, x1
      <4> QED
        BY <1>1, <1>2, <1>3, <2>1, <3>1, <3>2
    <3> QED
      BY <3>3, BalanceFrom
  <2>3. CASE step'[w] # "read"
    <3>1. r1 <= r
      BY <1>4, <1>5, <2>3, SubsetCard
    <3>2. e <= e1 + 1
      <4>1. Expecting \subseteq Expecting' \cup {w}
        BY <1>6 DEF Expecting
      <4> QED
        BY <1>2, <4>1, OneMoreCard
    <3>3. i1 + p1 + r1 + x1 + e <= i + p + r + x + e1
      <4> HIDE DEF i, p, r, e, x, i1, p1, r1, e1, x1
      <4> QED
        BY <1>1, <1>2, <1>3, <2>1, <3>1, <3>2
    <3> QED
      BY <3>3, BalanceFrom
  <2> QED
    BY <2>2, <2>3
<1>8. CASE ~Dequeue(w)
  <2>1. e <= e1
    <3>1. Expecting \subseteq Expecting'
      BY <1>6, <1>8 DEF Expecting
    <3> QED
      BY <1>2, <3>1, SubsetCard
  <2>2. Reissuing' \subseteq Reissuing \ {w}
    BY <1>5, <1>8
  <2>3. CASE IssueNextRead(w)
    <3>1. w \in Reissuing
      BY <2>3 DEF IssueNextRead, Reissuing
    <3>2. r1 + 1 <= r
      BY <1>4, <2>2, <3>1, LessOneCard
    <3>3. p1 = p /\ i1 <= i + 1
      <4>1. Read(w, NewContextIndex(w))
        BY <2>3 DEF IssueNextRead
      <4> QED
        BY <4>1, ReadPackets
    <3>4. i1 + p1 + r1 + x1 + e <= i + p + r + x + e1
      <4> HIDE DEF i, p, r, e, x, i1, p1, r1, e1, x1
      <4> QED
        BY <1>1, <1>2, <1>3, <2>1, <3>2, <3>3
    <3> QED
      BY <3>4, BalanceFrom
  <2>4. CASE ~IssueNextRead(w)
    <3>1. r1 <= r
      BY <1>4, <2>2, SubsetCard
    <3>2. i1 = i /\ p1 = p
      <4>1. inflight' = inflight /\ port' = port
        BY <1>8, <2>4
        DEF WorkerStep, Loop, PostNextTask, NotifyMain, Add, FinishAdd, Return, ioVars
      <4> QED
        BY <4>1
    <3>3. i1 + p1 + r1 + x1 + e <= i + p + r + x + e1
      <4> HIDE DEF i, p, r, e, x, i1, p1, r1, e1, x1
      <4> QED
        BY <1>1, <1>2, <1>3, <2>1, <3>1, <3>2
    <3> QED
      BY <3>3, BalanceFrom
  <2> QED
    BY <2>3, <2>4
<1> QED
  BY <1>7, <1>8

(* main's step keeps the balance: a read issued is one fewer to issue. *)
LEMMA BalanceMain ==
  ASSUME LoopInv, FinitePackets, PacketBalance, LoopInv', FinitePackets',
         process = "running", MainStep, process' # "terminated"
  PROVE  PacketBalance'
<1> DEFINE i == Cardinality(inflight)   i1 == Cardinality(inflight')
           p == Cardinality(port)       p1 == Cardinality(port')
           r == Cardinality(Reissuing)  r1 == Cardinality(Reissuing')
           e == Cardinality(Expecting)  e1 == Cardinality(Expecting')
           x == ToIssue                 x1 == ToIssue'
<1>1. i \in Nat /\ p \in Nat /\ r \in Nat /\ e \in Nat /\ x \in Int
  BY PacketTypes DEF LoopInv
<1>2. r1 = r
  <2>1. Reissuing' = Reissuing
    BY MainFrame DEF LoopInv, Reissuing, At
  <2> QED
    BY <2>1
<1>3. e <= e1 /\ e1 \in Nat
  <2>1. Expecting \subseteq Expecting' /\ Expecting' \subseteq Workers
    BY MainExpecting DEF Expecting
  <2>2. IsFiniteSet(Expecting')
    BY <2>1, Constants, SubsetCard
  <2> QED
    BY <2>1, <2>2, SubsetCard
<1>4. CASE IssueInitialRead
  <2>1. x1 = x - 1
    BY <1>4, MainToIssue
  <2>2. p1 = p /\ i1 <= i + 1 /\ i1 \in Nat
    BY <1>4, ReadPackets DEF IssueInitialRead
  <2>3. i1 + p1 + r1 + x1 + e <= i + p + r + x + e1
    <3> HIDE DEF i, p, r, e, x, i1, p1, r1, e1, x1
    <3> QED
      BY <1>1, <1>2, <1>3, <2>1, <2>2
  <2> QED
    BY <2>3, BalanceFrom
<1>5. CASE ~IssueInitialRead
  <2>1. x1 = x
    BY <1>5, MainToIssue
  <2>2. i1 = i /\ p1 = p
    <3>1. inflight' = inflight /\ port' = port
      BY <1>5
      DEF MainStep, AddInitialTask, InitialTaskAdded, InitialTaskNotAdded,
          NextPhase, Loop, RunFinished, FinishShutdown, Return, LeaveLoop,
          ShutdownWorker, Join, PrintResults, ioVars
    <3> QED
      BY <3>1
  <2>3. i1 + p1 + r1 + x1 + e <= i + p + r + x + e1
    <3> HIDE DEF i, p, r, e, x, i1, p1, r1, e1, x1
    <3> QED
      BY <1>1, <1>2, <1>3, <2>1, <2>2
  <2> QED
    BY <2>3, BalanceFrom
<1> QED
  BY <1>4, <1>5

(* Every step leaves finitely many reads and packets. *)
LEMMA FiniteStep == FinitePackets /\ [Next]_vars => FinitePackets'
<1> SUFFICES ASSUME FinitePackets, [Next]_vars
             PROVE  FinitePackets'
  OBVIOUS
<1>1. ASSUME NEW r, CompleteRead(r)
      PROVE  FinitePackets'
  <2>1. inflight' = inflight \ {r} /\ port' = port \cup {r}
    BY <1>1 DEF CompleteRead
  <2> QED
    BY <2>1, FS_RemoveElement, FS_AddElement DEF FinitePackets
<1>2. ASSUME NEW t, NEW c, Read(t, c)
      PROVE  FinitePackets'
  BY <1>2, ReadPackets DEF FinitePackets
<1>3. ASSUME NEW w \in Workers, Dequeue(w)
      PROVE  FinitePackets'
  <2>1. PICK a \in port : port' = port \ {a}
    BY <1>3 DEF Dequeue
  <2>2. inflight' = inflight
    BY <1>3 DEF Dequeue
  <2> QED
    BY <2>1, <2>2, FS_RemoveElement DEF FinitePackets
<1>4. CASE UNCHANGED <<inflight, port>>
  BY <1>4 DEF FinitePackets
<1>5. ASSUME NEW w \in Workers, WorkerStep(w)
      PROVE  FinitePackets'
  BY <1>2, <1>3, <1>4, <1>5
  DEF WorkerStep, Loop, IssueNextRead, PostNextTask, NotifyMain, Add, FinishAdd,
      Return, ioVars
<1>6. CASE MainStep
  BY <1>2, <1>4, <1>6
  DEF MainStep, AddInitialTask, InitialTaskAdded, InitialTaskNotAdded, NextPhase,
      IssueInitialRead, Loop, RunFinished, FinishShutdown, Return, LeaveLoop,
      ShutdownWorker, Join, PrintResults, ioVars
<1>7. CASE UNCHANGED vars
  BY <1>4, <1>7 DEF vars, ioVars
<1> QED
  BY <1>1, <1>5, <1>6, <1>7 DEF Next

(* Every step keeps the balance. *)
LEMMA BalanceStep ==
  ASSUME LoopInv, FinitePackets, PacketBalance, LoopInv', FinitePackets', [Next]_vars
  PROVE  PacketBalance'
<1>1. CASE UNCHANGED vars
  BY <1>1
  DEF vars, queueVars, ioVars, PacketBalance, Reissuing, Expecting, ExpectsPacket,
      At, ToIssue
<1>2. CASE process' = "terminated"
  BY <1>2 DEF PacketBalance
<1>3. ASSUME process = "running", NEW w \in Workers, WorkerStep(w), process' # "terminated"
      PROVE  PacketBalance'
  BY <1>3, BalanceWorker
<1>4. CASE process = "running" /\ MainStep /\ process' # "terminated"
  BY <1>4, BalanceMain
<1>5. ASSUME process = "running", NEW a \in inflight, CompleteRead(a)
      PROVE  PacketBalance'
  <2> DEFINE i == Cardinality(inflight)   i1 == Cardinality(inflight')
             p == Cardinality(port)       p1 == Cardinality(port')
             r == Cardinality(Reissuing)
             e == Cardinality(Expecting)
             x == ToIssue
  <2>1. inflight' = inflight \ {a} /\ port' = port \cup {a}
    BY <1>5 DEF CompleteRead
  <2>2. i1 + 1 <= i /\ p1 <= p + 1
    BY <2>1, LessOneCard, OneMoreCard DEF FinitePackets
  <2>3. Reissuing' = Reissuing /\ Expecting' = Expecting /\ ToIssue' = ToIssue
    BY <1>5
    DEF CompleteRead, queueVars, Reissuing, Expecting, ExpectsPacket, At, ToIssue
  <2>4. i \in Nat /\ p \in Nat /\ r \in Nat /\ e \in Nat /\ x \in Int
    BY PacketTypes DEF LoopInv
  <2>5. i1 \in Nat /\ p1 \in Nat
    BY FS_CardinalityType DEF FinitePackets
  <2>6. i1 + p1 + r + x + e <= i + p + r + x + e
    <3> HIDE DEF i, p, r, e, x, i1, p1
    <3> QED
      BY <2>2, <2>4, <2>5
  <2> QED
    BY <1>5, <2>3, <2>6, BalanceFrom
<1> QED
  BY <1>1, <1>2, <1>3, <1>4, <1>5 DEF Next

(* The balance holds initially: a taker per thread, QueueDepth reads to issue. *)
LEMMA BalanceInit == Init => FinitePackets /\ PacketBalance
<1> SUFFICES ASSUME Init
             PROVE  FinitePackets /\ PacketBalance
  OBVIOUS
<1>1. inflight = {} /\ port = {}
  BY DEF Init
<1>2. IsFiniteSet(inflight) /\ IsFiniteSet(port)
      /\ Cardinality(inflight) = 0 /\ Cardinality(port) = 0
  BY <1>1, FS_EmptySet
<1>3. Reissuing = {}
  BY Constants DEF Init, QueueInit, Reissuing, At
<1>4. Cardinality(Reissuing) = 0
  BY <1>3, FS_EmptySet
<1>5. step[Main] = "addTasks" /\ index = 0
  BY Constants DEF Init
<1>6. Expecting = Workers
  <2>1. \A w \in Workers : w >= index
    BY <1>5, Constants
  <2> QED
    BY <1>5, <2>1 DEF Expecting, ExpectsPacket
<1>7. Cardinality(Expecting) = ThreadCount /\ ToIssue = QueueDepth
  BY <1>5, <1>6, Constants DEF ToIssue
<1> QED
  BY <1>2, <1>4, <1>7, SizesAssumption DEF FinitePackets, PacketBalance

(* The conjuncts of the inductive invariant as the lemmas group them. *)
LEMMA IndInvParts ==
  IndInv <=> LoopInv /\ FinitePackets /\ PacketBalance
  BY DEF IndInv, LoopInv, TypeInv, Control, FinitePackets

(* Every step of main, of a worker and of the kernel keeps the invariant.  *)
LEMMA IndInvStep == IndInv /\ [Next]_vars => IndInv'
<1> SUFFICES ASSUME LoopInv, FinitePackets, PacketBalance, [Next]_vars
             PROVE  LoopInv' /\ FinitePackets' /\ PacketBalance'
  BY IndInvParts DEF IndInv, LoopInv, TypeInv, Control, FinitePackets
<1>1. LoopInv'
  BY TypeStep, ControlStep, OneTaskStep, FinishedStep DEF LoopInv
<1>2. FinitePackets'
  BY FiniteStep
<1>3. PacketBalance'
  BY <1>1, <1>2, BalanceStep
<1> QED
  BY <1>1, <1>2, <1>3

(* The invariant holds initially, and every step keeps it. *)
THEOREM Invariance == Spec => []IndInv
<1>1. Init => IndInv
  BY IndInvParts, TypeInit, ControlInit, OneTaskInit, FinishedInit, BalanceInit DEF LoopInv
<1> QED
  BY <1>1, IndInvStep, PTL DEF Spec

-----------------------------------------------------------------------------
(* What the invariant gives.                                               *)

(* Packets and the tasks that will take one keep the balance the TODOs of  *)
(* EntryPoint.cpp worry about, for every queue depth and thread count.     *)
THEOREM PacketsBalance == Spec => []PacketBalance
  BY Invariance, IndInvParts, PTL

(* Finished::Run shuts main's queue down on the last Finished: no chain    *)
(* has a task, a read to issue or a Finished to send by then.              *)
THEOREM MainIsLast == Spec => []MainLeavesLast
<1>1. IndInv => MainLeavesLast
  BY IndInvParts, LastFinished DEF LoopInv, FinishedBound, MainLeavesLast
<1> QED
  BY <1>1, Invariance, PTL

(* No thread leaves its TaskRunnerLoop with a task in its queue or about   *)
(* to be pushed there, whatever event calls fail: AddTask's unlocked look  *)
(* at shutting_down_ is harmless in this program.                          *)
THEOREM NothingAbandoned == Spec => []NoTaskAbandoned
<1>1. ASSUME IndInv, NEW t \in Threads, pc[t] = "exited"
      PROVE  /\ queue[t] = <<>>
             /\ \A u \in Threads : posting[u] # None => posting[u].queue # t
  <2>1. LoopInv
    BY <1>1, IndInvParts
  <2>2. shuttingDown[Main]
    BY <1>1, <2>1, Constants DEF LoopInv, Control, MainControl, WorkerControl
  <2>3. Unfinished = {} /\ queue[Main] = <<>>
    BY <2>1, <2>2, LastFinished DEF LoopInv
  <2>4. queue[t] = <<>>
    BY <2>3, Constants DEF Unfinished, ExpectsPacket
  <2>5. \A u \in Workers : posting[u] = None
    <3> SUFFICES ASSUME NEW u \in Workers, posting[u] # None
                 PROVE  FALSE
      OBVIOUS
    <3>1. At(u, "posting") /\ posting[u].queue \in {u, Main}
      BY <2>1 DEF LoopInv, Control, WorkerControl, At
    <3>2. u \in Unfinished
      BY <3>1 DEF Unfinished, ExpectsPacket
    <3> QED
      BY <2>3, <3>2
  <2>6. posting[Main] = None
    <3>1. step[Main] # "addTasks"
      BY <1>1, <2>1, Constants DEF LoopInv, Control, MainControl, WorkerControl
    <3> QED
      BY <2>1, <3>1 DEF LoopInv, Control, MainControl
  <2> QED
    BY <2>4, <2>5, <2>6, Constants
<1>2. IndInv => NoTaskAbandoned
  BY <1>1 DEF NoTaskAbandoned
<1> QED
  BY <1>2, Invariance, PTL

(* When main prints, its queue is shut down, every chain is over, and the  *)
(* initial reads covered the threads and the reads nobody waited for.      *)
LEMMA Printing ==
  ASSUME IndInv, step[Main] = "print", process # "terminated"
  PROVE  /\ shuttingDown[Main]
         /\ Unfinished = {}
         /\ ThreadCount + Cardinality(inflight) + Cardinality(port) <= QueueDepth
<1>1. LoopInv /\ FinitePackets /\ PacketBalance
  BY IndInvParts
<1>2. shuttingDown[Main]
  BY <1>1 DEF LoopInv, Control, MainControl
<1>3. Unfinished = {} /\ Expecting = {}
  BY <1>1, <1>2, LastFinished, WorkerSubsets DEF LoopInv
<1>4. Cardinality(Expecting) = 0 /\ ToIssue = 0
  BY <1>3, FS_EmptySet DEF ToIssue
<1>5. ThreadCount + Cardinality(inflight) + Cardinality(port)
        + Cardinality(Reissuing) + 0 <= QueueDepth + 0
  BY <1>1, <1>4 DEF PacketBalance
<1>6. ThreadCount + Cardinality(inflight) + Cardinality(port) <= QueueDepth
  BY <1>1, <1>5, PacketTypes, SizesAssumption DEF LoopInv
<1> QED
  BY <1>2, <1>3, <1>6

(* So they did when it has returned. *)
LEMMA Returned ==
  ASSUME IndInv, process = "returned"
  PROVE  /\ shuttingDown[Main]
         /\ ThreadCount + Cardinality(inflight) <= QueueDepth
<1>1. step[Main] = "print" /\ LoopInv /\ FinitePackets
  BY IndInvParts DEF LoopInv, Control, MainControl
<1>2. /\ shuttingDown[Main]
      /\ ThreadCount + Cardinality(inflight) + Cardinality(port) <= QueueDepth
  BY <1>1, Printing
<1> QED
  BY <1>1, <1>2, PacketTypes, SizesAssumption DEF LoopInv

(* With fewer initial reads than threads, main never returns.              *)
THEOREM EnoughReads == Spec => []EndsOnlyWithEnoughReads
<1>1. IndInv => EndsOnlyWithEnoughReads
  <2> SUFFICES ASSUME IndInv, process = "returned"
               PROVE  QueueDepth >= ThreadCount /\ ThreadCount > 0
    BY DEF EndsOnlyWithEnoughReads
  <2>1. Cardinality(inflight) \in Nat
    BY IndInvParts, PacketTypes DEF LoopInv
  <2>2. ThreadCount > 0
    BY Returned, IndInvParts DEF LoopInv, FinishedBound
  <2> QED
    BY <2>1, <2>2, Returned, SizesAssumption
<1> QED
  BY <1>1, Invariance, PTL

(* With no more initial reads than threads, the program never frees a      *)
(* buffer that a read in flight writes to.                                 *)
THEOREM NoReadIntoFreedBuffer ==
  ASSUME QueueDepth <= ThreadCount
  PROVE  Spec => []BuffersOutliveReads
<1>1. IndInv => BuffersOutliveReads
  <2> SUFFICES ASSUME IndInv
               PROVE  BuffersOutliveReads
    OBVIOUS
  <2>1. LoopInv /\ FinitePackets
    BY IndInvParts
  <2>2. CASE process = "returned"
    <3> DEFINE i == Cardinality(inflight)
    <3>1. i \in Nat /\ ThreadCount + i <= QueueDepth
      BY <2>1, <2>2, PacketTypes, Returned DEF LoopInv
    <3>2. i = 0
      <4> HIDE DEF i
      <4> QED
        BY <3>1, SizesAssumption
    <3>3. inflight = {}
      BY <2>1, <3>2, FS_EmptySet DEF FinitePackets
    <3> QED
      BY <3>3 DEF BuffersOutliveReads
  <2>3. CASE process # "returned"
    <3>1. memory = Contexts
      BY <2>1, <2>3 DEF LoopInv, Control, MainControl
    <3> QED
      BY <3>1 DEF BuffersOutliveReads
  <2> QED
    BY <2>2, <2>3
<1> QED
  BY <1>1, Invariance, PTL

=============================================================================

----------------------------- MODULE ReadPlanProofs -----------------------------
(***************************************************************************)
(* The measurement keeps the promise of ReadPlan: what each chain has read *)
(* at every moment, for every number of threads, buffer and file size.     *)
(* And, since no packet is missing that was not lost, no deadlock without  *)
(* a cause.                                                                *)
(***************************************************************************)
EXTENDS FileReadSpeedTestProofs, Quotients

-----------------------------------------------------------------------------
(* Contexts and offsets.                                                   *)

(* A context has file left: it starts before the end of the file. *)
LEMMA ContextStart ==
  ASSUME NEW c \in Nat
  PROVE  c \in Contexts <=> c * BufferSize < FileSize
<1>1. ContextCount \in Nat /\ (c < ContextCount <=> c * BufferSize < FileSize)
  BY SizesAssumption, PartCount DEF ContextCount
<1> QED
  BY <1>1 DEF Contexts

(* The offset of the context QueueDepth further on. *)
LEMMA NextOffset ==
  ASSUME NEW c \in Nat
  PROVE  (c + QueueDepth) * BufferSize = c * BufferSize + ReadInterval
  BY SizesAssumption DEF ReadInterval

-----------------------------------------------------------------------------
(* The current task of a chain.                                            *)

(* Where a chain's current task can be: in the queue, with the loop, with  *)
(* a loop that has read for it, on its way to the queue.                   *)
Queued(w, k) == \E i \in DOMAIN queue[w] : k = queue[w][i]

AtTask(w, k) == (At(w, "dequeue") \/ At(w, "read")) /\ k = running[w]

AtNext(w, k) == At(w, "post") /\ k = NextTask(w)

Posted(w, k) ==
  \E t \in Threads : posting[t] # None /\ posting[t].queue = w /\ k = posting[t].task

(* CurrentTasks, place by place. *)
LEMMA TaskPlaces ==
  ASSUME NEW w, NEW k
  PROVE  k \in CurrentTasks(w)
           <=> Queued(w, k) \/ AtTask(w, k) \/ AtNext(w, k) \/ Posted(w, k)
  BY DEF CurrentTasks, Queued, AtTask, AtNext, Posted

(* CurrentTasks, place by place, after a step. *)
LEMMA TaskPlacesNext ==
  ASSUME NEW w, NEW k
  PROVE  k \in CurrentTasks(w)'
           <=> Queued(w, k)' \/ AtTask(w, k)' \/ AtNext(w, k)' \/ Posted(w, k)'
  BY DEF CurrentTasks, Queued, AtTask, AtNext, Posted

(* A worker's next task is a read task. *)
LEMMA NextTaskType ==
  ASSUME LoopInv, NEW w \in Workers, pc[w] = "run"
  PROVE  /\ running[w] \in ReadTasks
         /\ NextTask(w) \in ReadTasks
<1>1. running[w] \in ReadTasks
  BY Constants DEF LoopInv, TypeInv, Kinds, TasksOf
<1> QED
  BY <1>1, IntervalType, SizesAssumption DEF NextTask, NewContextIndex, ReadTask, ReadTasks

(* The current task of a chain is a read task. *)
LEMMA CurrentTaskType ==
  ASSUME LoopInv, NEW w \in Workers, NEW k \in CurrentTasks(w)
  PROVE  k \in ReadTasks /\ k.ctx \in Nat /\ k.offset \in Nat
<1>1. k \in ReadTasks
  <2>1. CASE Queued(w, k)
    <3>1. queue[w] \in Seq(ReadTasks)
      BY DEF LoopInv, TypeInv, TypeOK
    <3>2. PICK i \in DOMAIN queue[w] : k = queue[w][i]
      BY <2>1 DEF Queued
    <3> QED
      BY <3>1, <3>2
  <2>2. CASE AtTask(w, k) \/ AtNext(w, k)
    BY <2>2, NextTaskType DEF AtTask, AtNext, At
  <2>3. CASE Posted(w, k)
    <3>1. k \in TasksOf(w)
      BY <2>3 DEF Posted, LoopInv, TypeInv, Kinds
    <3> QED
      BY <3>1, Constants DEF TasksOf
  <2> QED
    BY <2>1, <2>2, <2>3, TaskPlaces
<1> QED
  BY <1>1 DEF ReadTasks

(* What a push adds to the queue is the task of the post. *)
LEMMA PushedTask ==
  ASSUME LoopInv, NEW t \in Threads, AddTaskOkay(t) \/ AddTaskCouldNotSetEvent(t),
         NEW w \in Workers, NEW k, Queued(w, k)'
  PROVE  Queued(w, k) \/ Posted(w, k)
<1> USE Constants DEF LoopInv, TypeInv, TypeOK, QueueTypeOK
<1> DEFINE q == posting[t].queue
           x == posting[t].task
<1>1. /\ posting[t] # None
      /\ queue' = [queue EXCEPT ![q] = Append(@, x)]
  BY DEF AddTaskOkay, AddTaskCouldNotSetEvent, AddTaskPush
<1>2. q \in Threads /\ x \in Tasks
  BY <1>1
<1>3. CASE w # q
  <2>1. queue'[w] = queue[w]
    BY <1>1, <1>3
  <2> QED
    BY <2>1 DEF Queued
<1>4. CASE w = q
  <2> DEFINE s == queue[w]
  <2>1. queue'[w] = Append(s, x) /\ s \in Seq(Tasks)
    BY <1>1, <1>2, <1>4
  <2>2. PICK i \in DOMAIN queue'[w] : k = queue'[w][i]
    BY DEF Queued
  <2>3. i \in DOMAIN s \/ i = Len(s) + 1
    <3> HIDE DEF s, x
    <3> QED
      BY <1>2, <2>1, <2>2
  <2>4. CASE i \in DOMAIN s
    <3>1. k = s[i]
      <4> HIDE DEF s, x
      <4> QED
        BY <1>2, <2>1, <2>2, <2>4
    <3> QED
      BY <2>4, <3>1 DEF Queued
  <2>5. CASE i = Len(s) + 1
    <3>1. k = x
      <4> HIDE DEF s, x
      <4> QED
        BY <1>2, <2>1, <2>2, <2>5
    <3> QED
      BY <1>1, <1>4, <3>1 DEF Posted
  <2> QED
    BY <2>3, <2>4, <2>5
<1> QED
  BY <1>3, <1>4

(* What TryPopTask takes and what it leaves were in the queue. *)
LEMMA PoppedTask ==
  ASSUME LoopInv, NEW w \in Workers, PopTask(w), NEW k, Queued(w, k)' \/ k = running'[w]
  PROVE  Queued(w, k)
<1> DEFINE s == queue[w]
<1>1. /\ s \in Seq(Tasks) /\ s # <<>>
      /\ queue'[w] = Tail(s)
      /\ running'[w] = Head(s)
  BY Constants DEF PopTask, LoopInv, TypeInv, TypeOK, QueueTypeOK
<1>2. CASE k = running'[w]
  <2>1. 1 \in DOMAIN s /\ Head(s) = s[1]
    <3> HIDE DEF s
    <3> QED
      BY <1>1
  <2> QED
    BY <1>1, <1>2, <2>1 DEF Queued
<1>3. CASE Queued(w, k)'
  <2>1. PICK i \in DOMAIN Tail(s) : k = Tail(s)[i]
    BY <1>1, <1>3 DEF Queued
  <2>2. i + 1 \in DOMAIN s /\ Tail(s)[i] = s[i + 1]
    <3> HIDE DEF s
    <3> QED
      BY <1>1, <2>1
  <2> QED
    BY <2>1, <2>2 DEF Queued
<1> QED
  BY <1>2, <1>3

(* Neither main nor another worker touches what a worker runs.             *)
LEMMA RunningFrame ==
  ASSUME TypeInv, NEW w \in Workers,
         MainStep \/ \E v \in Workers \ {w} : WorkerStep(v)
  PROVE  running'[w] = running[w]
<1> USE Constants DEF TypeInv, TypeOK, QueueTypeOK
<1>1. CASE MainStep
  <2>1. CASE Loop(Main) \/ Return(Main)
    BY <2>1
    DEF Loop, LoopStep, EnterLoop, PopTask, PopNothing, Decide, StartWait, WaitFails,
        EndWait, Return, RunReturns
  <2>2. CASE ~Loop(Main) /\ ~Return(Main)
    <3> HIDE DEF TypeInv
    <3>1. UNCHANGED running
      BY <1>1, <2>2
      DEF MainStep, AddInitialTask, InitialTaskAdded, InitialTaskNotAdded, AddTaskCheck,
          AddTaskOkay, AddTaskCouldNotSetEvent, AddTaskPush, NextPhase, IssueInitialRead,
          RunFinished, Shutdown, FinishShutdown, ShutdownSignals, LeaveLoop,
          ShutdownWorker, Join, PrintResults, queueVars
    <3> QED
      BY <3>1
  <2> QED
    BY <2>1, <2>2
<1>2. ASSUME NEW v \in Workers \ {w}, WorkerStep(v)
      PROVE  running'[w] = running[w]
  <2>1. CASE Loop(v)
    BY <2>1
    DEF Loop, LoopStep, EnterLoop, PopTask, PopNothing, Decide, StartWait, WaitFails, EndWait
  <2>2. CASE Return(v)
    BY <2>2 DEF Return, RunReturns
  <2>3. CASE ~Loop(v) /\ ~Return(v)
    <3> HIDE DEF TypeInv
    <3>1. UNCHANGED running
      BY <1>2, <2>3
      DEF WorkerStep, Dequeue, IssueNextRead, PostNextTask, NotifyMain, Add,
          AddTaskCheck, FinishAdd, AddTaskOkay, AddTaskCouldNotSetEvent, AddTaskPush,
          queueVars
    <3> QED
      BY <3>1
  <2> QED
    BY <2>1, <2>2, <2>3
<1> QED
  BY <1>1, <1>2

(* A worker's step leaves the other chains' tasks where they are. *)
LEMMA OtherChains ==
  ASSUME LoopInv, LoopInv', process = "running", NEW v \in Workers, WorkerStep(v),
         NEW w \in Workers \ {v}, NEW k
  PROVE  k \in CurrentTasks(w)' => k \in CurrentTasks(w)
<1> USE Constants DEF LoopInv
<1>1. /\ queue'[w] = queue[w]
      /\ pc'[w] = pc[w] /\ step'[w] = step[w]
      /\ \A t \in Threads \ {v} : posting'[t] = posting[t]
  BY WorkerFrame
<1>2. running'[w] = running[w]
  BY RunningFrame
<1>3. posting'[v] # None => posting'[v].queue # w
  BY DEF Control, WorkerControl
<1>4. Posted(w, k)' => Posted(w, k)
  BY <1>1, <1>3 DEF Posted
<1>5. /\ Queued(w, k)' => Queued(w, k)
      /\ AtTask(w, k)' => AtTask(w, k)
      /\ AtNext(w, k)' => AtNext(w, k)
  BY <1>1, <1>2
  DEF Queued, AtTask, AtNext, At, NextTask, NewContextIndex
<1> QED
  BY <1>4, <1>5, TaskPlaces, TaskPlacesNext

(* A worker's step keeps its chain's current task, and issuing a read is   *)
(* what moves the chain on to its next task.                               *)
LEMMA OwnChain ==
  ASSUME LoopInv, LoopInv', process = "running", NEW w \in Workers, WorkerStep(w),
         NEW k, k \in CurrentTasks(w)'
  PROVE  \/ k \in CurrentTasks(w)
         \/ IssueNextRead(w) /\ k = NextTask(w)
<1> USE Constants
<1>0. \/ Queued(w, k)' \/ AtTask(w, k)' \/ AtNext(w, k)' \/ Posted(w, k)'
  BY TaskPlacesNext
<1> DEFINE Current == Queued(w, k) \/ AtTask(w, k) \/ AtNext(w, k) \/ Posted(w, k)
<1>1. CASE Loop(w)
  <2>1. CASE PopTask(w)
    <3>1. posting' = posting /\ step' = step /\ step[w] = "dequeue"
      BY <1>1, <2>1 DEF Loop, PopTask, Goto, LoopInv, Control, WorkerControl
    <3>2. Queued(w, k) \/ Posted(w, k)
      BY <1>0, <2>1, <3>1, PoppedTask DEF AtTask, AtNext, At, Posted
    <3> QED
      BY <3>2, TaskPlaces
  <2>2. CASE ~PopTask(w)
    <3>1. pc'[w] # "run" /\ UNCHANGED <<queue, posting>>
      BY <1>1, <2>2
      DEF Loop, LoopStep, EnterLoop, PopNothing, Decide, StartWait, WaitFails, EndWait,
          Goto, LoopInv, TypeInv, TypeOK, QueueTypeOK
    <3>2. Queued(w, k) \/ Posted(w, k)
      BY <1>0, <3>1 DEF AtTask, AtNext, At, Queued, Posted
    <3> QED
      BY <3>2, TaskPlaces
  <2> QED
    BY <2>1, <2>2
<1>2. CASE Dequeue(w)
  <2>1. UNCHANGED queueVars /\ step'[w] \in {"notify", "read"} /\ At(w, "dequeue")
    BY <1>2 DEF Dequeue, Enter, LoopInv, TypeInv, TypeOK
  <2>2. Current
    BY <1>0, <2>1 DEF queueVars, Queued, AtTask, AtNext, At, Posted
  <2> QED
    BY <2>2, TaskPlaces
<1>3. CASE IssueNextRead(w)
  <2>1. UNCHANGED queueVars /\ step'[w] = "post" /\ At(w, "read")
    BY <1>3 DEF IssueNextRead, Enter, LoopInv, TypeInv, TypeOK
  <2>2. CASE AtNext(w, k)'
    BY <1>3, <2>1, <2>2 DEF AtNext, NextTask, NewContextIndex, queueVars
  <2>3. CASE ~AtNext(w, k)'
    <3>1. Current
      BY <1>0, <2>1, <2>3 DEF queueVars, Queued, AtTask, At, Posted
    <3> QED
      BY <3>1, TaskPlaces
  <2> QED
    BY <2>2, <2>3
<1>4. CASE PostNextTask(w)
  <2>1. /\ At(w, "post")
        /\ UNCHANGED <<queue, pc, running>>
        /\ step'[w] \in {"return", "posting"}
        /\ \/ posting' = posting
           \/ posting' = [posting EXCEPT ![w] = [queue |-> w, task |-> NextTask(w)]]
    BY <1>4 DEF PostNextTask, Add, AddTaskCheck, Enter, LoopInv, TypeInv, TypeOK
  <2>2. Posted(w, k)' => Posted(w, k) \/ k = NextTask(w)
    BY <2>1 DEF Posted, LoopInv, TypeInv, TypeOK, QueueTypeOK
  <2>3. Current
    BY <1>0, <2>1, <2>2 DEF Queued, AtTask, AtNext, At
  <2> QED
    BY <2>3, TaskPlaces
<1>5. CASE NotifyMain(w)
  <2>1. /\ UNCHANGED <<queue, pc, running>>
        /\ step'[w] \in {"return", "posting"}
        /\ \/ posting' = posting
           \/ posting' = [posting EXCEPT ![w] = [queue |-> Main, task |-> Finished]]
    BY <1>5 DEF NotifyMain, Add, AddTaskCheck, Enter, LoopInv, TypeInv, TypeOK
  <2>2. Posted(w, k)' => Posted(w, k)
    <3> SUFFICES ASSUME NEW t \in Threads, posting'[t] # None, posting'[t].queue = w
                 PROVE  posting'[t] = posting[t]
      BY DEF Posted
    <3>1. posting \in [Threads -> [queue : Threads, task : Tasks] \cup {None}]
      BY DEF LoopInv, TypeInv, TypeOK, QueueTypeOK
    <3>2. t = w => posting' = posting
      <4>1. Main # w /\ w \in Threads
        OBVIOUS
      <4>2. [queue |-> Main, task |-> Finished].queue # w
        BY <4>1
      <4> QED
        BY <2>1, <3>1, <4>1, <4>2
    <3> QED
      BY <2>1, <3>1, <3>2
  <2>3. Current
    BY <1>0, <2>1, <2>2 DEF Queued, AtTask, AtNext, At
  <2> QED
    BY <2>3, TaskPlaces
<1>6. CASE FinishAdd(w)
  <2>1. /\ AddTaskOkay(w) \/ AddTaskCouldNotSetEvent(w)
        /\ posting' = [posting EXCEPT ![w] = None]
        /\ step'[w] = "return"
    BY <1>6
    DEF FinishAdd, AddTaskOkay, AddTaskCouldNotSetEvent, AddTaskPush, Enter,
        LoopInv, TypeInv, TypeOK
  <2>2. Posted(w, k)' => Posted(w, k)
    BY <2>1 DEF Posted, LoopInv, TypeInv, TypeOK, QueueTypeOK
  <2>3. Queued(w, k)' => Queued(w, k) \/ Posted(w, k)
    BY <2>1, PushedTask
  <2>4. Current
    BY <1>0, <2>1, <2>2, <2>3 DEF AtTask, AtNext, At
  <2> QED
    BY <2>4, TaskPlaces
<1>7. CASE Return(w)
  <2>1. UNCHANGED <<queue, posting>> /\ pc'[w] # "run"
    BY <1>7 DEF Return, RunReturns, Goto, LoopInv, TypeInv, TypeOK, QueueTypeOK
  <2>2. Current
    BY <1>0, <2>1 DEF Queued, AtTask, AtNext, At, Posted
  <2> QED
    BY <2>2, TaskPlaces
<1> QED
  BY <1>1, <1>2, <1>3, <1>4, <1>5, <1>6, <1>7 DEF WorkerStep

(* main's step keeps the current task of every chain, and posting its      *)
(* first task is what starts a chain.                                      *)
LEMMA MainChains ==
  ASSUME LoopInv, MainStep, NEW w \in Workers, NEW k, k \in CurrentTasks(w)'
  PROVE  \/ k \in CurrentTasks(w)
         \/ AddInitialTask /\ w = index /\ k = ReadTask(index, index * BufferSize)
<1> USE Constants
<1>0. \/ Queued(w, k)' \/ AtTask(w, k)' \/ AtNext(w, k)' \/ Posted(w, k)'
  BY TaskPlacesNext
<1> DEFINE Current == Queued(w, k) \/ AtTask(w, k) \/ AtNext(w, k) \/ Posted(w, k)
<1>1. pc'[w] = pc[w] /\ step'[w] = step[w]
  BY MainFrame DEF LoopInv
<1>2. running'[w] = running[w]
  BY RunningFrame DEF LoopInv
<1>3. /\ AtTask(w, k)' => AtTask(w, k)
      /\ AtNext(w, k)' => AtNext(w, k)
  BY <1>1, <1>2 DEF AtTask, AtNext, At, NextTask, NewContextIndex
<1>4. CASE AddInitialTask
  <2>1. /\ queue' = queue
        /\ \/ posting' = posting
           \/ posting' = [posting EXCEPT ![Main] =
                            [queue |-> index, task |-> ReadTask(index, index * BufferSize)]]
    BY <1>4 DEF AddInitialTask, AddTaskCheck
  <2>2. Posted(w, k)' => \/ Posted(w, k)
                         \/ w = index /\ k = ReadTask(index, index * BufferSize)
    BY <2>1 DEF Posted, LoopInv, TypeInv, TypeOK, QueueTypeOK
  <2>3. Current \/ (w = index /\ k = ReadTask(index, index * BufferSize))
    BY <1>0, <1>3, <2>1, <2>2 DEF Queued
  <2> QED
    BY <1>4, <2>3, TaskPlaces
<1>5. CASE InitialTaskAdded \/ InitialTaskNotAdded
  <2>1. /\ AddTaskOkay(Main) \/ AddTaskCouldNotSetEvent(Main)
        /\ posting' = [posting EXCEPT ![Main] = None]
    BY <1>5
    DEF InitialTaskAdded, InitialTaskNotAdded, AddTaskOkay, AddTaskCouldNotSetEvent,
        AddTaskPush
  <2>2. Posted(w, k)' => Posted(w, k)
    BY <2>1 DEF Posted, LoopInv, TypeInv, TypeOK, QueueTypeOK
  <2>3. Queued(w, k)' => Queued(w, k) \/ Posted(w, k)
    BY <2>1, PushedTask
  <2>4. Current
    BY <1>0, <1>3, <2>2, <2>3
  <2> QED
    BY <2>4, TaskPlaces
<1>6. CASE ~(AddInitialTask \/ InitialTaskAdded \/ InitialTaskNotAdded)
  <2>1. queue'[w] = queue[w] /\ posting' = posting
    BY <1>6
    DEF MainStep, NextPhase, IssueInitialRead, Loop, LoopStep, EnterLoop, PopTask,
        PopNothing, Decide, StartWait, WaitFails, EndWait, RunFinished, Shutdown,
        FinishShutdown, ShutdownSignals, Return, RunReturns, LeaveLoop, ShutdownWorker,
        Join, PrintResults, queueVars, LoopInv, TypeInv, TypeOK, QueueTypeOK
  <2>2. Current
    BY <1>0, <1>3, <2>1 DEF Queued, Posted
  <2> QED
    BY <2>2, TaskPlaces
<1> QED
  BY <1>4, <1>5, <1>6

-----------------------------------------------------------------------------
(* Offsets and contexts go together.                                       *)

(* The kernel's steps and stuttering leave the chains alone.               *)
LEMMA QuietChains ==
  ASSUME \/ UNCHANGED vars
         \/ \E r \in inflight : CompleteRead(r),
         NEW w
  PROVE  /\ CurrentTasks(w)' = CurrentTasks(w)
         /\ ExpectsPacket(w)' = ExpectsPacket(w)
         /\ UNCHANGED <<queueVars, step, index, requested, process>>
<1>1. UNCHANGED <<queueVars, step, index, requested, process>>
  BY DEF vars, ioVars, CompleteRead
<1>2. UNCHANGED <<queue, pc, running, posting>>
  BY <1>1 DEF queueVars
<1> QED
  BY <1>1, <1>2 DEF CurrentTasks, ExpectsPacket, At, NextTask, NewContextIndex

(* The next task of a chain has its context's offset if the task it is     *)
(* made from has.                                                          *)
LEMMA NextTaskOffset ==
  ASSUME LoopInv, NEW w \in Workers, pc[w] = "run",
         running[w].offset = running[w].ctx * BufferSize
  PROVE  NextTask(w).offset = NextTask(w).ctx * BufferSize
<1>1. running[w].ctx \in Nat
  BY NextTaskType DEF ReadTasks
<1>2. /\ NextTask(w).ctx = running[w].ctx + QueueDepth
      /\ NextTask(w).offset = running[w].offset + ReadInterval
  BY DEF NextTask, ReadTask, NewContextIndex
<1> QED
  BY <1>1, <1>2, NextOffset

(* Every step keeps the offsets. *)
LEMMA OffsetsStep ==
  ASSUME LoopInv, LoopInv', TaskOffsets, [Next]_vars
  PROVE  TaskOffsets'
<1> SUFFICES ASSUME NEW w \in Workers, NEW k \in CurrentTasks(w)'
             PROVE  k.offset = k.ctx * BufferSize
  BY DEF TaskOffsets
<1>1. CASE k \in CurrentTasks(w)
  BY <1>1 DEF TaskOffsets
<1>2. CASE k \notin CurrentTasks(w)
  <2>1. CASE process = "running" /\ MainStep
    <3>1. w = index /\ k = ReadTask(index, index * BufferSize)
      BY <1>2, <2>1, MainChains
    <3> QED
      BY <3>1 DEF ReadTask
  <2>2. CASE \E v \in Workers : process = "running" /\ WorkerStep(v)
    <3>1. PICK v \in Workers : process = "running" /\ WorkerStep(v)
      BY <2>2
    <3>2. v = w
      BY <1>2, <3>1, OtherChains
    <3>3. IssueNextRead(w) /\ k = NextTask(w)
      BY <1>2, <3>1, <3>2, OwnChain
    <3>4. At(w, "read")
      BY <3>3 DEF IssueNextRead
    <3>5. running[w] \in CurrentTasks(w)
      BY <3>4 DEF CurrentTasks
    <3>6. running[w].offset = running[w].ctx * BufferSize
      BY <3>5 DEF TaskOffsets
    <3> QED
      BY <3>3, <3>4, <3>6, NextTaskOffset DEF At
  <2>3. CASE UNCHANGED vars \/ \E r \in inflight : CompleteRead(r)
    BY <1>2, <2>3, QuietChains
  <2> QED
    BY <2>1, <2>2, <2>3 DEF Next
<1> QED
  BY <1>1, <1>2

(* At first there is no task. *)
LEMMA NoTasksYet ==
  ASSUME Init, NEW w \in Workers
  PROVE  CurrentTasks(w) = {}
<1> USE Constants DEF Init, QueueInit
<1>1. queue[w] = <<>> /\ pc[w] = "idle" /\ \A t \in Threads : posting[t] = None
  OBVIOUS
<1> QED
  BY <1>1 DEF CurrentTasks, At

(* Every step keeps workers about to read inside the file. *)
LEMMA InsideStep ==
  ASSUME LoopInv, LoopInv', ReadsInside, [Next]_vars
  PROVE  ReadsInside'
<1> SUFFICES ASSUME NEW w \in Workers, At(w, "read")'
             PROVE  ~PastEnd(running'[w].offset)
  BY DEF ReadsInside, PastEnd
<1>1. CASE Dequeue(w) /\ process = "running"
  <2>1. running' = running /\ ~PastEnd(running[w].offset)
    BY <1>1, Constants
    DEF Dequeue, Enter, At, queueVars, LoopInv, TypeInv, TypeOK, WorkerSteps
  <2> QED
    BY <2>1
<1>2. CASE ~(Dequeue(w) /\ process = "running")
  <2>1. At(w, "read") /\ running'[w] = running[w]
    <3>1. CASE process = "running" /\ MainStep
      <4>1. pc'[w] = pc[w] /\ step'[w] = step[w]
        BY <3>1, MainFrame DEF LoopInv
      <4>2. running'[w] = running[w]
        BY <3>1, RunningFrame DEF LoopInv
      <4> QED
        BY <4>1, <4>2 DEF At
    <3>2. ASSUME process = "running", WorkerStep(w)
          PROVE  At(w, "read") /\ running'[w] = running[w]
      <4>1. step'[w] = "read" /\ pc'[w] = "run"
        BY DEF At
      <4>2. CASE Loop(w)
        <5>1. step[w] = "read" /\ pc[w] = "run"
          BY <4>1, <4>2 DEF Loop, LoopInv, Control, WorkerControl
        <5> QED
          BY <4>2, <5>1
          DEF Loop, LoopStep, EnterLoop, PopTask, PopNothing, Decide, StartWait,
              WaitFails, EndWait, Goto
      <4>3. CASE ~Loop(w)
        <5>1. step'[w] # "read"
          <6> USE Constants DEF LoopInv, TypeInv, TypeOK, Enter
          <6>1. CASE IssueNextRead(w)
            BY <6>1 DEF IssueNextRead
          <6>2. CASE PostNextTask(w) \/ NotifyMain(w)
            BY <6>2 DEF PostNextTask, NotifyMain, Add
          <6>3. CASE FinishAdd(w)
            BY <6>3 DEF FinishAdd
          <6>4. CASE Return(w)
            BY <6>4 DEF Return
          <6> QED
            BY <1>2, <3>2, <4>3, <6>1, <6>2, <6>3, <6>4 DEF WorkerStep
        <5> QED
          BY <4>1, <5>1
      <4> QED
        BY <4>2, <4>3
    <3>3. ASSUME process = "running", NEW v \in Workers \ {w}, WorkerStep(v)
          PROVE  At(w, "read") /\ running'[w] = running[w]
      <4>1. pc'[w] = pc[w] /\ step'[w] = step[w]
        BY <3>3, WorkerFrame, Constants DEF LoopInv
      <4>2. running'[w] = running[w]
        BY <3>3, RunningFrame DEF LoopInv
      <4> QED
        BY <4>1, <4>2 DEF At
    <3>4. CASE UNCHANGED vars \/ \E r \in inflight : CompleteRead(r)
      BY <3>4 DEF At, vars, queueVars, CompleteRead
    <3> QED
      BY <3>1, <3>2, <3>3, <3>4 DEF Next
  <2> QED
    BY <2>1 DEF ReadsInside
<1> QED
  BY <1>1, <1>2

(* Every task's offset is that of its context, and no read is issued from  *)
(* beyond the end.                                                         *)
LEMMA OffsetsInvariance == Spec => [](IndInv /\ TaskOffsets /\ ReadsInside)
<1>1. Init => TaskOffsets /\ ReadsInside
  <2> SUFFICES ASSUME Init
               PROVE  TaskOffsets /\ ReadsInside
    OBVIOUS
  <2>1. \A w \in Workers : ~At(w, "read")
    BY Constants DEF Init, QueueInit, At
  <2> QED
    BY <2>1, NoTasksYet DEF TaskOffsets, ReadsInside
<1>2. IndInv /\ IndInv' /\ TaskOffsets /\ ReadsInside /\ [Next]_vars
        => TaskOffsets' /\ ReadsInside'
  <2>1. IndInv' => LoopInv'
    BY DEF IndInv, LoopInv, TypeInv, Control
  <2> QED
    BY <2>1, IndInvParts, OffsetsStep, InsideStep
<1> QED
  BY <1>1, <1>2, Invariance, PTL DEF Spec

(* With a last buffer that is not full, "not past the end" means that the  *)
(* next context of the chain exists.                                       *)
LEMMA FileLeft ==
  ASSUME LoopInv, TaskOffsets, ReadsInside, FileSize % BufferSize # 0,
         NEW w \in Workers, At(w, "read")
  PROVE  /\ running[w].offset + ReadInterval < FileSize
         /\ NewContextIndex(w) \in Contexts
<1> DEFINE c == NewContextIndex(w)
           n == FileSize
           b == BufferSize
<1>1. running[w] \in CurrentTasks(w)
  BY DEF CurrentTasks
<1>2. running[w].ctx \in Nat /\ running[w].offset = running[w].ctx * BufferSize
  BY <1>1, CurrentTaskType DEF TaskOffsets
<1>3. c \in Nat /\ c * b = running[w].offset + ReadInterval
  <2>1. c \in Nat
    BY <1>2, SizesAssumption DEF NewContextIndex
  <2>2. (running[w].ctx + QueueDepth) * BufferSize = running[w].ctx * BufferSize + ReadInterval
    BY <1>2, NextOffset
  <2> QED
    BY <1>2, <2>1, <2>2 DEF NewContextIndex
<1>4. c * b <= n
  <2>1. ~(running[w].offset + ReadInterval > FileSize)
    BY DEF ReadsInside, PastEnd
  <2>2. b \in Nat /\ n \in Nat
    BY SizesAssumption
  <2> QED
    BY <1>3, <2>1, <2>2
<1>5. c * b # n
  <2> SUFFICES ASSUME c * b = n
               PROVE  FALSE
    OBVIOUS
  <2> DEFINE d == n \div b   r == n % b
  <2>1. b \in Nat \ {0} /\ n \in Nat
    BY SizesAssumption
  <2>2. d \in Nat /\ r \in 0 .. b - 1 /\ r = n - b * d
    BY <2>1, Division
  <2>3. r # 0
    OBVIOUS
  <2> HIDE DEF d, r, c, n, b
  <2>4. b * d + r = b * c + 0
    BY <1>3, <2>1, <2>2
  <2>5. 0 \in 0 .. b - 1
    BY <2>1
  <2>6. r = 0
    BY <1>3, <2>1, <2>2, <2>4, <2>5, OneQuotient
  <2> QED
    BY <2>3, <2>6
<1>6. c * b < n
  <2>1. b \in Nat /\ n \in Nat
    BY SizesAssumption
  <2> HIDE DEF c, b, n
  <2> QED
    BY <1>3, <1>4, <1>5, <2>1
<1>7. c \in Contexts
  BY <1>3, <1>6, ContextStart
<1> QED
  BY <1>3, <1>6, <1>7

(* When the last buffer is not full, a follow-up read is issued only       *)
(* "because we have more file left".                                       *)
THEOREM FollowUpsHaveFileLeft ==
  ASSUME FileSize % BufferSize # 0
  PROVE  Spec => []FollowUpHasFileLeft
<1>1. IndInv /\ TaskOffsets /\ ReadsInside => FollowUpHasFileLeft
  BY IndInvParts, FileLeft DEF FollowUpHasFileLeft
<1> QED
  BY <1>1, OffsetsInvariance, PTL

(* When besides the file has as many buffers as main starts with, or more, *)
(* Read is never called for a context that does not exist.                 *)
THEOREM ReadsStayInBounds ==
  ASSUME FileSize % BufferSize # 0, QueueDepth <= ContextCount
  PROVE  Spec => []ReadsInBounds
<1>1. Init => ReadsInBounds
  BY DEF Init, ReadsInBounds
<1>2. IndInv /\ TaskOffsets /\ ReadsInside /\ ReadsInBounds /\ [Next]_vars
        => ReadsInBounds'
  <2> SUFFICES ASSUME LoopInv, TaskOffsets, ReadsInside, ReadsInBounds, [Next]_vars
               PROVE  requested' \subseteq Contexts
    BY IndInvParts DEF ReadsInBounds
  <2>1. CASE \E w \in Workers : IssueNextRead(w)
    <3>1. PICK w \in Workers : IssueNextRead(w)
      BY <2>1
    <3>2. requested' = requested \cup {NewContextIndex(w)} /\ At(w, "read")
      BY <3>1 DEF IssueNextRead, Read
    <3> QED
      BY <3>2, FileLeft DEF ReadsInBounds
  <2>2. CASE IssueInitialRead
    <3>1. requested' = requested \cup {index} /\ index < QueueDepth /\ index \in Nat
      BY <2>2 DEF IssueInitialRead, Read, LoopInv, TypeInv, TypeOK
    <3>2. ContextCount \in Int /\ QueueDepth \in Nat
      BY SizesAssumption DEF ContextCount
    <3>3. index \in Contexts
      <4> HIDE DEF ContextCount
      <4> QED
        BY <3>1, <3>2 DEF Contexts
    <3> QED
      BY <3>1, <3>3 DEF ReadsInBounds
  <2>3. CASE ~(IssueInitialRead \/ \E w \in Workers : IssueNextRead(w))
    <3>1. requested' = requested
      <4>1. CASE MainStep
        BY <2>3, <4>1
        DEF MainStep, AddInitialTask, InitialTaskAdded, InitialTaskNotAdded, NextPhase,
            Loop, RunFinished, FinishShutdown, Return, LeaveLoop, ShutdownWorker, Join,
            PrintResults, ioVars
      <4>2. CASE \E w \in Workers : WorkerStep(w)
        BY <2>3, <4>2
        DEF WorkerStep, Loop, Dequeue, PostNextTask, NotifyMain, Add, FinishAdd, Return,
            ioVars
      <4>3. CASE UNCHANGED vars \/ \E r \in inflight : CompleteRead(r)
        BY <4>3 DEF vars, ioVars, CompleteRead
      <4> QED
        BY <4>1, <4>2, <4>3 DEF Next
    <3> QED
      BY <3>1 DEF ReadsInBounds
  <2> QED
    BY <2>1, <2>2, <2>3
<1> QED
  BY <1>1, <1>2, OffsetsInvariance, PTL DEF Spec

-----------------------------------------------------------------------------
(* What the chains have read, with as many initial reads as there are      *)
(* threads or more.                                                        *)

EnoughReadsIssued == QueueDepth \in Nat \ {0} /\ ThreadCount <= QueueDepth

(* Chain w has read the contexts up to that of its task k. *)
TaskReads(w, k) ==
  /\ InChain(w, k.ctx)
  /\ \A c \in requested : InChain(w, c) => c <= k.ctx
  /\ \A c \in 0 .. k.ctx : InChain(w, c) => c \in requested \cup Unissued

(* Chain w has read all it has of the file. *)
AllRead(w) == \A c \in Contexts : InChain(w, c) => c \in requested \cup Unissued

(* Chain w, over or not. *)
ChainRead(w) ==
  /\ \A k \in CurrentTasks(w) : TaskReads(w, k)
  /\ ~ExpectsPacket(w) => AllRead(w)

(* main's initial reads come after its initial tasks. *)
NothingReadYet ==
  step[Main] = "addTasks" =>
    requested = {} /\ inflight = {} /\ port = {} /\ Reissuing = {}

(* ChainReads by these names. *)
LEMMA ChainParts ==
  ChainReads <=> /\ requested \cap Unissued = {}
                 /\ NothingReadYet
                 /\ \A w \in Workers : ChainRead(w)
  BY DEF ChainReads, ChainRead, TaskReads, AllRead, NothingReadYet

(* The initial reads that main still has to issue. *)
LEMMA UnissuedMain ==
  ASSUME LoopInv, process = "running", MainStep
  PROVE  Unissued' = IF IssueInitialRead THEN Unissued \ {index} ELSE Unissued
<1> USE SizesAssumption, Constants DEF LoopInv, TypeInv, TypeOK, QueueTypeOK, Control
<1>1. CASE IssueInitialRead
  BY <1>1 DEF IssueInitialRead, Unissued
<1>2. CASE NextPhase("addTasks", ThreadCount, "issue")
  BY <1>2 DEF NextPhase, Enter, Unissued, IssueInitialRead
<1>3. CASE NextPhase("issue", QueueDepth, "loop")
  BY <1>3 DEF NextPhase, Enter, Unissued, IssueInitialRead
<1>4. CASE AddInitialTask \/ InitialTaskAdded \/ InitialTaskNotAdded \/ FinishShutdown
  BY <1>4
  DEF AddInitialTask, InitialTaskAdded, InitialTaskNotAdded, FinishShutdown, Unissued,
      IssueInitialRead
<1>5. ASSUME step[Main] \notin {"addTasks", "issue"}
      PROVE  step'[Main] \notin {"addTasks", "issue"}
  BY <1>5
  DEF MainStep, AddInitialTask, InitialTaskAdded, InitialTaskNotAdded, NextPhase,
      IssueInitialRead, Loop, RunFinished, FinishShutdown, Return, LeaveLoop,
      ShutdownWorker, Join, PrintResults, Enter
<1>6. CASE step[Main] \notin {"addTasks", "issue"}
  BY <1>5, <1>6 DEF Unissued, IssueInitialRead
<1>7. CASE step[Main] \in {"addTasks", "issue"}
  <2>1. pc[Main] = "idle"
    BY <1>7 DEF MainControl
  <2>2. \/ AddInitialTask \/ InitialTaskAdded \/ InitialTaskNotAdded
        \/ NextPhase("addTasks", ThreadCount, "issue")
        \/ IssueInitialRead
        \/ NextPhase("issue", QueueDepth, "loop")
        \/ FinishShutdown
    BY <1>7
    DEF MainStep, NextPhase, Loop, RunFinished, Return, LeaveLoop, ShutdownWorker,
        Join, PrintResults, At
  <2> QED
    BY <1>1, <1>2, <1>3, <1>4, <2>2
<1> QED
  BY <1>6, <1>7

(* main never goes back to its initial tasks. *)
LEMMA InitialTasksOnce ==
  ASSUME LoopInv, [Next]_vars, step'[Main] = "addTasks"
  PROVE  step[Main] = "addTasks"
<1> USE Constants DEF LoopInv, TypeInv, TypeOK
<1>1. CASE process = "running" /\ MainStep
  BY <1>1
  DEF MainStep, AddInitialTask, InitialTaskAdded, InitialTaskNotAdded, NextPhase,
      IssueInitialRead, Loop, RunFinished, FinishShutdown, Return, LeaveLoop,
      ShutdownWorker, Join, PrintResults, Enter
<1>2. ASSUME process = "running", NEW w \in Workers, WorkerStep(w)
      PROVE  step[Main] = "addTasks"
  BY <1>2, WorkerFrame
<1>3. CASE UNCHANGED vars \/ \E r \in inflight : CompleteRead(r)
  BY <1>3, QuietChains
<1> QED
  BY <1>1, <1>2, <1>3 DEF Next

(* Only two steps request a read; two more move its packet.                *)
LEMMA IoFrame ==
  ASSUME [Next]_vars, ~IssueInitialRead,
         \A w \in Workers : ~IssueNextRead(w) /\ ~Dequeue(w),
         \A r \in inflight : ~CompleteRead(r)
  PROVE  UNCHANGED <<inflight, port, requested, isComplete>>
<1>1. CASE MainStep
  BY <1>1
  DEF MainStep, AddInitialTask, InitialTaskAdded, InitialTaskNotAdded, NextPhase,
      Loop, RunFinished, FinishShutdown, Return, LeaveLoop, ShutdownWorker, Join,
      PrintResults, ioVars
<1>2. CASE \E w \in Workers : WorkerStep(w)
  BY <1>2 DEF WorkerStep, Loop, PostNextTask, NotifyMain, Add, FinishAdd, Return, ioVars
<1>3. CASE UNCHANGED vars
  BY <1>3 DEF vars, ioVars
<1> QED
  BY <1>1, <1>2, <1>3 DEF Next

(* A step that requests no read and ends no chain keeps what a chain has   *)
(* read, as far as its tasks are not new.                                  *)
LEMMA ChainKept ==
  ASSUME NEW w \in Workers, ChainRead(w), UNCHANGED requested, Unissued' = Unissued,
         \A k \in CurrentTasks(w)' : k \in CurrentTasks(w) \/ TaskReads(w, k),
         ExpectsPacket(w) => ExpectsPacket(w)' \/ AllRead(w)
  PROVE  ChainRead(w)'
<1>1. AllRead(w)' <=> AllRead(w)
  BY DEF AllRead, InChain
<1>2. \A k : TaskReads(w, k)' <=> TaskReads(w, k)
  BY DEF TaskReads, InChain
<1> QED
  BY <1>1, <1>2 DEF ChainRead

(* An initial read is the first of its chain, which has covered it.        *)
LEMMA ChainsInitialRead ==
  ASSUME LoopInv, LoopInv', process = "running", IssueInitialRead,
         process' # "terminated", EnoughReadsIssued, ChainReads
  PROVE  index \notin requested /\ ChainReads'
<1> USE SizesAssumption DEF EnoughReadsIssued
<1>1. /\ step[Main] = "issue" /\ step' = step /\ index \in 0 .. QueueDepth - 1
      /\ requested' = requested \cup {index}
      /\ UNCHANGED queueVars
  BY DEF IssueInitialRead, Read, LoopInv, TypeInv, TypeOK
<1>2. index \in Unissued /\ Unissued' = Unissued \ {index}
  BY <1>1, UnissuedMain DEF MainStep, Unissued
<1>3. index \notin requested
  BY <1>2, ChainParts
<1>4. requested' \cap Unissued' = {} /\ requested' \cup Unissued' = requested \cup Unissued
  BY <1>1, <1>2, ChainParts
<1>5. NothingReadYet'
  BY <1>1 DEF NothingReadYet
<1>6. ASSUME NEW w \in Workers
      PROVE  ChainRead(w)'
  <2>1. ChainRead(w)
    BY ChainParts
  <2>2. CurrentTasks(w)' = CurrentTasks(w) /\ ExpectsPacket(w)' = ExpectsPacket(w)
    BY <1>1
    DEF CurrentTasks, ExpectsPacket, At, NextTask, NewContextIndex, queueVars
  <2>3. ASSUME NEW k \in CurrentTasks(w)
        PROVE  TaskReads(w, k)'
    <3>1. TaskReads(w, k) /\ k.ctx \in Nat
      BY <2>1, CurrentTaskType DEF ChainRead
    <3>2. InChain(w, index) => index <= k.ctx
      <4> SUFFICES ASSUME InChain(w, index)
                   PROVE  index <= k.ctx
        OBVIOUS
      <4>1. w = index
        BY <1>1, FirstInChain DEF InChain
      <4> DEFINE c == k.ctx   d == c \div QueueDepth   r == c % QueueDepth
      <4>2. d \in Nat /\ r \in 0 .. QueueDepth - 1 /\ r = c - QueueDepth * d
        BY <3>1, Division
      <4>3. r = index
        BY <3>1, <4>1 DEF TaskReads, InChain
      <4> HIDE DEF d, r, c
      <4>4. QueueDepth * d >= 0
        BY <4>2
      <4>5. index <= c
        BY <1>1, <3>1, <4>2, <4>3, <4>4 DEF c
      <4> QED
        BY <4>5 DEF c
    <3>3. \A c \in requested' : InChain(w, c) => c <= k.ctx
      BY <1>1, <3>1, <3>2 DEF TaskReads
    <3>4. \A c \in 0 .. k.ctx : InChain(w, c) => c \in requested' \cup Unissued'
      BY <1>4, <3>1 DEF TaskReads
    <3> QED
      BY <3>1, <3>3, <3>4 DEF TaskReads, InChain
  <2>4. AllRead(w)' <=> AllRead(w)
    BY <1>4 DEF AllRead, InChain
  <2> QED
    BY <2>1, <2>2, <2>3, <2>4 DEF ChainRead
<1>7. ChainReads' <=> /\ requested' \cap Unissued' = {}
                      /\ NothingReadYet'
                      /\ \A w \in Workers : ChainRead(w)'
  BY DEF ChainReads, ChainRead, TaskReads, AllRead, NothingReadYet
<1> QED
  BY <1>3, <1>4, <1>5, <1>6, <1>7

(* After a worker's read the chain's only task is the one to be posted.    *)
LEMMA OnlyNextTask ==
  ASSUME LoopInv, LoopInv', process = "running", process' # "terminated",
         NEW v \in Workers, IssueNextRead(v), NEW k \in CurrentTasks(v)'
  PROVE  k = NextTask(v)
<1> USE Constants
<1>1. /\ At(v, "read") /\ UNCHANGED queueVars /\ step'[v] = "post"
      /\ UNCHANGED <<queue, pc, running, posting, index>>
  BY DEF IssueNextRead, Enter, queueVars, LoopInv, TypeInv, TypeOK
<1>2. queue[v] = <<>>
  BY <1>1 DEF LoopInv, OneTaskPerChain, At
<1>3. \A t \in Threads : posting[t] # None => posting[t].queue # v
  <2> SUFFICES ASSUME NEW t \in Threads, posting[t] # None, posting[t].queue = v
               PROVE  FALSE
    OBVIOUS
  <2>1. CASE t = Main
    <3>1. step[Main] = "addTasks" /\ v = index
      BY <2>1 DEF LoopInv, Control, MainControl
    <3>2. pc[v] # "run"
      BY <3>1 DEF LoopInv, TypeInv, TypeOK, OneTaskPerChain
    <3> QED
      BY <1>1, <3>2 DEF At
  <2>2. CASE t \in Workers
    <3>1. t = v
      BY <2>2 DEF LoopInv, Control, WorkerControl
    <3>2. step[v] = "posting"
      BY <3>1 DEF LoopInv, Control, WorkerControl
    <3> QED
      BY <1>1, <3>2 DEF At
  <2> QED
    BY <2>1, <2>2
<1>4. ~Queued(v, k)' /\ ~AtTask(v, k)' /\ ~Posted(v, k)'
  BY <1>1, <1>2, <1>3 DEF Queued, AtTask, Posted, At
<1>5. AtNext(v, k)'
  BY <1>4, TaskPlacesNext
<1> QED
  BY <1>1, <1>5 DEF AtNext, NextTask, NewContextIndex

(* A chain's next read is of a context nobody has read, and the chain has  *)
(* covered the contexts up to it.                                          *)
LEMMA ChainsNextRead ==
  ASSUME LoopInv, LoopInv', process = "running", process' # "terminated",
         EnoughReadsIssued, ChainReads, NEW v \in Workers, IssueNextRead(v)
  PROVE  NewContextIndex(v) \notin requested /\ ChainReads'
<1> USE Constants DEF EnoughReadsIssued
<1> DEFINE old == running[v]   n == NewContextIndex(v)
<1>0. WorkerStep(v)
  BY DEF WorkerStep
<1>1. /\ At(v, "read") /\ UNCHANGED <<queueVars, index>>
      /\ step' = [step EXCEPT ![v] = "post"]
      /\ requested' = requested \cup {n}
  BY DEF IssueNextRead, Enter, Read
<1>2. old \in CurrentTasks(v)
  BY <1>1 DEF CurrentTasks
<1>3. /\ old.ctx \in Nat
      /\ n = old.ctx + QueueDepth
      /\ TaskReads(v, old)
  BY <1>2, CurrentTaskType, ChainParts DEF NewContextIndex, ChainRead
<1> HIDE DEF old, n
<1>4. n \in Nat /\ n > old.ctx /\ n >= QueueDepth
  BY <1>3
<1>5. InChain(v, n)
  BY <1>3, NextInChain DEF TaskReads, InChain
<1>6. n \notin requested
  BY <1>3, <1>4, <1>5 DEF TaskReads
<1>7. step'[Main] = step[Main] /\ Unissued' = Unissued /\ n \notin Unissued
  <2>1. step'[Main] = step[Main]
    BY <1>1 DEF LoopInv, TypeInv, TypeOK
  <2>2. Unissued' = Unissued
    BY <1>1, <2>1 DEF Unissued
  <2>3. n \notin Unissued
    BY <1>4 DEF Unissued
  <2> QED
    BY <2>1, <2>2, <2>3
<1>8. requested' \cap Unissued' = {}
  BY <1>1, <1>7, ChainParts
<1>9. NothingReadYet'
  <2>1. v \in Reissuing
    BY <1>1 DEF Reissuing
  <2>2. step[Main] # "addTasks"
    BY <2>1, ChainParts DEF NothingReadYet
  <2> QED
    BY <1>7, <2>2 DEF NothingReadYet
<1>10. ASSUME NEW w \in Workers \ {v}
       PROVE  ChainRead(w)'
  <2>1. ChainRead(w) /\ ~InChain(w, n)
    BY <1>5, ChainParts DEF InChain
  <2>2. ExpectsPacket(w) => ExpectsPacket(w)'
    BY <1>0, WorkerExpecting
  <2>3. AllRead(w) => AllRead(w)'
    BY <1>1, <1>7 DEF AllRead, InChain
  <2>4. ASSUME NEW k \in CurrentTasks(w)'
        PROVE  TaskReads(w, k)'
    <3>1. TaskReads(w, k)
      BY <1>0, <2>1, OtherChains DEF ChainRead
    <3>2. \A c \in requested' : InChain(w, c) => c <= k.ctx
      BY <1>1, <2>1, <3>1 DEF TaskReads
    <3>3. \A c \in 0 .. k.ctx : InChain(w, c) => c \in requested' \cup Unissued'
      BY <1>1, <1>7, <3>1 DEF TaskReads
    <3> QED
      BY <3>1, <3>2, <3>3 DEF TaskReads, InChain
  <2> QED
    BY <2>1, <2>2, <2>3, <2>4 DEF ChainRead
<1>11. ChainRead(v)'
  <2>1. ExpectsPacket(v)'
    BY <1>1 DEF ExpectsPacket, At, queueVars, LoopInv, TypeInv, TypeOK
  <2>2. ASSUME NEW k \in CurrentTasks(v)'
        PROVE  TaskReads(v, k)'
    <3>1. k.ctx = n
      BY OnlyNextTask DEF NextTask, ReadTask, n
    <3>2. \A c \in requested' : InChain(v, c) => c <= n
      <4> SUFFICES ASSUME NEW c \in requested, InChain(v, c)
                   PROVE  c <= n
        BY <1>1, <1>4
      <4>1. c <= old.ctx /\ c \in Nat
        BY <1>3 DEF TaskReads, LoopInv, TypeInv, TypeOK
      <4> QED
        BY <1>3, <1>4, <4>1
    <3>3. ASSUME NEW c \in 0 .. n, InChain(v, c)
          PROVE  c \in requested' \cup Unissued'
      <4>1. CASE c <= old.ctx
        <5>1. c \in requested \cup Unissued
          BY <1>3, <1>4, <3>3, <4>1 DEF TaskReads
        <5> QED
          BY <1>1, <1>7, <5>1
      <4>2. CASE c > old.ctx
        <5>1. c \in Nat /\ old.ctx % QueueDepth = c % QueueDepth
          BY <1>3, <1>4, <3>3 DEF TaskReads, InChain
        <5>2. old.ctx + QueueDepth <= c
          BY <1>3, <4>2, <5>1, ChainGap
        <5>3. c = n
          BY <1>3, <1>4, <5>1, <5>2
        <5> QED
          BY <1>1, <5>3
      <4> QED
        BY <1>3, <1>4, <4>1, <4>2
    <3>4. InChain(v, k.ctx)'
      BY <1>5, <3>1 DEF InChain
    <3> QED
      BY <3>1, <3>2, <3>3, <3>4 DEF TaskReads, InChain
  <2> QED
    BY <2>1, <2>2 DEF ChainRead
<1>12. ChainReads' <=> /\ requested' \cap Unissued' = {}
                       /\ NothingReadYet'
                       /\ \A w \in Workers : ChainRead(w)'
  BY DEF ChainReads, ChainRead, TaskReads, AllRead, NothingReadYet
<1> QED
  BY <1>6, <1>8, <1>9, <1>10, <1>11, <1>12 DEF n

(* A chain that is past the end has covered all it has of the file. *)
LEMMA ChainEnds ==
  ASSUME LoopInv, TaskOffsets, EnoughReadsIssued, ChainReads,
         NEW v \in Workers, At(v, "dequeue"), PastEnd(running[v].offset)
  PROVE  AllRead(v)
<1> SUFFICES ASSUME NEW c \in Contexts, InChain(v, c)
             PROVE  c \in requested \cup Unissued
  BY DEF AllRead
<1> DEFINE k == running[v]
<1>1. k \in CurrentTasks(v)
  BY DEF CurrentTasks
<1>2. /\ k.ctx \in Nat /\ k.offset = k.ctx * BufferSize
      /\ TaskReads(v, k)
  BY <1>1, CurrentTaskType, ChainParts DEF TaskOffsets, ChainRead
<1>3. c \in Nat /\ c * BufferSize < FileSize
  BY ContextStart, SizesAssumption DEF Contexts
<1>4. k.offset + ReadInterval > FileSize
  BY DEF PastEnd
<1> HIDE DEF k
<1>5. (k.ctx + QueueDepth) * BufferSize > FileSize
  BY <1>2, <1>4, NextOffset
<1>6. c <= k.ctx
  <2> SUFFICES ASSUME c > k.ctx
               PROVE  FALSE
    BY <1>2, <1>3
  <2>1. k.ctx + QueueDepth <= c
    BY <1>2, <1>3, ChainGap DEF TaskReads, InChain, EnoughReadsIssued
  <2> DEFINE d == c - (k.ctx + QueueDepth)   b == BufferSize   e == k.ctx + QueueDepth
  <2>2. d \in Nat /\ b \in Nat /\ e \in Nat /\ c = e + d /\ FileSize \in Nat
    BY <1>2, <1>3, <2>1, SizesAssumption
  <2>3. e * b > FileSize /\ c * b < FileSize
    BY <1>3, <1>5
  <2> HIDE DEF d, b, e
  <2>4. c * b = e * b + d * b /\ d * b >= 0
    BY <2>2
  <2> QED
    BY <2>2, <2>3, <2>4
<1> QED
  BY <1>2, <1>3, <1>6 DEF TaskReads

(* A chain starts with its first context, which is still to be issued.     *)
LEMMA ChainStarts ==
  ASSUME LoopInv, EnoughReadsIssued, ChainReads, AddInitialTask
  PROVE  TaskReads(index, ReadTask(index, index * BufferSize))
<1>1. /\ step[Main] = "addTasks" /\ index \in 0 .. QueueDepth - 1
      /\ requested = {}
  BY ChainParts, SizesAssumption
  DEF AddInitialTask, LoopInv, TypeInv, TypeOK, EnoughReadsIssued, NothingReadYet
<1>2. InChain(index, index)
  BY <1>1, FirstInChain DEF EnoughReadsIssued, InChain
<1>3. 0 .. index \subseteq Unissued
  BY <1>1 DEF Unissued, EnoughReadsIssued
<1> QED
  BY <1>1, <1>2, <1>3 DEF TaskReads, ReadTask

(* Steps that request nothing. *)
LEMMA ChainsQuiet ==
  ASSUME IndInv, IndInv', TaskOffsets, EnoughReadsIssued, ChainReads, [Next]_vars,
         process # "terminated", process' # "terminated",
         ~IssueInitialRead, \A w \in Workers : ~IssueNextRead(w)
  PROVE  ChainReads'
<1> USE Constants
<1>0. LoopInv /\ LoopInv'
  BY IndInvParts DEF IndInv, LoopInv, TypeInv, Control
<1>1. requested' = requested
  BY IoFrame DEF Dequeue, CompleteRead
<1>2. Unissued' = Unissued
  <2>1. CASE process = "running" /\ MainStep
    BY <1>0, <2>1, UnissuedMain
  <2>2. ASSUME process = "running", NEW v \in Workers, WorkerStep(v)
        PROVE  Unissued' = Unissued
    BY <1>0, <2>2, WorkerFrame DEF LoopInv, Unissued
  <2>3. CASE UNCHANGED vars \/ \E r \in inflight : CompleteRead(r)
    BY <2>3, QuietChains DEF Unissued
  <2> QED
    BY <2>1, <2>2, <2>3 DEF Next
<1>3. ASSUME NEW w \in Workers
      PROVE  /\ \A k \in CurrentTasks(w)' : k \in CurrentTasks(w) \/ TaskReads(w, k)
             /\ ExpectsPacket(w) => ExpectsPacket(w)' \/ AllRead(w)
  <2>1. CASE process = "running" /\ MainStep
    <3>1. \A k \in CurrentTasks(w)' : k \in CurrentTasks(w) \/ TaskReads(w, k)
      BY <1>0, <2>1, MainChains, ChainStarts
    <3>2. ExpectsPacket(w) => ExpectsPacket(w)'
      BY <1>0, <2>1, MainExpecting
    <3> QED
      BY <3>1, <3>2
  <2>2. ASSUME process = "running", NEW v \in Workers, WorkerStep(v)
        PROVE  /\ \A k \in CurrentTasks(w)' : k \in CurrentTasks(w)
               /\ ExpectsPacket(w) => ExpectsPacket(w)' \/ AllRead(w)
    <3>1. \A k \in CurrentTasks(w)' : k \in CurrentTasks(w)
      <4>1. CASE w = v
        BY <1>0, <2>2, <4>1, OwnChain
      <4>2. CASE w # v
        BY <1>0, <2>2, <4>2, OtherChains
      <4> QED
        BY <4>1, <4>2
    <3>2. CASE w # v \/ ~Dequeue(v)
      BY <1>0, <2>2, <3>1, <3>2, WorkerExpecting
    <3>3. CASE w = v /\ Dequeue(v)
      <4>1. CASE PastEnd(running[v].offset)
        <5>1. At(v, "dequeue")
          BY <3>3 DEF Dequeue
        <5>2. AllRead(v)
          BY <1>0, <4>1, <5>1, ChainEnds
        <5> QED
          BY <3>1, <3>3, <5>2
      <4>2. CASE ~PastEnd(running[v].offset)
        <5>1. step'[v] = "read"
          BY <1>0, <3>3, <4>2 DEF Dequeue, Enter, LoopInv, TypeInv, TypeOK
        <5> QED
          BY <1>0, <2>2, <3>1, <3>3, <5>1, WorkerExpecting
      <4> QED
        BY <4>1, <4>2
    <3> QED
      BY <3>2, <3>3
  <2>3. CASE UNCHANGED vars \/ \E r \in inflight : CompleteRead(r)
    BY <2>3, QuietChains
  <2> QED
    BY <2>1, <2>2, <2>3 DEF Next
<1>4. \A w \in Workers : ChainRead(w)'
  BY <1>1, <1>2, <1>3, ChainKept, ChainParts
<1>5. NothingReadYet'
  <2> SUFFICES ASSUME step'[Main] = "addTasks"
               PROVE  inflight' = {} /\ port' = {} /\ Reissuing' = {} /\ requested' = {}
    BY DEF NothingReadYet
  <2>1. requested = {} /\ inflight = {} /\ port = {} /\ Reissuing = {}
    BY <1>0, InitialTasksOnce, ChainParts DEF NothingReadYet
  <2>2. \A w \in Workers : ~Dequeue(w)
    BY <2>1 DEF Dequeue
  <2>3. inflight' = {} /\ port' = {} /\ requested' = {}
    BY <2>1, <2>2, IoFrame
  <2>4. Reissuing' = {}
    <3>1. CASE process = "running" /\ MainStep
      BY <1>0, <2>1, <3>1, MainFrame DEF LoopInv, Reissuing, At
    <3>2. ASSUME process = "running", NEW v \in Workers, WorkerStep(v)
          PROVE  Reissuing' = {}
      BY <1>0, <2>1, <2>2, <3>2, WorkerReissuing
    <3>3. CASE UNCHANGED vars
      BY <2>1, <3>3, QuietChains DEF Reissuing, At, queueVars, vars
    <3> QED
      BY <2>1, <3>1, <3>2, <3>3 DEF Next
  <2> QED
    BY <2>3, <2>4
<1>6. ChainReads' <=> /\ requested' \cap Unissued' = {}
                      /\ NothingReadYet'
                      /\ \A w \in Workers : ChainRead(w)'
  BY DEF ChainReads, ChainRead, TaskReads, AllRead, NothingReadYet
<1> QED
  BY <1>1, <1>2, <1>4, <1>5, <1>6, ChainParts

(* Every step keeps what the chains have read. *)
LEMMA ChainsStep ==
  ASSUME IndInv, IndInv', TaskOffsets, EnoughReadsIssued, ChainReads, [Next]_vars,
         process # "terminated", process' # "terminated"
  PROVE  ChainReads'
<1>0. LoopInv /\ LoopInv'
  BY IndInvParts DEF IndInv, LoopInv, TypeInv, Control
<1>1. ASSUME IssueInitialRead \/ \E w \in Workers : IssueNextRead(w)
      PROVE  process = "running"
  <2> SUFFICES ASSUME UNCHANGED vars
               PROVE  FALSE
    BY DEF Next
  <2>1. CASE IssueInitialRead
    BY <1>0, <2>1 DEF IssueInitialRead, vars, LoopInv, TypeInv, TypeOK
  <2>2. CASE \E w \in Workers : IssueNextRead(w)
    BY <1>0, <2>2, Constants
    DEF IssueNextRead, At, Enter, vars, LoopInv, TypeInv, TypeOK
  <2> QED
    BY <1>1, <2>1, <2>2
<1>2. CASE IssueInitialRead
  BY <1>0, <1>1, <1>2, ChainsInitialRead
<1>3. CASE \E w \in Workers : IssueNextRead(w)
  BY <1>0, <1>1, <1>3, ChainsNextRead
<1> QED
  BY <1>2, <1>3, ChainsQuiet

(* A read is requested of a context that nobody has read. *)
LEMMA NewReads ==
  ASSUME IndInv, IndInv', EnoughReadsIssued, ChainReads, process = "running",
         process' # "terminated", NEW t \in Threads, NEW c,
         \/ t = Main /\ c = index /\ IssueInitialRead
         \/ t \in Workers /\ c = NewContextIndex(t) /\ IssueNextRead(t)
  PROVE  Read(t, c) /\ c \notin requested
<1>0. LoopInv /\ LoopInv'
  BY IndInvParts DEF IndInv, LoopInv, TypeInv, Control
<1>1. CASE t = Main /\ c = index /\ IssueInitialRead
  BY <1>0, <1>1, ChainsInitialRead DEF IssueInitialRead
<1>2. CASE t \in Workers /\ c = NewContextIndex(t) /\ IssueNextRead(t)
  BY <1>0, <1>2, ChainsNextRead DEF IssueNextRead
<1> QED
  BY <1>1, <1>2

(* Reads under way, or arrived, one for each context. *)
NoneRefused == "ReadFile" \in Faults \/ Refused = {}

(* Every step keeps each context outstanding once. *)
LEMMA OnceStep ==
  ASSUME IndInv, IndInv', EnoughReadsIssued, ChainReads, ReadOnce, NoneRefused,
         [Next]_vars, process # "terminated", process' # "terminated"
  PROVE  ReadOnce' /\ NoneRefused'
<1> DEFINE all == inflight \cup port
<1>1. ASSUME process = "running", NEW t \in Threads, NEW c,
             Read(t, c), c \notin requested
      PROVE  ReadOnce' /\ NoneRefused'
  <2> DEFINE r == [ctx |-> c, by |-> t]
  <2>1. /\ requested' = requested \cup {c}
        /\ port' = port /\ isComplete' = isComplete
        /\ \/ inflight' = inflight \cup {r}
           \/ inflight' = inflight /\ ("ReadFile" \in Faults \/ c \notin Contexts)
    BY <1>1 DEF Read
  <2>2. r \notin all /\ \A s \in all : s.ctx # r.ctx
    BY <1>1 DEF ReadOnce
  <2>3. r.ctx = c
    OBVIOUS
  <2> HIDE DEF r
  <2>4. ReadOnce'
    BY <1>1, <2>1, <2>2, <2>3 DEF ReadOnce
  <2>5. NoneRefused'
    BY <2>1, <2>3 DEF NoneRefused, Refused
  <2> QED
    BY <2>4, <2>5
<1>2. ASSUME NEW r \in inflight, CompleteRead(r)
      PROVE  ReadOnce' /\ NoneRefused'
  <2>1. /\ inflight' = inflight \ {r} /\ port' = port \cup {r}
        /\ requested' = requested /\ isComplete' = isComplete
    BY <1>2 DEF CompleteRead
  <2>2. inflight' \cup port' = all /\ inflight' \cap port' = {}
    BY <2>1 DEF ReadOnce
  <2> QED
    BY <2>1, <2>2 DEF ReadOnce, NoneRefused, Refused
<1>3. ASSUME NEW w \in Workers, Dequeue(w)
      PROVE  ReadOnce' /\ NoneRefused'
  <2>1. PICK r \in port : /\ port' = port \ {r}
                          /\ isComplete' = isComplete \cup ({r.ctx} \cap Contexts)
    BY <1>3 DEF Dequeue
  <2>2. inflight' = inflight /\ requested' = requested
    BY <1>3 DEF Dequeue
  <2>3. inflight' \cup port' = all \ {r} /\ r \in all
    BY <2>1, <2>2 DEF ReadOnce
  <2>4. \A s \in all \ {r} : s.ctx # r.ctx
    BY <2>3 DEF ReadOnce
  <2>5. ReadOnce'
    BY <2>1, <2>2, <2>3, <2>4 DEF ReadOnce
  <2>6. NoneRefused'
    BY <2>1, <2>2, <2>3 DEF NoneRefused, Refused
  <2> QED
    BY <2>5, <2>6
<1>4. CASE UNCHANGED <<inflight, port, requested, isComplete>>
  BY <1>4 DEF ReadOnce, NoneRefused, Refused
<1>5. CASE process = "running" /\ IssueInitialRead
  BY <1>1, <1>5, NewReads, Constants
<1>6. CASE process = "running" /\ \E w \in Workers : IssueNextRead(w)
  BY <1>1, <1>6, NewReads, Constants
<1>7. CASE UNCHANGED vars
  BY <1>4, <1>7 DEF vars, ioVars
<1> QED
  BY <1>2, <1>3, <1>4, <1>5, <1>6, <1>7, IoFrame DEF Next

-----------------------------------------------------------------------------
(* The invariant of the plan.                                              *)

(* main starts with nothing read. *)
LEMMA PlanInit ==
  ASSUME Init, EnoughReadsIssued
  PROVE  PlanInv
<1> USE Constants, SizesAssumption DEF EnoughReadsIssued
<1>1. /\ step[Main] = "addTasks" /\ index = 0
      /\ requested = {} /\ inflight = {} /\ port = {} /\ isComplete = {}
      /\ \A w \in Workers : pc[w] = "idle"
  BY DEF Init, QueueInit
<1>2. Reissuing = {} /\ ReadsInside
  BY <1>1 DEF Reissuing, At, ReadsInside
<1>3. TaskOffsets
  BY NoTasksYet DEF TaskOffsets
<1>4. \A w \in Workers : ChainRead(w)
  <2>1. \A w \in Workers : ExpectsPacket(w)
    BY <1>1 DEF ExpectsPacket, Workers
  <2> QED
    BY <2>1, NoTasksYet DEF ChainRead
<1>5. ChainReads
  BY <1>1, <1>2, <1>4, ChainParts DEF NothingReadYet
<1>6. ReadOnce /\ Refused = {}
  BY <1>1 DEF ReadOnce, Refused
<1> QED
  BY <1>2, <1>3, <1>5, <1>6 DEF PlanInv

(* What the chains have read, in every state: with as many initial reads   *)
(* as threads or more, the contexts w, w + QueueDepth, ... are read in     *)
(* order by chain w, each of them once, up to the end of the file.         *)
THEOREM ChainsFollowPlan ==
  ASSUME EnoughReadsIssued
  PROVE  Spec => []PlanInv
<1>1. Init => PlanInv
  BY PlanInit
<1>2. ASSUME IndInv, IndInv', TaskOffsets, ReadsInside, TaskOffsets', ReadsInside',
             PlanInv, [Next]_vars
      PROVE  PlanInv'
  <2> SUFFICES ASSUME process' # "terminated"
               PROVE  ChainReads' /\ ReadOnce' /\ NoneRefused'
    BY <1>2 DEF PlanInv, NoneRefused
  <2>1. process # "terminated"
    BY <1>2 DEF Next, vars
  <2>2. ChainReads /\ ReadOnce /\ NoneRefused
    BY <1>2, <2>1 DEF PlanInv, NoneRefused
  <2>3. ChainReads'
    BY <1>2, <2>1, <2>2, ChainsStep
  <2>4. ReadOnce' /\ NoneRefused'
    BY <1>2, <2>1, <2>2, OnceStep
  <2> QED
    BY <2>3, <2>4
<1>3. IndInv /\ IndInv' /\ TaskOffsets /\ ReadsInside /\ TaskOffsets' /\ ReadsInside'
        /\ PlanInv /\ [Next]_vars => PlanInv'
  BY <1>2
<1> QED
  BY <1>1, <1>3, Invariance, OffsetsInvariance, PTL DEF Spec

(* No buffer is read twice: neither two chains nor main and a chain meet   *)
(* on one context, in whatever order packets are taken.                    *)
THEOREM BuffersReadOnce ==
  ASSUME EnoughReadsIssued
  PROVE  Spec => EachBufferReadOnce
<1>1. ASSUME IndInv, IndInv', PlanInv, Next, NEW r \in inflight' \ inflight
      PROVE  r.ctx \notin requested
  <2>1. process = "running" /\ ChainReads
    BY <1>1 DEF Next, PlanInv
  <2>2. ASSUME NEW t \in Threads, NEW c,
               \/ t = Main /\ c = index /\ IssueInitialRead
               \/ t \in Workers /\ c = NewContextIndex(t) /\ IssueNextRead(t)
        PROVE  r.ctx \notin requested
    <3>1. Read(t, c)
      BY <2>2 DEF IssueInitialRead, IssueNextRead
    <3>2. r = [ctx |-> c, by |-> t] /\ process' = process
      BY <1>1, <3>1 DEF Read
    <3>3. c \notin requested
      BY <1>1, <2>1, <2>2, <3>2, NewReads
    <3> QED
      BY <3>2, <3>3
  <2>3. CASE IssueInitialRead
    BY <2>2, <2>3, Constants
  <2>4. CASE \E w \in Workers : IssueNextRead(w)
    BY <2>2, <2>4, Constants
  <2>5. CASE ~(IssueInitialRead \/ \E w \in Workers : IssueNextRead(w))
    BY <1>1, <2>5, IoFrame DEF Dequeue, CompleteRead
  <2> QED
    BY <2>3, <2>4, <2>5
<1>2. IndInv /\ IndInv' /\ PlanInv /\ [Next]_vars
        => [\A r \in inflight' \ inflight : r.ctx \notin requested]_vars
  BY <1>1
<1> QED
  BY <1>2, Invariance, ChainsFollowPlan, PTL DEF Spec, EachBufferReadOnce

-----------------------------------------------------------------------------
(* The default: as many initial reads as threads, and none refused.        *)

DefaultDepth ==
  QueueDepth = ThreadCount /\ ThreadCount > 0 /\ "ReadFile" \notin Faults

(* When main prints, every context has been read and its packet taken.     *)
LEMMA AllLoaded ==
  ASSUME IndInv, PlanInv, DefaultDepth, step[Main] = "print", process # "terminated"
  PROVE  /\ inflight = {} /\ port = {}
         /\ Contexts \subseteq isComplete
<1>0. LoopInv /\ FinitePackets /\ EnoughReadsIssued
  BY IndInvParts, SizesAssumption DEF DefaultDepth, EnoughReadsIssued
<1>1. inflight = {} /\ port = {}
  <2> DEFINE i == Cardinality(inflight)   p == Cardinality(port)
  <2>1. i \in Nat /\ p \in Nat /\ ThreadCount + i + p <= QueueDepth
    BY <1>0, PacketTypes, Printing DEF LoopInv
  <2>2. i = 0 /\ p = 0
    <3> HIDE DEF i, p
    <3> QED
      BY <2>1, SizesAssumption DEF DefaultDepth
  <2> QED
    BY <1>0, <2>2, FS_EmptySet DEF FinitePackets
<1>2. ASSUME NEW c \in Contexts
      PROVE  c \in isComplete
  <2> DEFINE w == c % QueueDepth
  <2>1. c \in Nat
    BY SizesAssumption DEF Contexts
  <2>2. w \in Workers
    <3>1. w \in 0 .. QueueDepth - 1
      BY <1>0, <2>1, Division DEF EnoughReadsIssued
    <3> QED
      BY <3>1 DEF Workers, DefaultDepth
  <2>3. InChain(w, c)
    BY DEF InChain
  <2> HIDE DEF w
  <2>4. ~ExpectsPacket(w)
    BY <2>2, Printing DEF Unfinished
  <2>5. c \in requested \cup Unissued
    BY <2>2, <2>3, <2>4, ChainParts DEF PlanInv, ChainRead, AllRead
  <2>6. Unissued = {}
    BY DEF Unissued
  <2>7. Refused = {}
    BY DEF PlanInv, DefaultDepth
  <2> QED
    BY <1>1, <2>5, <2>6, <2>7 DEF Refused
<1> QED
  BY <1>1, <1>2

(* With the default depth every buffer of the report was loaded: the       *)
(* completion times that PrintResults uses are set, for every number of    *)
(* threads and every file.                                                 *)
THEOREM ReportIsComplete ==
  ASSUME DefaultDepth
  PROVE  Spec => []ResultsAreLoaded
<1>1. EnoughReadsIssued
  BY SizesAssumption DEF DefaultDepth, EnoughReadsIssued
<1>2. IndInv /\ PlanInv => ResultsAreLoaded
  <2> SUFFICES ASSUME IndInv, PlanInv, process = "returned"
               PROVE  Contexts \subseteq isComplete
    BY DEF ResultsAreLoaded
  <2>1. step[Main] = "print"
    BY IndInvParts DEF LoopInv, Control, MainControl
  <2> QED
    BY <2>1, AllLoaded
<1> QED
  BY <1>1, <1>2, Invariance, ChainsFollowPlan, PTL

(* The buffers that are outstanding. *)
Reading == {r.ctx : r \in inflight \cup port} \cap Contexts

(* A read accepted by the kernel is a request of the plan. *)
LEMMA ReadIsRequest ==
  ASSUME PlanInv, process = "running", NEW t \in Threads, NEW c,
         Read(t, c), c \notin requested
  PROVE  (\E b \in Contexts : Plan!Request(b)) \/ UNCHANGED Plan!vars
<1>1. /\ port' = port /\ isComplete' = isComplete
      /\ process' # "returned"
      /\ \/ inflight' = inflight \cup {[ctx |-> c, by |-> t]}
         \/ inflight' = inflight
  BY DEF Read
<1>2. ReadOnce
  BY DEF PlanInv
<1>3. CASE inflight' = inflight
  BY <1>1, <1>3 DEF Plan!vars
<1>4. CASE inflight' = inflight \cup {[ctx |-> c, by |-> t]}
  <2>1. Reading' = Reading \cup ({c} \cap Contexts)
    <3> DEFINE r == [ctx |-> c, by |-> t]
    <3>1. inflight' \cup port' = (inflight \cup port) \cup {r} /\ r.ctx = c
      BY <1>1, <1>4
    <3> HIDE DEF r
    <3> QED
      BY <3>1 DEF Reading
  <2>2. c \notin Reading \cup isComplete
    BY <1>2 DEF ReadOnce, Reading
  <2>3. CASE c \in Contexts
    <3>1. Plan!Request(c)
      BY <1>1, <2>1, <2>2, <2>3 DEF Plan!Request, Reading
    <3> QED
      BY <2>3, <3>1
  <2>4. CASE c \notin Contexts
    BY <1>1, <2>1, <2>4 DEF Plan!vars, Reading
  <2> QED
    BY <2>3, <2>4
<1> QED
  BY <1>1, <1>3, <1>4

(* A packet that a task takes is an arrival of the plan. *)
LEMMA DequeueIsArrival ==
  ASSUME PlanInv, process = "running", NEW w, Dequeue(w)
  PROVE  (\E b \in Contexts : Plan!Arrive(b)) \/ UNCHANGED Plan!vars
<1>1. PICK r \in port : /\ port' = port \ {r}
                        /\ isComplete' = isComplete \cup ({r.ctx} \cap Contexts)
  BY DEF Dequeue
<1>2. inflight' = inflight /\ process' = process /\ ReadOnce
  BY DEF Dequeue, PlanInv
<1>3. /\ inflight' \cup port' = (inflight \cup port) \ {r}
      /\ \A s \in (inflight \cup port) \ {r} : s.ctx # r.ctx
  BY <1>1, <1>2 DEF ReadOnce
<1>4. Reading' = Reading \ {r.ctx}
  BY <1>1, <1>3 DEF Reading
<1>5. CASE r.ctx \in Contexts
  <2>1. r.ctx \in Reading
    BY <1>1, <1>5 DEF Reading
  <2>2. Plan!Arrive(r.ctx)
    BY <1>1, <1>2, <1>4, <1>5, <2>1 DEF Plan!Arrive, Reading
  <2> QED
    BY <1>5, <2>2
<1>6. CASE r.ctx \notin Contexts
  <2>1. Reading' = Reading /\ isComplete' = isComplete
    BY <1>1, <1>4, <1>6 DEF Reading
  <2> QED
    BY <1>2, <2>1 DEF Plan!vars, Reading
<1> QED
  BY <1>5, <1>6

(* No other step but main's report shows in the plan.                      *)
LEMMA PlanStep ==
  ASSUME IndInv, IndInv', PlanInv, DefaultDepth, [Next]_vars
  PROVE  [Plan!Next]_(Plan!vars)
<1>0. EnoughReadsIssued
  BY SizesAssumption DEF DefaultDepth, EnoughReadsIssued
<1>1. ASSUME process = "running", NEW t \in Threads, NEW c,
             \/ t = Main /\ c = index /\ IssueInitialRead
             \/ t \in Workers /\ c = NewContextIndex(t) /\ IssueNextRead(t)
      PROVE  [Plan!Next]_(Plan!vars)
  <2>1. Read(t, c)
    BY <1>1 DEF IssueInitialRead, IssueNextRead
  <2>2. CASE process' # "terminated"
    <3>1. c \notin requested
      BY <1>0, <1>1, <2>2, NewReads DEF PlanInv
    <3> QED
      BY <1>1, <2>1, <3>1, ReadIsRequest DEF Plan!Next
  <2>3. CASE process' = "terminated"
    <3>1. UNCHANGED <<inflight, port, isComplete>>
      BY <1>1, <2>1, <2>3 DEF Read
    <3> QED
      BY <1>1, <2>3, <3>1 DEF Plan!vars
  <2> QED
    BY <2>2, <2>3
<1>2. ASSUME process = "running", NEW w \in Workers, Dequeue(w)
      PROVE  [Plan!Next]_(Plan!vars)
  BY <1>2, DequeueIsArrival DEF Plan!Next
<1>3. ASSUME process = "running", NEW r \in inflight, CompleteRead(r)
      PROVE  UNCHANGED Plan!vars
  <2>1. inflight' \cup port' = inflight \cup port
    BY <1>3 DEF CompleteRead
  <2> QED
    BY <1>3, <2>1 DEF CompleteRead, Plan!vars
<1>4. CASE process = "running" /\ PrintResults
  <2>1. step[Main] = "print" /\ process' = "returned"
    BY <1>4 DEF PrintResults
  <2>2. isComplete = Contexts
    BY <1>4, <2>1, AllLoaded, IndInvParts DEF LoopInv, TypeInv, TypeOK
  <2>3. UNCHANGED <<inflight, port, isComplete>>
    BY <1>4 DEF PrintResults
  <2> QED
    BY <2>1, <2>2, <2>3 DEF Plan!Next, Plan!Report
<1>5. ASSUME process = "running", ~PrintResults, ~IssueInitialRead,
             \A w \in Workers : ~IssueNextRead(w) /\ ~Dequeue(w),
             \A r \in inflight : ~CompleteRead(r), Next
      PROVE  UNCHANGED Plan!vars
  <2>1. UNCHANGED <<inflight, port, isComplete>>
    BY <1>5, IoFrame
  <2>2. process' # "returned"
    <3>1. CASE MainStep
      BY <1>5, <3>1
      DEF MainStep, AddInitialTask, InitialTaskAdded, InitialTaskNotAdded, NextPhase,
          Loop, RunFinished, FinishShutdown, Return, LeaveLoop, ShutdownWorker, Join
    <3>2. ASSUME NEW w \in Workers, WorkerStep(w)
          PROVE  process' # "returned"
      BY <1>5, <3>2, WorkerFrame DEF IndInv, TypeInv, Control
    <3> QED
      BY <1>5, <3>1, <3>2 DEF Next
  <2> QED
    BY <1>5, <2>1, <2>2 DEF Plan!vars
<1>6. CASE UNCHANGED vars
  BY <1>6 DEF vars, ioVars, Plan!vars
<1>7. CASE Next
  <2>1. process = "running"
    BY <1>7 DEF Next
  <2>2. CASE IssueInitialRead
    BY <1>1, <2>1, <2>2, Constants
  <2>3. CASE \E w \in Workers : IssueNextRead(w)
    BY <1>1, <2>1, <2>3, Constants
  <2> QED
    BY <1>2, <1>3, <1>4, <1>5, <1>7, <2>1, <2>2, <2>3
<1> QED
  BY <1>6, <1>7

(* With the default depth the measurement is what ReadPlan says: threads,  *)
(* queues, chains and packets in any order come down to reading each       *)
(* buffer once and reporting when all have arrived.                        *)
THEOREM MeasurementKeepsPlan ==
  ASSUME DefaultDepth
  PROVE  Spec => ImplementsReadPlan
<1>1. EnoughReadsIssued
  BY SizesAssumption DEF DefaultDepth, EnoughReadsIssued
<1>2. Init => Plan!Init
  BY DEF Init, Plan!Init
<1>3. IndInv /\ IndInv' /\ PlanInv /\ [Next]_vars => [Plan!Next]_(Plan!vars)
  BY PlanStep
<1> QED
  BY <1>1, <1>2, <1>3, Invariance, ChainsFollowPlan, PTL
  DEF Spec, ImplementsReadPlan, Plan!Spec

-----------------------------------------------------------------------------
(* Who is parked, and who has been told to leave.                          *)

(* A runner parked in its wait takes no step, and a SetEvent ends its wait. *)
LEMMA ParkedLoop ==
  ASSUME NEW t \in Threads, pc \in [Threads -> LoopPoints], parked \subseteq Threads,
         \A u \in parked : pc[u] = "waiting", LoopStep(t)
  PROVE  \A u \in parked' : pc'[u] = "waiting"
<1> USE DEF Goto
<1>1. CASE EnterLoop(t) \/ PopTask(t) \/ PopNothing(t) \/ Decide(t) \/ WaitFails(t)
  BY <1>1 DEF EnterLoop, PopTask, PopNothing, Decide, WaitFails
<1>2. CASE StartWait(t)
  BY <1>2 DEF StartWait
<1>3. CASE EndWait(t)
  BY <1>3 DEF EndWait
<1> QED
  BY <1>1, <1>2, <1>3 DEF LoopStep

(* Every step keeps the parked runners in their wait. *)
LEMMA ParkedStep ==
  ASSUME TypeInv, \A u \in parked : pc[u] = "waiting", [Next]_vars
  PROVE  \A u \in parked' : pc'[u] = "waiting"
<1>0. pc \in [Threads -> LoopPoints] /\ parked \subseteq Threads
  BY Constants DEF TypeInv, TypeOK, QueueTypeOK
<1>1. ASSUME NEW t \in Threads, Loop(t) \/ Return(t)
      PROVE  \A u \in parked' : pc'[u] = "waiting"
  <2>1. CASE Loop(t)
    BY <1>0, <2>1, ParkedLoop DEF Loop
  <2>2. CASE Return(t)
    BY <1>0, <2>2 DEF Return, RunReturns, Goto
  <2> QED
    BY <1>1, <2>1, <2>2
<1>2. ASSUME pc' = pc, parked' \in {parked, {}}
      PROVE  \A u \in parked' : pc'[u] = "waiting"
  BY <1>2
<1>3. ASSUME NEW t, AddTaskOkay(t) \/ AddTaskCouldNotSetEvent(t) \/ ShutdownSignals(t)
      PROVE  pc' = pc /\ parked' \in {parked, {}}
  BY <1>3
  DEF AddTaskOkay, AddTaskCouldNotSetEvent, AddTaskPush, ShutdownSignals, SetEvent,
      SetEventFails
<1>4. ASSUME NEW w \in Workers, WorkerStep(w)
      PROVE  \A u \in parked' : pc'[u] = "waiting"
  <2>1. CASE Dequeue(w) \/ IssueNextRead(w) \/ PostNextTask(w) \/ NotifyMain(w)
    BY <1>2, <2>1
    DEF Dequeue, IssueNextRead, PostNextTask, NotifyMain, Add, AddTaskCheck, queueVars
  <2>2. CASE FinishAdd(w)
    BY <1>2, <1>3, <2>2 DEF FinishAdd
  <2> QED
    BY <1>1, <1>4, <2>1, <2>2, Constants DEF WorkerStep
<1>5. CASE MainStep
  <2>1. CASE \/ AddInitialTask \/ RunFinished \/ ShutdownWorker
             \/ IssueInitialRead \/ LeaveLoop \/ Join \/ PrintResults
             \/ \E from, limit, to : NextPhase(from, limit, to)
    BY <1>2, <2>1
    DEF AddInitialTask, AddTaskCheck, RunFinished, ShutdownWorker, Shutdown,
        IssueInitialRead, LeaveLoop, Join, PrintResults, NextPhase, queueVars
  <2>2. CASE InitialTaskAdded \/ InitialTaskNotAdded \/ FinishShutdown
    BY <1>2, <1>3, <2>2 DEF InitialTaskAdded, InitialTaskNotAdded, FinishShutdown
  <2> QED
    BY <1>1, <1>5, <2>1, <2>2, Constants DEF MainStep
<1>6. CASE UNCHANGED vars \/ \E r \in inflight : CompleteRead(r)
  BY <1>2, <1>6 DEF vars, queueVars, CompleteRead
<1> QED
  BY <1>4, <1>5, <1>6 DEF Next

(* main counts from 0 to ThreadCount when it shuts the workers down, so    *)
(* that each has been told to leave before main waits for it.              *)
LEMMA LeavingMain ==
  ASSUME LoopInv, Leaving, process = "running", MainStep
  PROVE  /\ step'[Main] \in {"loop", "return"} => index' = 0
         /\ step'[Main] = "shutdown" => \A w \in Workers : w < index' => shuttingDown'[w]
         /\ step'[Main] \in {"join", "print"} => \A w \in Workers : shuttingDown'[w]
<1> USE Constants, SizesAssumption DEF LoopInv, TypeInv, TypeOK, QueueTypeOK, Leaving
<1>1. CASE AddInitialTask \/ InitialTaskAdded \/ InitialTaskNotAdded \/ IssueInitialRead
  BY <1>1
  DEF AddInitialTask, InitialTaskAdded, InitialTaskNotAdded, IssueInitialRead
<1>2. CASE NextPhase("addTasks", ThreadCount, "issue") \/ NextPhase("issue", QueueDepth, "loop")
  BY <1>2 DEF NextPhase, Enter
<1>3. CASE Loop(Main)
  BY <1>3
  DEF Loop, LoopStep, EnterLoop, PopTask, PopNothing, Decide, StartWait, WaitFails, EndWait
<1>4. CASE RunFinished \/ Return(Main)
  BY <1>4 DEF RunFinished, Return, At, Enter
<1>5. CASE FinishShutdown
  BY <1>5 DEF FinishShutdown, ShutdownSignals
<1>6. CASE LeaveLoop
  BY <1>6 DEF LeaveLoop, Enter, Workers
<1>7. CASE ShutdownWorker
  BY <1>7 DEF ShutdownWorker, Shutdown, Workers
<1>8. CASE NextPhase("shutdown", ThreadCount, "join")
  <2>1. step[Main] = "shutdown" /\ \A w \in Workers : w < index
    BY <1>8 DEF NextPhase, Workers
  <2> QED
    BY <1>8, <2>1 DEF NextPhase, Enter, queueVars
<1>9. CASE Join \/ PrintResults
  BY <1>9 DEF Join, PrintResults, Enter, queueVars
<1> QED
  BY <1>1, <1>2, <1>3, <1>4, <1>5, <1>6, <1>7, <1>8, <1>9 DEF MainStep

(* Every step keeps who is parked and who has been shut down. *)
LEMMA LeavingStep ==
  ASSUME LoopInv, Leaving, [Next]_vars
  PROVE  Leaving'
<1>1. \A t \in parked' : pc'[t] = "waiting"
  BY ParkedStep DEF Leaving, LoopInv
<1>2. CASE process = "running" /\ MainStep
  BY <1>1, <1>2, LeavingMain DEF Leaving
<1>3. ASSUME process = "running", NEW w \in Workers, WorkerStep(w)
      PROVE  Leaving'
  <2>1. index' = index /\ shuttingDown' = shuttingDown /\ step'[Main] = step[Main]
    BY <1>3, WorkerFrame, Constants DEF LoopInv
  <2> QED
    BY <1>1, <2>1 DEF Leaving
<1>4. CASE UNCHANGED <<queueVars, step, index>>
  BY <1>1, <1>4 DEF queueVars, Leaving
<1> QED
  BY <1>2, <1>3, <1>4 DEF Next, vars, CompleteRead

-----------------------------------------------------------------------------
(* Every chain sends its Finished: FinishedBound the other way.            *)

(* A queue that is shut down stays so. *)
LEMMA ShutdownLasts ==
  ASSUME LoopInv, [Next]_vars, ~shuttingDown'[Main]
  PROVE  ~shuttingDown[Main]
<1> USE Constants DEF LoopInv, TypeInv, TypeOK, QueueTypeOK
<1>1. CASE RunFinished \/ ShutdownWorker
  BY <1>1 DEF RunFinished, ShutdownWorker, Shutdown, queueVars
<1>2. CASE MainStep /\ ~RunFinished /\ ~ShutdownWorker
  BY <1>2
  DEF MainStep, AddInitialTask, InitialTaskAdded, InitialTaskNotAdded,
      AddTaskCheck, AddTaskOkay, AddTaskCouldNotSetEvent, AddTaskPush,
      NextPhase, IssueInitialRead, Loop, LoopStep, EnterLoop, PopTask,
      PopNothing, Decide, StartWait, WaitFails, EndWait, Return,
      RunReturns, FinishShutdown, ShutdownSignals, LeaveLoop, Join,
      PrintResults, queueVars
<1>3. ASSUME process = "running", NEW w \in Workers, WorkerStep(w)
      PROVE  ~shuttingDown[Main]
  BY <1>3, WorkerFrame
<1>4. CASE UNCHANGED vars \/ \E r \in inflight : CompleteRead(r)
  BY <1>4 DEF vars, queueVars, CompleteRead
<1> QED
  BY <1>1, <1>2, <1>3, <1>4 DEF Next

(* A worker is not done with its chain before it has pushed its Finished.  *)
LEMMA WorkerStaysUnfinished ==
  ASSUME LoopInv, process = "running", NEW w \in Workers, WorkerStep(w), ~shuttingDown[Main]
  PROVE  /\ Unfinished \ {w} \subseteq Unfinished'
         /\ ~(FinishAdd(w) /\ posting[w].queue = Main) /\ w \in Unfinished
              => w \in Unfinished'
<1>1. /\ index' = index
      /\ step'[Main] = step[Main]
      /\ \A u \in Workers \ {w} : /\ pc'[u] = pc[u]
                                  /\ step'[u] = step[u]
                                  /\ posting'[u] = posting[u]
                                  /\ queue'[u] = queue[u]
  BY WorkerFrame, Constants DEF LoopInv
<1>2. ASSUME NEW u \in Workers \ {w}, u \in Unfinished
      PROVE  u \in Unfinished'
  BY <1>1, <1>2 DEF Unfinished, ExpectsPacket, At
<1>3. ASSUME ~(FinishAdd(w) /\ posting[w].queue = Main), w \in Unfinished
      PROVE  w \in Unfinished'
  <2> USE Constants DEF LoopInv, TypeInv, TypeOK, QueueTypeOK, Control
  <2>1. CASE Dequeue(w)
    BY <2>1 DEF Dequeue, Unfinished, ExpectsPacket, Enter, At, queueVars
  <2>2. CASE ~Dequeue(w) /\ ExpectsPacket(w)
    BY <2>2, WorkerExpecting DEF Unfinished
  <2>3. CASE ~ExpectsPacket(w) /\ At(w, "notify")
    <3>1. pc[w] = "run" /\ step[w] = "notify"
      BY <2>3 DEF At
    <3>2. NotifyMain(w)
      BY <3>1
      DEF WorkerStep, Loop, LoopStep, EnterLoop, PopTask, PopNothing, Decide,
          StartWait, WaitFails, EndWait, Goto, Dequeue, IssueNextRead, PostNextTask,
          FinishAdd, Return, At
    <3>3. /\ posting' = [posting EXCEPT ![w] = [queue |-> Main, task |-> Finished]]
          /\ step' = [step EXCEPT ![w] = "posting"] /\ pc' = pc
      BY <3>2 DEF NotifyMain, Add, AddTaskCheck, Enter
    <3>4. [queue |-> Main, task |-> Finished] # None
      <4>1. [queue |-> Main, task |-> Finished] \in [queue : Threads, task : Tasks]
        BY DEF Tasks
      <4> QED
        BY <4>1, NoneAssumption
    <3>5. /\ At(w, "posting")' /\ posting'[w] # None /\ posting'[w].queue = Main
      BY <3>1, <3>3, <3>4 DEF At
    <3> QED
      BY <3>5 DEF Unfinished
  <2>4. CASE ~ExpectsPacket(w) /\ ~At(w, "notify")
    <3>1. At(w, "posting") /\ posting[w] # None /\ posting[w].queue = Main
      BY <1>3, <2>4 DEF Unfinished
    <3>2. FinishAdd(w)
      BY <3>1
      DEF WorkerStep, Loop, LoopStep, EnterLoop, PopTask, PopNothing, Decide,
          StartWait, WaitFails, EndWait, Goto, Dequeue, IssueNextRead, PostNextTask,
          NotifyMain, Return, At
    <3> QED
      BY <1>3, <3>1, <3>2
  <2> QED
    BY <2>1, <2>2, <2>3, <2>4
<1> QED
  BY <1>2, <1>3 DEF Unfinished

(* main ends no chain. *)
LEMMA MainKeepsUnfinished ==
  ASSUME LoopInv, process = "running", MainStep, process' # "terminated"
  PROVE  Unfinished \subseteq Unfinished'
<1>1. \A w \in Workers : ExpectsPacket(w) => ExpectsPacket(w)'
  BY MainExpecting
<1>2. \A w \in Workers : pc'[w] = pc[w] /\ step'[w] = step[w] /\ posting'[w] = posting[w]
  BY MainFrame DEF LoopInv
<1> QED
  BY <1>1, <1>2 DEF Unfinished, At

(* The Finished tasks sent, after a step. *)
LEMMA SentTypeNext ==
  ASSUME TypeInv'
  PROVE  Sent' \in Nat
<1> DEFINE n == Len(queue'[Main])
           c == completed'
           here == IF At(Main, "loop")' THEN 1 ELSE 0
<1>1. Sent' = c + n + here
  BY DEF Sent
<1>2. here \in Nat
  OBVIOUS
<1>3. n \in Nat /\ c \in Nat
  <2> HIDE DEF here
  <2>1. queue'[Main] \in Seq({Finished}) /\ completed' \in Nat
    BY DEF TypeInv, TypeOK
  <2> QED
    BY <2>1
<1> HIDE DEF n, here, c
<1> QED
  BY <1>1, <1>2, <1>3

\* Every worker has a chain to end or has sent its Finished.
EveryChainSends == ThreadCount <= Sent + Cardinality(Unfinished)

(* Every step keeps all chains accounted for until main is shut down.      *)
LEMMA ChainsSendStep ==
  ASSUME LoopInv, LoopInv', [Next]_vars, process' # "terminated", ~shuttingDown[Main],
         EveryChainSends
  PROVE  EveryChainSends'
<1> DEFINE u == Cardinality(Unfinished)
           v == Cardinality(Unfinished')
           s == Sent
           s1 == Sent'
<1>1. u \in Nat /\ IsFiniteSet(Unfinished) /\ s \in Nat /\ ThreadCount <= s + u
  BY WorkerSubsets, SentType DEF EveryChainSends, LoopInv
<1>2. IsFiniteSet(Unfinished') /\ v \in Nat
  <2>1. Unfinished' \subseteq Workers
    BY DEF Unfinished
  <2> QED
    BY <2>1, Constants, SubsetCard
<1>3. ThreadCount \in Nat
  BY SizesAssumption
<1>4. s1 + v >= s + u => EveryChainSends'
  <2>1. s1 \in Nat
    BY SentTypeNext DEF LoopInv
  <2>2. EveryChainSends' <=> ThreadCount <= s1 + v
    BY DEF EveryChainSends
  <2> HIDE DEF u, v, s, s1
  <2> QED
    BY <1>1, <1>2, <1>3, <2>1, <2>2
<1>5. Unfinished \subseteq Unfinished' => u <= v
  BY <1>2, SubsetCard
<1>6. CASE process = "running" /\ MainStep
  <2>1. s1 = s /\ u <= v
    BY <1>5, <1>6, MainSent, MainKeepsUnfinished DEF LoopInv
  <2>2. s1 + v >= s + u
    <3> HIDE DEF u, v, s, s1
    <3> QED
      BY <1>1, <1>2, <2>1
  <2> QED
    BY <1>4, <2>2
<1>7. ASSUME process = "running", NEW w \in Workers, WorkerStep(w)
      PROVE  EveryChainSends'
  <2>1. CASE FinishAdd(w) /\ posting[w].queue = Main
    <3>1. s1 = s + 1
      BY <1>7, <2>1, WorkerSent DEF LoopInv
    <3>2. u <= v + 1
      <4>1. Unfinished \subseteq Unfinished' \cup {w}
        BY <1>7, WorkerStaysUnfinished
      <4> QED
        BY <1>2, <4>1, OneMoreCard
    <3>3. s1 + v >= s + u
      <4> HIDE DEF u, v, s, s1
      <4> QED
        BY <1>1, <1>2, <3>1, <3>2
    <3> QED
      BY <1>4, <3>3
  <2>2. CASE ~(FinishAdd(w) /\ posting[w].queue = Main)
    <3>1. s1 = s
      BY <1>7, <2>2, WorkerSent DEF LoopInv
    <3>2. u <= v
      BY <1>5, <1>7, <2>2, WorkerStaysUnfinished
    <3>3. s1 + v >= s + u
      <4> HIDE DEF u, v, s, s1
      <4> QED
        BY <1>1, <1>2, <3>1, <3>2
    <3> QED
      BY <1>4, <3>3
  <2> QED
    BY <2>1, <2>2
<1>8. CASE UNCHANGED <<queueVars, step, index, completed>>
  BY <1>8 DEF queueVars, EveryChainSends, Sent, At, Unfinished, ExpectsPacket
<1>9. ASSUME NEW r \in inflight, CompleteRead(r)
      PROVE  UNCHANGED <<queueVars, step, index, completed>>
  BY <1>9 DEF CompleteRead
<1>10. UNCHANGED vars => UNCHANGED <<queueVars, step, index, completed>>
  BY DEF vars
<1> QED
  BY <1>6, <1>7, <1>8, <1>9, <1>10 DEF Next

(* The last Finished that main counts shuts its queue down.                *)
LEMMA LastShutsDown ==
  ASSUME LoopInv, [Next]_vars, completed' = ThreadCount, ThreadCount > 0,
         completed = ThreadCount => shuttingDown[Main]
  PROVE  shuttingDown'[Main]
<1> USE Constants DEF LoopInv, TypeInv, TypeOK, QueueTypeOK
<1>1. CASE RunFinished
  BY <1>1 DEF RunFinished, Shutdown
<1>2. CASE ~RunFinished
  <2>1. completed' = completed
    <3>1. CASE MainStep
      BY <1>2, <3>1
      DEF MainStep, AddInitialTask, InitialTaskAdded, InitialTaskNotAdded,
          NextPhase, IssueInitialRead, Loop, Return, FinishShutdown, ShutdownWorker,
          LeaveLoop, Join, PrintResults
    <3>2. ASSUME process = "running", NEW w \in Workers, WorkerStep(w)
          PROVE  completed' = completed
      BY <3>2, WorkerFrame
    <3>3. CASE UNCHANGED vars \/ \E r \in inflight : CompleteRead(r)
      BY <3>3 DEF vars, CompleteRead
    <3> QED
      BY <3>1, <3>2, <3>3 DEF Next
  <2>2. shuttingDown[Main]
    BY <2>1
  <2> QED
    BY <2>2, ShutdownLasts
<1> QED
  BY <1>1, <1>2

(* Every step keeps the account of Finished. *)
LEMMA FinishedAccountedStep ==
  ASSUME LoopInv, LoopInv', [Next]_vars, process' # "terminated", FinishedAccounted
  PROVE  FinishedAccounted'
<1>1. ~shuttingDown'[Main] => EveryChainSends'
  BY ShutdownLasts, ChainsSendStep DEF FinishedAccounted, EveryChainSends
<1>2. completed' = ThreadCount /\ ThreadCount > 0 => shuttingDown'[Main]
  BY LastShutsDown DEF FinishedAccounted
<1> QED
  BY <1>1, <1>2 DEF FinishedAccounted, EveryChainSends

-----------------------------------------------------------------------------
(* No packet is missing that was not lost: PacketBalance the other way.    *)

(* A worker that expects a packet after its step did so before.            *)
LEMMA WorkerExpected ==
  ASSUME LoopInv, process = "running", NEW w \in Workers, WorkerStep(w)
  PROVE  /\ Expecting' \subseteq Expecting
         /\ Dequeue(w) /\ step'[w] # "read" => w \in Expecting /\ w \notin Expecting'
<1>1. /\ index' = index
      /\ step'[Main] = step[Main]
      /\ \A u \in Workers \ {w} : /\ pc'[u] = pc[u]
                                  /\ step'[u] = step[u]
                                  /\ posting'[u] = posting[u]
                                  /\ queue'[u] = queue[u]
  BY WorkerFrame, Constants DEF LoopInv
<1>2. ASSUME NEW u \in Workers \ {w}, ExpectsPacket(u)'
      PROVE  ExpectsPacket(u)
  BY <1>1, <1>2 DEF ExpectsPacket, At
<1> USE Constants DEF LoopInv, TypeInv, TypeOK, QueueTypeOK, Control
<1>3. ASSUME ExpectsPacket(w)'
      PROVE  ExpectsPacket(w)
  <2>1. CASE Loop(w)
    <3>1. CASE PopTask(w)
      BY <3>1 DEF PopTask, ExpectsPacket
    <3>2. CASE ~PopTask(w)
      BY <1>1, <1>3, <2>1, <3>2
      DEF Loop, LoopStep, EnterLoop, PopNothing, Decide, StartWait, WaitFails,
          EndWait, Goto, ExpectsPacket, At
    <3> QED
      BY <3>1, <3>2
  <2>2. CASE Return(w)
    BY <1>1, <1>3, <2>2
    DEF Return, RunReturns, Goto, Enter, ExpectsPacket, At
  <2>3. CASE Dequeue(w) \/ IssueNextRead(w) \/ PostNextTask(w)
    BY <2>3 DEF Dequeue, IssueNextRead, PostNextTask, ExpectsPacket
  <2>4. CASE NotifyMain(w)
    <3>1. /\ step'[w] \in {"return", "posting"}
          /\ queue' = queue
          /\ posting'[w] # None => posting'[w] = posting[w] \/ posting'[w].queue = Main
      BY <2>4 DEF NotifyMain, Add, AddTaskCheck, Enter
    <3>2. posting[w] = None
      BY <2>4 DEF NotifyMain, Add, AddTaskCheck
    <3> QED
      BY <1>1, <1>3, <3>1, <3>2 DEF ExpectsPacket, At
  <2>5. CASE FinishAdd(w)
    <3>1. step'[w] = "return" /\ posting[w] # None /\ posting[w].queue \in {w, Main}
      BY <2>5 DEF FinishAdd, At, Enter, WorkerControl
    <3>2. CASE posting[w].queue = w
      BY <2>5, <3>1, <3>2 DEF FinishAdd, ExpectsPacket
    <3>3. CASE posting[w].queue = Main
      <4>1. queue'[w] = queue[w]
        BY <2>5, <3>3
        DEF FinishAdd, AddTaskOkay, AddTaskCouldNotSetEvent, AddTaskPush
      <4> QED
        BY <1>1, <1>3, <3>1, <4>1 DEF ExpectsPacket, At
    <3> QED
      BY <3>1, <3>2, <3>3
  <2> QED
    BY <2>1, <2>2, <2>3, <2>4, <2>5 DEF WorkerStep
<1>4. ASSUME Dequeue(w), step'[w] # "read"
      PROVE  ExpectsPacket(w) /\ ~ExpectsPacket(w)'
  <2>1. /\ pc[w] = "run" /\ step[w] = "dequeue" /\ step'[w] = "notify"
        /\ pc' = pc /\ queue' = queue
    BY <1>4 DEF Dequeue, At, Enter, queueVars
  <2>2. queue[w] = <<>> /\ ~(step[Main] = "addTasks" /\ w >= index)
    BY <2>1 DEF OneTaskPerChain
  <2> QED
    BY <1>1, <2>1, <2>2 DEF ExpectsPacket, At
<1>5. Expecting' \subseteq Workers
  BY DEF Expecting
<1> HIDE DEF LoopInv
<1> QED
  BY <1>2, <1>3, <1>4, <1>5 DEF Expecting

(* A worker stays at its follow-up read until it issues it, and comes to   *)
(* it with the packet.                                                     *)
LEMMA WorkerReissues ==
  ASSUME LoopInv, process = "running", NEW w \in Workers, WorkerStep(w)
  PROVE  /\ Reissuing \ {w} \subseteq Reissuing'
         /\ ~IssueNextRead(w) => Reissuing \subseteq Reissuing'
         /\ Dequeue(w) /\ step'[w] = "read" => w \in Reissuing' /\ w \notin Reissuing
<1> USE Constants DEF LoopInv, TypeInv, TypeOK, QueueTypeOK, Control
<1>1. \A u \in Workers \ {w} : pc'[u] = pc[u] /\ step'[u] = step[u]
  BY WorkerFrame
<1>2. At(w, "read") => IssueNextRead(w)
  BY DEF WorkerStep, Loop, LoopStep, EnterLoop, PopTask, PopNothing, Decide, StartWait,
         WaitFails, EndWait, Goto, Dequeue, PostNextTask, NotifyMain, FinishAdd, Return, At
<1>3. Dequeue(w) /\ step'[w] = "read" => At(w, "read")' /\ ~At(w, "read")
  BY DEF Dequeue, At, queueVars
<1> QED
  BY <1>1, <1>2, <1>3 DEF Reissuing, At

FiniteReads == FinitePackets /\ IsFiniteSet(requested)

(* What is lost is finite. *)
LEMMA LostFinite ==
  ASSUME IsFiniteSet(requested)
  PROVE  IsFiniteSet(Lost) /\ Cardinality(Lost) \in Nat
<1>1. Lost \subseteq requested
  BY DEF Lost
<1> QED
  BY <1>1, SubsetCard

(* A new read is in flight or lost. *)
LEMMA ReadAccounted ==
  ASSUME FiniteReads, ReadOnce, NEW t, NEW c, Read(t, c), c \notin requested,
         process' = process
  PROVE  /\ FiniteReads'
         /\ port' = port
         /\ Cardinality(inflight) + Cardinality(Lost) + 1
              <= Cardinality(inflight') + Cardinality(Lost')
<1> DEFINE r == [ctx |-> c, by |-> t]
           i == Cardinality(inflight)   i1 == Cardinality(inflight')
           l == Cardinality(Lost)       l1 == Cardinality(Lost')
<1>1. /\ requested' = requested \cup {c} /\ port' = port /\ isComplete' = isComplete
      /\ inflight' \in {inflight, inflight \cup {r}}
  <2> HIDE DEF i, i1, l, l1
  <2> QED
    BY DEF Read
<1>2. FiniteReads'
  <2>1. IsFiniteSet(inflight) /\ IsFiniteSet(port) /\ IsFiniteSet(requested)
    BY DEF FiniteReads, FinitePackets
  <2>2. IsFiniteSet(inflight \cup {r}) /\ IsFiniteSet(requested \cup {c})
    BY <2>1, FS_AddElement
  <2> HIDE DEF r
  <2> QED
    BY <1>1, <2>1, <2>2 DEF FiniteReads, FinitePackets
<1>3. /\ r.ctx = c /\ r \notin inflight
      /\ \A s \in inflight \cup port : s.ctx # c
  BY DEF ReadOnce
<1>4. i \in Nat /\ i1 \in Nat /\ l \in Nat /\ l1 \in Nat /\ IsFiniteSet(Lost')
  <2>1. Lost' \subseteq requested'
    BY DEF Lost
  <2> QED
    BY <1>2, <2>1, LostFinite, SubsetCard, FS_CardinalityType DEF FiniteReads, FinitePackets
<1> HIDE DEF r
<1>5. CASE inflight' = inflight \cup {r}
  <2>1. i + 1 <= i1
    <3>1. r \in inflight' /\ inflight \subseteq inflight' \ {r}
      BY <1>3, <1>5
    <3> QED
      BY <1>2, <3>1, LessOneCard DEF FiniteReads, FinitePackets
  <2>2. l <= l1
    <3>1. Lost \subseteq Lost'
      BY <1>1, <1>3, <1>5 DEF Lost
    <3> QED
      BY <1>4, <3>1, SubsetCard
  <2>3. i + l + 1 <= i1 + l1
    <3> HIDE DEF i, l, i1, l1
    <3> QED
      BY <1>4, <2>1, <2>2
  <2> QED
    BY <1>1, <1>2, <2>3
<1>6. CASE inflight' = inflight
  <2>1. l + 1 <= l1
    <3>1. c \in Lost' /\ Lost \subseteq Lost' \ {c}
      BY <1>1, <1>3, <1>6 DEF Lost, ReadOnce
    <3> QED
      BY <1>4, <3>1, LessOneCard
  <2>2. i1 = i
    BY <1>6
  <2>3. i + l + 1 <= i1 + l1
    <3> HIDE DEF i, l, i1, l1
    <3> QED
      BY <1>4, <2>1, <2>2
  <2> QED
    BY <1>1, <1>2, <2>3
<1> QED
  BY <1>1, <1>5, <1>6

(* No other step requests a read, or makes good a loss.                    *)
LEMMA NothingFound ==
  ASSUME [Next]_vars, ~IssueInitialRead, \A w \in Workers : ~IssueNextRead(w)
  PROVE  requested' = requested /\ Lost \subseteq Lost'
<1>1. ASSUME NEW w \in Workers, Dequeue(w)
      PROVE  requested' = requested /\ Lost \subseteq Lost'
  <2>1. PICK r \in port : /\ port' = port \ {r}
                          /\ isComplete' = isComplete \cup ({r.ctx} \cap Contexts)
    BY <1>1 DEF Dequeue
  <2>2. inflight' = inflight /\ requested' = requested
    BY <1>1 DEF Dequeue
  <2> QED
    BY <2>1, <2>2 DEF Lost
<1>2. ASSUME NEW r \in inflight, CompleteRead(r)
      PROVE  requested' = requested /\ Lost \subseteq Lost'
  <2>1. /\ inflight' = inflight \ {r} /\ port' = port \cup {r}
        /\ requested' = requested /\ isComplete' = isComplete
    BY <1>2 DEF CompleteRead
  <2> QED
    BY <2>1 DEF Lost
<1>3. CASE UNCHANGED <<inflight, port, requested, isComplete>>
  BY <1>3 DEF Lost
<1> QED
  BY <1>1, <1>2, <1>3, IoFrame

(* The account, each of its terms a number of its own.                     *)
LEMMA AccountSum ==
  ASSUME NEW t \in Nat, NEW d \in Nat,
         NEW i \in Nat, NEW p \in Nat, NEW r \in Nat, NEW x \in Int, NEW l \in Nat,
         NEW e \in Nat,
         NEW i1 \in Nat, NEW p1 \in Nat, NEW r1 \in Nat, NEW x1 \in Int, NEW l1 \in Nat,
         NEW e1 \in Nat,
         d + e <= t + i + p + r + x + l,
         e1 + i + p + r + x + l <= e + i1 + p1 + r1 + x1 + l1
  PROVE  d + e1 <= t + i1 + p1 + r1 + x1 + l1
  OBVIOUS

(* The terms of the account before and after a step are numbers. *)
LEMMA AccountTypes ==
  ASSUME LoopInv, FiniteReads, LoopInv', FiniteReads'
  PROVE  /\ Cardinality(inflight) \in Nat /\ Cardinality(inflight') \in Nat
         /\ Cardinality(port) \in Nat /\ Cardinality(port') \in Nat
         /\ Cardinality(Reissuing) \in Nat /\ Cardinality(Reissuing') \in Nat
         /\ Cardinality(Expecting) \in Nat /\ Cardinality(Expecting') \in Nat
         /\ Cardinality(Lost) \in Nat /\ Cardinality(Lost') \in Nat
         /\ ToIssue \in Int /\ ToIssue' \in Int
         /\ IsFiniteSet(Reissuing) /\ IsFiniteSet(Reissuing')
         /\ IsFiniteSet(Expecting) /\ IsFiniteSet(Expecting')
         /\ IsFiniteSet(Lost')
<1>1. Reissuing' \subseteq Workers /\ Expecting' \subseteq Workers
  BY DEF Reissuing, Expecting
<1>2. Lost' \subseteq requested' /\ Lost \subseteq requested
  BY DEF Lost
<1>3. index' \in Nat /\ index \in Nat
  BY DEF LoopInv, TypeInv, TypeOK
<1>4. ToIssue \in Int /\ ToIssue' \in Int
  BY <1>3, SizesAssumption DEF ToIssue
<1>5. /\ IsFiniteSet(inflight) /\ IsFiniteSet(inflight')
      /\ IsFiniteSet(port) /\ IsFiniteSet(port')
      /\ IsFiniteSet(requested) /\ IsFiniteSet(requested')
  BY DEF FiniteReads, FinitePackets
<1> QED
  BY <1>1, <1>2, <1>4, <1>5, WorkerSubsets, Constants, SubsetCard, FS_CardinalityType

(* The account is kept by a step that takes no packet without a taker.     *)
LEMMA AccountFrom ==
  ASSUME LoopInv, FiniteReads, LoopInv', FiniteReads', PacketsAccounted,
         Cardinality(Expecting') + Cardinality(inflight) + Cardinality(port)
           + Cardinality(Reissuing) + ToIssue + Cardinality(Lost)
         <= Cardinality(Expecting) + Cardinality(inflight') + Cardinality(port')
           + Cardinality(Reissuing') + ToIssue' + Cardinality(Lost')
  PROVE  PacketsAccounted'
<1>1. QueueDepth + Cardinality(Expecting)
        <= ThreadCount + Cardinality(inflight) + Cardinality(port)
             + Cardinality(Reissuing) + ToIssue + Cardinality(Lost)
  BY DEF PacketsAccounted
<1>2. QueueDepth + Cardinality(Expecting')
        <= ThreadCount + Cardinality(inflight') + Cardinality(port')
             + Cardinality(Reissuing') + ToIssue' + Cardinality(Lost')
  BY <1>1, AccountTypes, AccountSum, SizesAssumption
<1> QED
  BY <1>2 DEF PacketsAccounted

(* A worker's step keeps the account: a packet it takes is one it expects  *)
(* no more or a read it issues next.                                       *)
LEMMA AccountWorker ==
  ASSUME LoopInv, LoopInv', FiniteReads, FiniteReads', ReadOnce, PacketsAccounted,
         process = "running", process' # "terminated",
         NEW w \in Workers, WorkerStep(w), [Next]_vars,
         IssueNextRead(w) => NewContextIndex(w) \notin requested
  PROVE  PacketsAccounted'
<1> DEFINE i == Cardinality(inflight)   i1 == Cardinality(inflight')
           p == Cardinality(port)       p1 == Cardinality(port')
           r == Cardinality(Reissuing)  r1 == Cardinality(Reissuing')
           e == Cardinality(Expecting)  e1 == Cardinality(Expecting')
           l == Cardinality(Lost)       l1 == Cardinality(Lost')
           x == ToIssue                 x1 == ToIssue'
           Kept == e1 + i + p + r + x + l <= e + i1 + p1 + r1 + x1 + l1
<1>1. /\ i \in Nat /\ p \in Nat /\ r \in Nat /\ e \in Nat /\ l \in Nat /\ x \in Int
      /\ i1 \in Nat /\ p1 \in Nat /\ r1 \in Nat /\ e1 \in Nat /\ l1 \in Nat /\ x1 \in Int
  BY AccountTypes
<1>2. /\ IsFiniteSet(Reissuing') /\ IsFiniteSet(Expecting) /\ IsFiniteSet(Lost')
      /\ IsFiniteSet(port')
  BY AccountTypes DEF FiniteReads, FinitePackets
<1>3. x1 = x
  <2>1. index' = index /\ step'[Main] = step[Main]
    BY WorkerFrame, Constants DEF LoopInv
  <2> QED
    BY <2>1 DEF ToIssue
<1>4. e1 <= e
  BY <1>2, WorkerExpected, SubsetCard
<1>5. Kept => PacketsAccounted'
  BY AccountFrom
<1>6. CASE IssueNextRead(w)
  <2>1. Read(w, NewContextIndex(w)) /\ process' = process
    BY <1>6 DEF IssueNextRead, Read
  <2>2. p1 = p /\ i + l + 1 <= i1 + l1
    BY <1>6, <2>1, ReadAccounted
  <2>3. r <= r1 + 1
    <3>1. Reissuing \subseteq Reissuing' \cup {w}
      BY WorkerReissues
    <3> QED
      BY <1>2, <3>1, OneMoreCard
  <2>4. Kept
    <3> HIDE DEF i, p, r, e, l, x, i1, p1, r1, e1, l1, x1
    <3> QED
      BY <1>1, <1>3, <1>4, <2>2, <2>3
  <2> QED
    BY <1>5, <2>4
<1>7. CASE ~IssueNextRead(w)
  <2>1. r <= r1
    BY <1>2, <1>7, WorkerReissues, SubsetCard
  <2>2. l <= l1
    <3>1. ~IssueInitialRead /\ \A u \in Workers : ~IssueNextRead(u)
      <4>1. ASSUME NEW u \in Workers, IssueNextRead(u)
            PROVE  FALSE
        <5>1. u # w /\ step[u] = "read" /\ step'[u] = "post"
          BY <1>7, <4>1, Constants
          DEF IssueNextRead, At, Enter, LoopInv, TypeInv, TypeOK
        <5> QED
          BY <5>1, WorkerFrame, Constants DEF LoopInv
      <4>2. ASSUME IssueInitialRead
            PROVE  FALSE
        <5>1. index' = index + 1 /\ index \in Nat
          BY <4>2 DEF IssueInitialRead, LoopInv, TypeInv, TypeOK
        <5> QED
          BY <5>1, WorkerFrame DEF LoopInv
      <4> QED
        BY <4>1, <4>2
    <3> QED
      BY <1>2, <3>1, NothingFound, SubsetCard
  <2>3. CASE Dequeue(w)
    <3>1. i1 = i /\ p <= p1 + 1
      <4>1. PICK a \in port : port' = port \ {a}
        BY <2>3 DEF Dequeue
      <4>2. inflight' = inflight
        BY <2>3 DEF Dequeue
      <4>3. port \subseteq port' \cup {a}
        BY <4>1
      <4> QED
        BY <1>2, <4>2, <4>3, OneMoreCard
    <3>2. CASE step'[w] = "read"
      <4>1. r + 1 <= r1
        <5>1. w \in Reissuing' /\ Reissuing \subseteq Reissuing' \ {w}
          BY <1>7, <2>3, <3>2, WorkerReissues
        <5> QED
          BY <1>2, <5>1, LessOneCard
      <4>2. Kept
        <5> HIDE DEF i, p, r, e, l, x, i1, p1, r1, e1, l1, x1
        <5> QED
          BY <1>1, <1>3, <1>4, <2>2, <3>1, <4>1
      <4> QED
        BY <1>5, <4>2
    <3>3. CASE step'[w] # "read"
      <4>1. e1 + 1 <= e
        <5>1. w \in Expecting /\ Expecting' \subseteq Expecting \ {w}
          BY <2>3, <3>3, WorkerExpected
        <5> QED
          BY <1>2, <5>1, LessOneCard
      <4>2. Kept
        <5> HIDE DEF i, p, r, e, l, x, i1, p1, r1, e1, l1, x1
        <5> QED
          BY <1>1, <1>3, <2>1, <2>2, <3>1, <4>1
      <4> QED
        BY <1>5, <4>2
    <3> QED
      BY <3>2, <3>3
  <2>4. CASE ~Dequeue(w)
    <3>1. i1 = i /\ p1 = p
      <4>1. inflight' = inflight /\ port' = port
        BY <1>7, <2>4
        DEF WorkerStep, Loop, PostNextTask, NotifyMain, Add, FinishAdd, Return, ioVars
      <4> QED
        BY <4>1
    <3>2. Kept
      <4> HIDE DEF i, p, r, e, l, x, i1, p1, r1, e1, l1, x1
      <4> QED
        BY <1>1, <1>3, <1>4, <2>1, <2>2, <3>1
    <3> QED
      BY <1>5, <3>2
  <2> QED
    BY <2>3, <2>4
<1> QED
  BY <1>6, <1>7

(* main's step keeps the account: a read it issues it need not issue again. *)
LEMMA AccountMain ==
  ASSUME LoopInv, LoopInv', FiniteReads, FiniteReads', ReadOnce, PacketsAccounted,
         process = "running", process' # "terminated", MainStep, [Next]_vars,
         IssueInitialRead => index \notin requested
  PROVE  PacketsAccounted'
<1> DEFINE i == Cardinality(inflight)   i1 == Cardinality(inflight')
           p == Cardinality(port)       p1 == Cardinality(port')
           r == Cardinality(Reissuing)  r1 == Cardinality(Reissuing')
           e == Cardinality(Expecting)  e1 == Cardinality(Expecting')
           l == Cardinality(Lost)       l1 == Cardinality(Lost')
           x == ToIssue                 x1 == ToIssue'
           Kept == e1 + i + p + r + x + l <= e + i1 + p1 + r1 + x1 + l1
<1>1. /\ i \in Nat /\ p \in Nat /\ r \in Nat /\ e \in Nat /\ l \in Nat /\ x \in Int
      /\ i1 \in Nat /\ p1 \in Nat /\ r1 \in Nat /\ e1 \in Nat /\ l1 \in Nat /\ x1 \in Int
  BY AccountTypes
<1>2. IsFiniteSet(Expecting) /\ IsFiniteSet(Lost')
  BY AccountTypes
<1>3. r1 = r
  <2>1. Reissuing' = Reissuing
    BY MainFrame DEF LoopInv, Reissuing, At
  <2> QED
    BY <2>1
<1>4. e1 <= e
  <2>1. Expecting' \subseteq Expecting
    BY MainUnfinished DEF LoopInv, Expecting
  <2> QED
    BY <1>2, <2>1, SubsetCard
<1>5. Kept => PacketsAccounted'
  BY AccountFrom
<1>6. CASE IssueInitialRead
  <2>1. Read(Main, index) /\ process' = process
    BY <1>6 DEF IssueInitialRead, Read
  <2>2. p1 = p /\ i + l + 1 <= i1 + l1
    BY <1>6, <2>1, ReadAccounted
  <2>3. x1 = x - 1
    BY <1>6, MainToIssue
  <2>4. Kept
    <3> HIDE DEF i, p, r, e, l, x, i1, p1, r1, e1, l1, x1
    <3> QED
      BY <1>1, <1>3, <1>4, <2>2, <2>3
  <2> QED
    BY <1>5, <2>4
<1>7. CASE ~IssueInitialRead
  <2>1. x1 = x
    BY <1>7, MainToIssue
  <2>2. UNCHANGED <<inflight, port, requested, isComplete>>
    BY <1>7
    DEF MainStep, AddInitialTask, InitialTaskAdded, InitialTaskNotAdded,
        NextPhase, Loop, RunFinished, FinishShutdown, Return, LeaveLoop,
        ShutdownWorker, Join, PrintResults, ioVars
  <2>3. i1 = i /\ p1 = p /\ l1 = l
    <3>1. Lost' = Lost
      BY <2>2 DEF Lost
    <3> QED
      BY <2>2, <3>1
  <2>4. Kept
    <3> HIDE DEF i, p, r, e, l, x, i1, p1, r1, e1, l1, x1
    <3> QED
      BY <1>1, <1>3, <1>4, <2>1, <2>3
  <2> QED
    BY <1>5, <2>4
<1> QED
  BY <1>6, <1>7

(* The kernel's step moves a packet from the reads in flight to the port.  *)
LEMMA AccountKernel ==
  ASSUME LoopInv, LoopInv', FiniteReads, FiniteReads', ReadOnce, PacketsAccounted,
         NEW a \in inflight, CompleteRead(a), [Next]_vars
  PROVE  PacketsAccounted'
<1> DEFINE i == Cardinality(inflight)   i1 == Cardinality(inflight')
           p == Cardinality(port)       p1 == Cardinality(port')
           r == Cardinality(Reissuing)
           e == Cardinality(Expecting)
           l == Cardinality(Lost)
           x == ToIssue
<1>1. /\ i \in Nat /\ p \in Nat /\ r \in Nat /\ e \in Nat /\ l \in Nat /\ x \in Int
      /\ i1 \in Nat /\ p1 \in Nat
  BY AccountTypes
<1>2. inflight' = inflight \ {a} /\ port' = port \cup {a}
      /\ requested' = requested /\ isComplete' = isComplete
  BY DEF CompleteRead
<1>3. i <= i1 + 1
  <2>1. inflight \subseteq inflight' \cup {a}
    BY <1>2
  <2> QED
    BY <2>1, OneMoreCard DEF FiniteReads, FinitePackets
<1>4. p + 1 <= p1
  <2>1. a \in port' /\ port \subseteq port' \ {a}
    BY <1>2 DEF ReadOnce
  <2> QED
    BY <2>1, LessOneCard DEF FiniteReads, FinitePackets
<1>5. Lost' = Lost
  BY <1>2 DEF Lost
<1>6. Reissuing' = Reissuing /\ Expecting' = Expecting /\ ToIssue' = ToIssue
  BY DEF CompleteRead, queueVars, Reissuing, Expecting, ExpectsPacket, At, ToIssue
<1>7. e + i + p + r + x + l <= e + i1 + p1 + r + x + l
  <2> HIDE DEF i, p, r, e, l, x, i1, p1
  <2> QED
    BY <1>1, <1>3, <1>4
<1> QED
  BY <1>5, <1>6, <1>7, AccountFrom

(* Every step keeps the account, as no context is read twice.              *)
LEMMA AccountStep ==
  ASSUME IndInv, IndInv', EnoughReadsIssued, FiniteReads, FiniteReads', PacketsAccounted,
         ChainReads, ReadOnce, [Next]_vars, process' # "terminated"
  PROVE  PacketsAccounted'
<1>1. LoopInv /\ LoopInv'
  BY IndInvParts DEF IndInv, LoopInv, TypeInv, Control
<1>2. ASSUME process = "running", NEW w \in Workers, WorkerStep(w)
      PROVE  PacketsAccounted'
  <2>1. IssueNextRead(w) => NewContextIndex(w) \notin requested
    BY <1>2, NewReads, Constants
  <2> QED
    BY <1>1, <1>2, <2>1, AccountWorker
<1>3. CASE process = "running" /\ MainStep
  <2>1. IssueInitialRead => index \notin requested
    BY <1>3, NewReads, Constants
  <2> QED
    BY <1>1, <1>3, <2>1, AccountMain
<1>4. ASSUME NEW a \in inflight, CompleteRead(a)
      PROVE  PacketsAccounted'
  BY <1>1, <1>4, AccountKernel
<1>5. CASE UNCHANGED vars
  <2>1. /\ inflight' = inflight /\ port' = port
        /\ Lost' = Lost /\ Reissuing' = Reissuing /\ Expecting' = Expecting
        /\ ToIssue' = ToIssue
    BY <1>5
    DEF vars, queueVars, ioVars, Lost, Reissuing, Expecting, ExpectsPacket, At, ToIssue
  <2> QED
    BY <2>1 DEF PacketsAccounted
<1> QED
  BY <1>2, <1>3, <1>4, <1>5 DEF Next

(* Every step requests finitely many reads. *)
LEMMA RequestedStep ==
  ASSUME IsFiniteSet(requested), [Next]_vars
  PROVE  IsFiniteSet(requested')
<1>1. CASE requested' = requested
  BY <1>1
<1>2. ASSUME NEW t, NEW c, Read(t, c)
      PROVE  IsFiniteSet(requested')
  BY <1>2, FS_AddElement DEF Read
<1>3. CASE IssueInitialRead \/ \E w \in Workers : IssueNextRead(w)
  BY <1>2, <1>3 DEF IssueInitialRead, IssueNextRead
<1> QED
  BY <1>1, <1>3, NothingFound

-----------------------------------------------------------------------------
(* Deadlock.                                                               *)

(* The account holds initially: as many initial reads as there are chains, *)
(* and more.                                                               *)
LEMMA HangInit == Init => HangInv
<1> SUFFICES ASSUME Init
             PROVE  HangInv
  OBVIOUS
<1>1. /\ inflight = {} /\ port = {} /\ requested = {} /\ parked = {}
      /\ step[Main] = "addTasks" /\ index = 0 /\ completed = 0
      /\ \A w \in Workers : pc[w] = "idle"
      /\ ~shuttingDown[Main]
  BY Constants DEF Init, QueueInit
<1>2. Expecting = Workers /\ Unfinished = Workers
  <2>1. \A w \in Workers : ExpectsPacket(w)
    BY <1>1, Constants DEF ExpectsPacket
  <2> QED
    BY <2>1 DEF Expecting, Unfinished
<1>3. Reissuing = {} /\ Lost = {} /\ ToIssue = QueueDepth /\ Sent = 0
  BY <1>1, Constants DEF Reissuing, At, Lost, ToIssue, Sent, Init, QueueInit
<1>4. Cardinality(Workers) = ThreadCount
  BY Constants
<1>5. Cardinality({}) = 0 /\ IsFiniteSet({})
  BY FS_EmptySet
<1>6. Leaving
  BY <1>1 DEF Leaving
<1>7. FinishedAccounted
  BY <1>1, <1>2, <1>3, <1>4, SizesAssumption DEF FinishedAccounted
<1>8. PacketsAccounted
  BY <1>1, <1>2, <1>3, <1>4, <1>5, SizesAssumption DEF PacketsAccounted
<1> QED
  BY <1>1, <1>5, <1>6, <1>7, <1>8 DEF HangInv

(* Every step keeps what deadlock freedom rests on.                        *)
LEMMA HangStep ==
  ASSUME IndInv, IndInv', HangInv, ThreadCount \in 1 .. QueueDepth => PlanInv,
         [Next]_vars
  PROVE  HangInv'
<1>1. LoopInv /\ LoopInv' /\ FinitePackets /\ FinitePackets'
  BY IndInvParts DEF IndInv, LoopInv, TypeInv, Control, FinitePackets
<1>2. Leaving'
  BY <1>1, LeavingStep DEF HangInv
<1>3. IsFiniteSet(requested) /\ IsFiniteSet(requested')
  BY RequestedStep DEF HangInv
<1>4. ASSUME process' # "terminated"
      PROVE  process # "terminated"
  BY <1>4 DEF Next, vars
<1>5. process' # "terminated" => FinishedAccounted'
  BY <1>1, <1>4, FinishedAccountedStep DEF HangInv
<1>6. ASSUME process' # "terminated", ThreadCount \in 1 .. QueueDepth
      PROVE  PacketsAccounted'
  <2>1. EnoughReadsIssued
    BY <1>6, SizesAssumption DEF EnoughReadsIssued
  <2>2. PacketsAccounted /\ ChainReads /\ ReadOnce
    BY <1>4, <1>6 DEF HangInv, PlanInv
  <2>3. FiniteReads /\ FiniteReads'
    BY <1>1, <1>3 DEF FiniteReads
  <2> QED
    BY <1>6, <2>1, <2>2, <2>3, AccountStep
<1> QED
  BY <1>2, <1>3, <1>5, <1>6 DEF HangInv

(* Packets, Finished and parked threads are accounted for in every state,  *)
(* for every number of threads and reads, whatever calls fail.             *)
THEOREM NothingMissing == Spec => []HangInv
<1> DEFINE Plan1 == ThreadCount \in 1 .. QueueDepth => PlanInv
<1>1. Spec => []Plan1
  <2>1. CASE ThreadCount \in 1 .. QueueDepth
    <3>1. EnoughReadsIssued
      BY <2>1, SizesAssumption DEF EnoughReadsIssued
    <3>2. Spec => []PlanInv
      BY <3>1, ChainsFollowPlan
    <3>3. PlanInv => Plan1
      OBVIOUS
    <3> QED
      BY <3>2, <3>3, PTL
  <2>2. CASE ThreadCount \notin 1 .. QueueDepth
    <3>1. Plan1
      BY <2>2
    <3> QED
      BY <3>1, PTL
  <2> QED
    BY <2>1, <2>2
<1>2. IndInv /\ IndInv' /\ Plan1 /\ HangInv /\ [Next]_vars => HangInv'
  BY HangStep
<1> HIDE DEF Plan1
<1> QED
  BY <1>1, <1>2, HangInit, Invariance, PTL DEF Spec

(* A worker that waits for a packet when there is none, with every other   *)
(* thread stopped and as many initial reads as threads, waits for one that *)
(* has been lost.                                                          *)
LEMMA StarvedByLoss ==
  ASSUME LoopInv, FiniteReads, PacketsAccounted, ThreadCount \in 1 .. QueueDepth,
         inflight = {}, port = {}, Reissuing = {}, Expecting # {}, ToIssue = 0
  PROVE  Lost # {}
<1> DEFINE e == Cardinality(Expecting)
           l == Cardinality(Lost)
<1>1. e \in Nat /\ e # 0 /\ l \in Nat
  BY WorkerSubsets, LostFinite, FS_EmptySet DEF FiniteReads
<1>2. Cardinality({}) = 0
  BY FS_EmptySet
<1>3. QueueDepth + e <= ThreadCount + 0 + 0 + 0 + 0 + l
  BY <1>2 DEF PacketsAccounted
<1>4. l # 0
  <2> HIDE DEF e, l
  <2> QED
    BY <1>1, <1>3, SizesAssumption
<1> QED
  BY <1>2, <1>4

(* A lost read was refused or is past the contexts. *)
LEMMA LossHasCause ==
  ASSUME Lost # {}
  PROVE  Refused # {} \/ ~(requested \subseteq Contexts)
  BY DEF Lost, Refused

(* main in its wait is in its loop, with its queue open and empty, unless  *)
(* it sleeps with work.                                                    *)
LEMMA MainParked ==
  ASSUME LoopInv, Leaving, Main \in parked, ~Locked(Main), ~AsleepWithWork(Main)
  PROVE  /\ step[Main] = "loop" /\ pc[Main] = "waiting"
         /\ ~shuttingDown[Main] /\ queue[Main] = <<>>
         /\ \A w \in Workers : ~shuttingDown[w] /\ pc[w] # "exited"
<1>1. pc[Main] = "waiting"
  BY DEF Leaving
<1>2. step[Main] = "loop"
  BY <1>1 DEF LoopInv, TypeInv, TypeOK, MainSteps, Control, MainControl
<1>3. ~shuttingDown[Main] /\ queue[Main] = <<>>
  BY DEF AsleepWithWork
<1>4. \A w \in Workers : ~shuttingDown[w] /\ pc[w] # "exited"
  BY <1>2 DEF LoopInv, Control, WorkerControl
<1> QED
  BY <1>1, <1>2, <1>3, <1>4

(* With main in its wait, a worker waits for a packet: were all parked,    *)
(* every Finished had been counted, and main told to leave.                *)
LEMMA SomeoneStarves ==
  ASSUME IndInv, HangInv, Stuck, ThreadCount > 0, Main \in parked,
         \A t \in Threads : ~AsleepWithWork(t)
  PROVE  \E w \in Workers : At(w, "dequeue") /\ port = {}
<1> SUFFICES ASSUME \A w \in Workers : ~(At(w, "dequeue") /\ port = {})
             PROVE  FALSE
  OBVIOUS
<1>1. LoopInv /\ Leaving /\ FinishedAccounted
  BY IndInvParts DEF HangInv, Stuck
<1>2. /\ step[Main] = "loop" /\ pc[Main] = "waiting"
      /\ ~shuttingDown[Main] /\ queue[Main] = <<>>
      /\ \A w \in Workers : ~shuttingDown[w] /\ pc[w] # "exited"
  BY <1>1, MainParked, Constants DEF Stuck
<1>3. \A w \in Workers : pc[w] = "waiting" /\ queue[w] = <<>>
  BY <1>1, <1>2, Constants DEF Stuck, Leaving, AsleepWithWork
<1>4. Unfinished = {}
  BY <1>2, <1>3 DEF Unfinished, ExpectsPacket, At
<1>5. Sent = completed /\ completed \in Nat
  <2>1. Len(queue[Main]) = 0 /\ ~At(Main, "loop") /\ completed \in Nat
    BY <1>1, <1>2 DEF At, LoopInv, TypeInv, TypeOK
  <2> QED
    BY <2>1 DEF Sent
<1>6. Cardinality(Unfinished) = 0
  BY <1>4, FS_EmptySet
<1>7. completed = ThreadCount
  <2>1. ThreadCount <= completed + 0
    BY <1>1, <1>2, <1>5, <1>6 DEF FinishedAccounted
  <2>2. completed <= ThreadCount
    BY <1>1, LastFinished DEF LoopInv
  <2> QED
    BY <1>5, <2>1, <2>2, SizesAssumption
<1> QED
  BY <1>1, <1>2, <1>7 DEF FinishedAccounted

(* When main joins, a worker still there is parked although it was told to *)
(* leave.                                                                  *)
LEMMA JoinedAsleep ==
  ASSUME IndInv, HangInv, Stuck, step[Main] = "join",
         NEW w \in Workers, pc[w] # "exited"
  PROVE  AsleepWithWork(w)
<1>1. LoopInv /\ Leaving
  BY IndInvParts DEF HangInv
<1>2. shuttingDown[Main]
  BY <1>1 DEF LoopInv, Control, MainControl
<1>3. Unfinished = {}
  BY <1>1, <1>2, LastFinished DEF LoopInv
<1>4. ~At(w, "dequeue")
  BY <1>3 DEF Unfinished, ExpectsPacket
<1>5. w \in parked /\ ~Locked(w)
  BY <1>4, Constants DEF Stuck
<1>6. shuttingDown[w]
  BY <1>1 DEF Leaving
<1> QED
  BY <1>5, <1>6 DEF AsleepWithWork

(* No deadlock without a cause: for every number of threads, buffer and    *)
(* file size and queue depth, and with every event call, wait and ReadFile *)
(* free to fail, the threads all stand still only after a lost wakeup, a   *)
(* refused read or a read past contexts_, or for want of threads or of     *)
(* initial reads.                                                          *)
THEOREM DeadlocksHaveCauses == Spec => []StuckHasCause
<1>1. ASSUME IndInv, HangInv, Stuck, ThreadCount \in 1 .. QueueDepth,
             \A t \in Threads : ~AsleepWithWork(t)
      PROVE  Refused # {} \/ ~(requested \subseteq Contexts)
  <2>1. LoopInv /\ FinitePackets /\ Leaving
    BY <1>1, IndInvParts DEF HangInv
  <2>2. FiniteReads /\ PacketsAccounted
    BY <1>1, <2>1 DEF HangInv, FiniteReads, Stuck
  <2>3. Main \in parked
    BY <1>1, JoinedAsleep, Constants DEF Stuck
  <2>4. PICK w \in Workers : At(w, "dequeue") /\ port = {}
    BY <1>1, <2>3, SomeoneStarves, SizesAssumption
  <2>5. Expecting # {}
    BY <2>4 DEF Expecting, ExpectsPacket
  <2>6. ToIssue = 0
    BY <1>1, <2>1, <2>3, MainParked, Constants DEF Stuck, ToIssue
  <2>7. Reissuing = {}
    BY <1>1, <2>1 DEF Stuck, Leaving, Reissuing, At
  <2>8. Lost # {}
    BY <1>1, <2>1, <2>2, <2>4, <2>5, <2>6, <2>7, StarvedByLoss DEF Stuck
  <2> QED
    BY <2>8, LossHasCause
<1>2. IndInv /\ HangInv => StuckHasCause
  <2> SUFFICES ASSUME IndInv, HangInv, Stuck, ThreadCount # 0, ~(QueueDepth < ThreadCount),
                      \A t \in Threads : ~AsleepWithWork(t)
               PROVE  Refused # {} \/ ~(requested \subseteq Contexts)
    BY DEF StuckHasCause
  <2>1. ThreadCount \in 1 .. QueueDepth
    BY SizesAssumption
  <2> QED
    BY <1>1, <2>1
<1> QED
  BY <1>2, Invariance, NothingMissing, PTL

=============================================================================

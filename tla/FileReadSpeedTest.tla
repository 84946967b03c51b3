--------------------------- MODULE FileReadSpeedTest ---------------------------
(***************************************************************************)
(* The measuring phase of the program: main (Code/EntryPoint.cpp, from the *)
(* posting of the initial tasks to the end), the task threads of the pool, *)
(* OverlappedIOFileReadTask and Finished, over the task queues of          *)
(* TaskQueue and an I/O completion port.                                   *)
(*                                                                         *)
(* Each worker drives one CHAIN of reads.  A task of the chain takes a     *)
(* completion packet from the port shared by all, ANY packet, and then     *)
(* issues the chain's next read and posts the chain's next task to its own *)
(* queue; past the end of the file it posts Finished to main instead.      *)
(***************************************************************************)
EXTENDS TaskQueue, Integers, FiniteSets

CONSTANTS
  ThreadCount,  \* task threads in the pool
  QueueDepth,   \* reads that main issues to start with
  BufferSize,   \* bytes per read
  FileSize      \* bytes in the file; Faults may now hold "ReadFile" as well

ASSUME SizesAssumption ==
  /\ ThreadCount \in Nat
  /\ QueueDepth \in Nat
  /\ BufferSize \in Nat \ {0}
  /\ FileSize \in Nat

Workers == 0 .. ThreadCount - 1

\* main is told apart from the workers by a number that indexes none of them.
Main == -1

ASSUME ThreadsAssumption ==
  /\ Runners = Workers \cup {Main}
  /\ Clients = {}

VARIABLES
  step,        \* [thread -> where it is in the program's own code]
  index,       \* main's loop counter
  completed,   \* completed_threads
  inflight,    \* reads the kernel is executing
  port,        \* completion packets nobody has taken yet
  requested,   \* context indices that Read was called with
  isComplete,  \* contexts whose is_complete_ and completion time are set
  memory,      \* contexts whose buffer is allocated
  process      \* "running", "returned" from main, or "terminated"

ioVars == <<inflight, port, requested, isComplete, memory>>

vars == <<queueVars, step, index, completed, ioVars, process>>

-----------------------------------------------------------------------------
(* The file, cut into contexts.                                            *)

ContextCount == (FileSize + BufferSize - 1) \div BufferSize

Contexts == 0 .. ContextCount - 1

ReadInterval == QueueDepth * BufferSize

PastEnd_OldOffset(offset) == offset > FileSize

PastEnd_OneBufferOn(offset) == offset + BufferSize > FileSize

PastEnd_OneBufferShort(offset) == offset + ReadInterval + BufferSize > FileSize

\* GetNewReadOffset returns nullopt.
PastEnd(offset) == offset + ReadInterval > FileSize

ReadTask(c, o) == [kind |-> "Read", ctx |-> c, offset |-> o]

ReadTasks == [kind : {"Read"}, ctx : Nat, offset : Nat]

Finished == [kind |-> "Finished"]

Tasks == ReadTasks \cup {Finished}

ASSUME NoneAssumption == None \notin Tasks /\ None \notin [queue : Threads, task : Tasks]

\* A read request is told apart by the thread that issued it: two threads may
\* use one context at a time.
Requests == [ctx : Nat, by : Threads]

-----------------------------------------------------------------------------
MainSteps ==
  {"addTasks", "issue", "loop", "return", "shutdown", "join", "print"}

WorkerSteps ==
  {"dequeue", "read", "post", "notify", "posting", "return"}

TypeOK ==
  /\ QueueTypeOK(Tasks)
  /\ \A w \in Workers : queue[w] \in Seq(ReadTasks)
  /\ queue[Main] \in Seq({Finished})
  /\ step \in [Threads -> MainSteps \cup WorkerSteps]
  /\ step[Main] \in MainSteps
  /\ \A w \in Workers : step[w] \in WorkerSteps
  /\ index \in Nat
  /\ completed \in Nat
  /\ inflight \subseteq Requests
  /\ port \subseteq Requests
  /\ requested \subseteq Nat
  /\ isComplete \subseteq Contexts
  /\ memory \subseteq Contexts
  /\ process \in {"running", "returned", "terminated"}

\* The pool exists, the file is open, its contexts are made; main is about to
\* post the first task.  A worker thread may not have entered its loop yet.
Init ==
  /\ QueueInit
  /\ step = [t \in Threads |-> IF t = Main THEN "addTasks" ELSE "dequeue"]
  /\ index = 0
  /\ completed = 0
  /\ inflight = {}
  /\ port = {}
  /\ requested = {}
  /\ isComplete = {}
  /\ memory = Contexts
  /\ process = "running"

Enter(t, s) == step' = [step EXCEPT ![t] = s]

-----------------------------------------------------------------------------
(* OverlappedIOFileRead::Read and the kernel.                              *)

\* Read(c) by thread t.  Its ReadFile may be refused, which Read ignores: no
\* packet will come.  With c past contexts_ the behaviour is undefined: the
\* call may still be accepted, be refused, or bring the process down.
Read(t, c) ==
  /\ requested' = requested \cup {c}
  /\ \/ /\ inflight' = inflight \cup {[ctx |-> c, by |-> t]}
        /\ UNCHANGED process
     \/ /\ "ReadFile" \in Faults \/ c \notin Contexts
        /\ UNCHANGED <<inflight, process>>
     \/ /\ c \notin Contexts
        /\ process' = "terminated"
        /\ UNCHANGED inflight
  /\ UNCHANGED <<port, isComplete, memory>>

\* The kernel finishes a read, in any order, and queues its packet.
CompleteRead(r) ==
  /\ r \in inflight
  /\ inflight' = inflight \ {r}
  /\ port' = port \cup {r}
  /\ UNCHANGED <<queueVars, step, index, completed>>
  /\ UNCHANGED <<requested, isComplete, memory, process>>

-----------------------------------------------------------------------------
(* OverlappedIOFileReadTask::Run in worker w.                              *)

At(w, s) == pc[w] = "run" /\ step[w] = s

\* GetQueuedCompletionStatus hands out any packet of the port; the context it
\* points to is marked complete, and the task's OWN offset decides what next.
Dequeue(w) ==
  /\ At(w, "dequeue")
  /\ \E r \in port :
       /\ port' = port \ {r}
       /\ isComplete' = isComplete \cup ({r.ctx} \cap Contexts)
  /\ Enter(w, IF PastEnd(running[w].offset) THEN "notify" ELSE "read")
  /\ UNCHANGED <<queueVars, index, completed>>
  /\ UNCHANGED <<inflight, requested, memory, process>>

NewContextIndex_NextBuffer(w) == running[w].ctx + 1

NewContextIndex(w) == running[w].ctx + QueueDepth

IssueNextRead(w) ==
  /\ At(w, "read")
  /\ Read(w, NewContextIndex(w))
  /\ Enter(w, "post")
  /\ UNCHANGED <<queueVars, index, completed>>

\* AddTask of task k to queue q; when it is refused, Run returns.
Add(w, q, k) ==
  /\ AddTaskCheck(w, q, k)
  /\ Enter(w, IF shuttingDown[q] THEN "return" ELSE "posting")
  /\ UNCHANGED <<index, completed, ioVars, process>>

NextTask(w) == ReadTask(NewContextIndex(w), running[w].offset + ReadInterval)

PostNextTask(w) ==
  /\ At(w, "post")
  /\ Add(w, w, NextTask(w))

NotifyMain_OwnQueue(w) ==
  /\ At(w, "notify")
  /\ Add(w, w, Finished)

NotifyMain(w) ==
  /\ At(w, "notify")
  /\ Add(w, Main, Finished)

\* Whatever AddTask's locked part returns, Run returns.
FinishAdd(w) ==
  /\ At(w, "posting")
  /\ AddTaskOkay(w) \/ AddTaskCouldNotSetEvent(w)
  /\ Enter(w, "return")
  /\ UNCHANGED <<index, completed, ioVars, process>>

Return(t) ==
  /\ At(t, "return")
  /\ RunReturns(t)
  /\ Enter(t, IF t = Main THEN "loop" ELSE "dequeue")
  /\ UNCHANGED <<index, completed, ioVars, process>>

Loop(t) ==
  /\ LoopStep(t)
  /\ t = Main => step[Main] = "loop"
  /\ UNCHANGED <<step, index, completed, ioVars, process>>

WorkerStep(w) ==
  \/ Loop(w)
  \/ Dequeue(w)
  \/ IssueNextRead(w)
  \/ PostNextTask(w)
  \/ NotifyMain(w)
  \/ FinishAdd(w)
  \/ Return(w)

-----------------------------------------------------------------------------
(* main.                                                                   *)

\* Post the first task of worker `index`; after the last, start to issue.
AddInitialTask ==
  /\ step[Main] = "addTasks"
  /\ index < ThreadCount
  /\ AddTaskCheck(Main, index, ReadTask(index, index * BufferSize))
  /\ process' = IF shuttingDown[index] THEN "terminated" ELSE process
  /\ UNCHANGED <<step, index, completed, ioVars>>

InitialTaskAdded ==
  /\ step[Main] = "addTasks"
  /\ AddTaskOkay(Main)
  /\ index' = index + 1
  /\ UNCHANGED <<step, completed, ioVars, process>>

\* `return -1` with joinable threads in the pool: std::terminate.
InitialTaskNotAdded ==
  /\ step[Main] = "addTasks"
  /\ AddTaskCouldNotSetEvent(Main)
  /\ process' = "terminated"
  /\ UNCHANGED <<step, index, completed, ioVars>>

\* The end of each of main's counting loops, over 0 .. limit - 1.
NextPhase(from, limit, to) ==
  /\ step[Main] = from
  /\ index >= limit
  /\ posting[Main] = None /\ signalling[Main] = None
  /\ Enter(Main, to)
  /\ index' = 0
  /\ UNCHANGED <<queueVars, completed, ioVars, process>>

IssueInitialRead_OneTooMany ==
  /\ step[Main] = "issue"
  /\ index <= QueueDepth
  /\ Read(Main, index)
  /\ index' = index + 1
  /\ UNCHANGED <<queueVars, step, completed>>

IssueInitialRead ==
  /\ step[Main] = "issue"
  /\ index < QueueDepth
  /\ Read(Main, index)
  /\ index' = index + 1
  /\ UNCHANGED <<queueVars, step, completed>>

\* Shut down on the first Finished.
RunFinished_OnFirst ==
  /\ At(Main, "loop")
  /\ completed' = completed + 1
  /\ Shutdown(Main, Main)
  /\ Enter(Main, "return")
  /\ UNCHANGED <<index, ioVars, process>>

\* Compare before the increment.
RunFinished_OldCount ==
  /\ At(Main, "loop")
  /\ completed' = completed + 1
  /\ IF completed = ThreadCount
       THEN Shutdown(Main, Main)
       ELSE UNCHANGED queueVars
  /\ Enter(Main, "return")
  /\ UNCHANGED <<index, ioVars, process>>

\* Finished::Run, in main's TaskRunnerLoop.
RunFinished ==
  /\ At(Main, "loop")
  /\ completed' = completed + 1
  /\ IF completed + 1 = ThreadCount
       THEN Shutdown(Main, Main)
       ELSE UNCHANGED queueVars
  /\ Enter(Main, "return")
  /\ UNCHANGED <<index, ioVars, process>>

\* The SetEvent of either Shutdown.
FinishShutdown ==
  /\ ShutdownSignals(Main)
  /\ UNCHANGED <<step, index, completed, ioVars, process>>

LeaveLoop ==
  /\ step[Main] = "loop"
  /\ pc[Main] = "exited"
  /\ Enter(Main, "shutdown")
  /\ UNCHANGED <<queueVars, index, completed, ioVars, process>>

ShutdownWorker ==
  /\ step[Main] = "shutdown"
  /\ index < ThreadCount
  /\ signalling[Main] = None
  /\ Shutdown(Main, index)
  /\ index' = index + 1
  /\ UNCHANGED <<step, completed, ioVars, process>>

\* Joining the threads one by one returns when all of them have left.
Join ==
  /\ step[Main] = "join"
  /\ \A w \in Workers : pc[w] = "exited"
  /\ Enter(Main, "print")
  /\ UNCHANGED <<queueVars, index, completed, ioVars, process>>

\* PrintResults reports every context and frees its buffer; main returns 0.
PrintResults ==
  /\ step[Main] = "print"
  /\ memory' = {}
  /\ process' = "returned"
  /\ UNCHANGED <<queueVars, step, index, completed>>
  /\ UNCHANGED <<inflight, port, requested, isComplete>>

MainStep ==
  \/ AddInitialTask
  \/ InitialTaskAdded
  \/ InitialTaskNotAdded
  \/ NextPhase("addTasks", ThreadCount, "issue")
  \/ IssueInitialRead
  \/ NextPhase("issue", QueueDepth, "loop")
  \/ Loop(Main)
  \/ RunFinished
  \/ FinishShutdown
  \/ Return(Main)
  \/ LeaveLoop
  \/ ShutdownWorker
  \/ NextPhase("shutdown", ThreadCount, "join")
  \/ Join
  \/ PrintResults

-----------------------------------------------------------------------------
Next ==
  /\ process = "running"
  /\ \/ MainStep
     \/ \E w \in Workers : WorkerStep(w)
     \/ \E r \in inflight : CompleteRead(r)

Spec == Init /\ [][Next]_vars

(* Every thread that can run is scheduled, and every read the kernel has   *)
(* accepted completes.                                                     *)
Fairness ==
  /\ WF_vars(process = "running" /\ MainStep)
  /\ \A w \in Workers : WF_vars(process = "running" /\ WorkerStep(w))
  /\ WF_vars(process = "running" /\ \E r \in inflight : CompleteRead(r))

FairSpec == Spec /\ Fairness

-----------------------------------------------------------------------------
(* The chain of w is not over: a task of it exists or is about to, so w    *)
(* will come for one more completion packet.                               *)
ExpectsPacket(w) ==
  \/ step[Main] = "addTasks" /\ w >= index
  \/ queue[w] # <<>>
  \/ At(w, "dequeue") \/ At(w, "read") \/ At(w, "post")
  \/ At(w, "posting") /\ posting[w] # None /\ posting[w].queue = w

Expecting == {w \in Workers : ExpectsPacket(w)}

\* Workers that took a packet and are about to issue a read for it.
Reissuing == {w \in Workers : At(w, "read")}

\* Initial reads main has still to issue.
ToIssue ==
  CASE step[Main] = "addTasks" -> QueueDepth
    [] step[Main] = "issue"    -> QueueDepth - index
    [] OTHER                   -> 0

(* Packets and takers balance: the packets that are or will be in the port *)
(* never exceed the tasks that will take one by more than QueueDepth -     *)
(* ThreadCount.  A read refused or lost breaks the balance to one side     *)
(* only.  This is what EntryPoint.cpp's TODOs on queue depth come down to. *)
PacketBalance ==
  process # "terminated" =>
    ThreadCount + Cardinality(inflight) + Cardinality(port)
      + Cardinality(Reissuing) + ToIssue
    <= QueueDepth + Cardinality(Expecting)

(* PrintResults frees the buffers: no read may still be writing into one.  *)
BuffersOutliveReads ==
  \A r \in inflight : r.ctx \in Contexts => r.ctx \in memory

(* README: the tool "reports the time taken for each buffer to be loaded": *)
(* when main has printed, every context had its completion time set.       *)
ResultsAreLoaded == process = "returned" => Contexts \subseteq isComplete

(* Workers whose Finished main has not been sent yet. *)
Unfinished ==
  {w \in Workers :
     \/ ExpectsPacket(w)
     \/ At(w, "notify")
     \/ At(w, "posting") /\ posting[w] # None /\ posting[w].queue = Main}

(* Finished is counted once per worker, and main shuts its queue down only *)
(* on the last: nothing of any chain is left by then.                      *)
MainLeavesLast == shuttingDown[Main] => Unfinished = {} /\ completed = ThreadCount

(* A loop exits with its queue empty and nobody about to push to it: no    *)
(* task is ever abandoned by Shutdown, although AddTask reads the flag     *)
(* outside the lock and the loop reads it after TryPopTask.                *)
NoTaskAbandoned ==
  \A t \in Threads :
    pc[t] = "exited" =>
      /\ queue[t] = <<>>
      /\ \A u \in Threads : posting[u] # None => posting[u].queue # t

(* No buffer is read twice: neither two chains nor main and a chain meet   *)
(* on one context.                                                         *)
EachBufferReadOnce ==
  [][\A r \in inflight' \ inflight : r.ctx \notin requested]_vars

(* The measurement keeps the promise of ReadPlan, which knows no thread,   *)
(* queue, chain or offset: each buffer is requested once, its packet is    *)
(* taken once, and PrintResults comes when every buffer has arrived.       *)
Plan == INSTANCE ReadPlan WITH
  Buffers <- Contexts,
  reading <- {r.ctx : r \in inflight \cup port} \cap Contexts,
  loaded <- isComplete,
  reported <- process = "returned"

ImplementsReadPlan == Plan!Spec

(* Read is called for contexts that exist. *)
ReadsInBounds == requested \subseteq Contexts

(* OverlappedIOFileReadTask.cpp:59: a follow-up read is issued "because we *)
(* have more file left".                                                   *)
FollowUpHasFileLeft ==
  \A w \in Workers : At(w, "read") => running[w].offset + ReadInterval < FileSize

(* With fewer initial reads than threads, or without threads, main never   *)
(* gets to its end.                                                        *)
EndsOnlyWithEnoughReads ==
  process = "returned" => QueueDepth >= ThreadCount /\ ThreadCount > 0

(* EntryPoint.cpp:166 and 173: main waits for all tasks to be complete and *)
(* for the shutdown to complete, so that it ends.                          *)
Ends == <>(process = "returned")

(* The only way not to end is a lost wakeup: a thread parked for good in   *)
(* WaitForEvent with a task in its queue or its Shutdown called, because   *)
(* another thread's ResetEvent on the shared event came first.             *)
EndsOrLosesWakeup ==
  \/ <>(process = "returned")
  \/ <>[](\E t \in Threads : AsleepWithWork(t))

(* A task waits for a packet that no read will bring.                      *)
Starved ==
  /\ \E w \in Workers : At(w, "dequeue")
  /\ inflight \cup port = {}

(* Reads whose ReadFile was refused: no packet of theirs ever comes.       *)
Refused == (requested \cap Contexts) \ (isComplete \cup {r.ctx : r \in inflight \cup port})

(* Whatever calls fail, a run with as many initial reads as threads that   *)
(* goes on for ever has one of these causes: a lost wakeup; a packet       *)
(* missing because a ReadFile was refused; or a thread whose TryPopTask    *)
(* cannot reset the event and never gets at its task.  A wait that fails,  *)
(* a signal that fails without a sleeper, and a read that fails late,      *)
(* after ReadFile accepted it, hang nobody.                                *)
HangsHaveCauses ==
  \/ <>(process # "running")
  \/ <>[](\E t \in Threads : AsleepWithWork(t))
  \/ <>[](Starved /\ Refused # {})
  \/ \E t \in Threads : []<>(pc[t] = "decide" /\ queue[t] # <<>>)

-----------------------------------------------------------------------------
(* The inductive invariant.                                                *)

(* A worker's queue and loop hold read tasks, main's hold Finished.        *)
TasksOf(t) == IF t = Main THEN {Finished} ELSE ReadTasks

Kinds ==
  /\ \A t \in Threads : pc[t] = "run" => running[t] \in TasksOf(t)
  /\ \A t \in Threads :
       posting[t] # None => posting[t].task \in TasksOf(posting[t].queue)

(* Where main can be, and what it has done by then. *)
MainControl ==
  /\ step[Main] \in {"addTasks", "issue"} => pc[Main] = "idle"
  /\ step[Main] = "return" => pc[Main] = "run"
  /\ step[Main] \in {"shutdown", "join", "print"} => pc[Main] = "exited"
  /\ pc[Main] = "exited" => shuttingDown[Main]
  /\ step[Main] = "issue" => index <= QueueDepth
  /\ posting[Main] # None => /\ step[Main] = "addTasks"
                             /\ index < ThreadCount
                             /\ posting[Main].queue = index
  /\ process = "returned" => step[Main] = "print"
  /\ process # "returned" => memory = Contexts

(* Where a worker can be; only main, past its own loop, shuts it down. *)
WorkerControl ==
  \A w \in Workers :
    /\ step[w] # "dequeue" => pc[w] = "run"
    /\ step[w] = "posting" <=> posting[w] # None
    /\ posting[w] # None => posting[w].queue \in {w, Main}
    /\ shuttingDown[w] => step[Main] \in {"shutdown", "join", "print"}
    /\ pc[w] = "exited" => shuttingDown[w]

(* A chain is one task at a time: a task that runs is not joined by another *)
(* in the queue before it has posted its successor.                        *)
OneTaskPerChain ==
  \A w \in Workers :
    /\ Len(queue[w]) <= 1
    /\ pc[w] = "run" /\ step[w] # "return" => queue[w] = <<>>
    /\ process # "terminated" /\ step[Main] = "addTasks" /\ w >= index
         => queue[w] = <<>> /\ pc[w] # "run"

(* The Finished tasks sent so far: counted, in main's queue, or being run. *)
Sent == completed + Len(queue[Main]) + (IF At(Main, "loop") THEN 1 ELSE 0)

(* Every worker sends one Finished at most. *)
FinishedBound ==
  /\ Sent + Cardinality(Unfinished) <= ThreadCount
  /\ shuttingDown[Main] => completed = ThreadCount /\ completed > 0

IndInv ==
  /\ TypeOK
  /\ Kinds
  /\ IsFiniteSet(inflight)
  /\ IsFiniteSet(port)
  /\ MainControl
  /\ WorkerControl
  /\ OneTaskPerChain
  /\ FinishedBound
  /\ PacketBalance

-----------------------------------------------------------------------------
(* The inductive invariant of the plan: what has been read, chain by chain.*)

(* The task that chain w is at, wherever it is: in the queue, running, or  *)
(* on its way to the queue.  Its context has been requested.               *)
CurrentTasks(w) ==
  {queue[w][i] : i \in DOMAIN queue[w]}
    \cup (IF At(w, "dequeue") \/ At(w, "read") THEN {running[w]} ELSE {})
    \cup (IF At(w, "post") THEN {NextTask(w)} ELSE {})
    \cup {posting[t].task :
           t \in {u \in Threads : posting[u] # None /\ posting[u].queue = w}}

(* A task's offset is that of its context, however it came to be.          *)
TaskOffsets ==
  \A w \in Workers : \A k \in CurrentTasks(w) : k.offset = k.ctx * BufferSize

InChain(w, c) == c % QueueDepth = w

(* Initial reads that main has still to issue. *)
Unissued ==
  {c \in 0 .. QueueDepth - 1 :
     step[Main] = "addTasks" \/ (step[Main] = "issue" /\ c >= index)}

(* Of the contexts w, w + QueueDepth, ... chain w has covered those up to  *)
(* its current task, and when it is over all that the file has.            *)
ChainReads ==
  /\ requested \cap Unissued = {}
  /\ step[Main] = "addTasks" =>
       requested = {} /\ inflight = {} /\ port = {} /\ Reissuing = {}
  /\ \A w \in Workers :
       /\ \A k \in CurrentTasks(w) :
            /\ InChain(w, k.ctx)
            /\ \A c \in requested : InChain(w, c) => c <= k.ctx
            /\ \A c \in 0 .. k.ctx : InChain(w, c) => c \in requested \cup Unissued
       /\ ~ExpectsPacket(w) =>
            \A c \in Contexts : InChain(w, c) => c \in requested \cup Unissued

(* A context is outstanding once, and not any more when it is complete.    *)
ReadOnce ==
  /\ inflight \cap port = {}
  /\ isComplete \subseteq requested
  /\ \A r \in inflight \cup port : r.ctx \in requested \ isComplete
  /\ \A r, s \in inflight \cup port : r.ctx = s.ctx => r = s

(* A worker is about to read only when its offset is not past the end.     *)
ReadsInside == \A w \in Workers : At(w, "read") => ~PastEnd(running[w].offset)

(* What the runs of the plan rest on, with as many initial reads as there  *)
(* are threads or more.                                                    *)
PlanInv ==
  process # "terminated" =>
    /\ TaskOffsets
    /\ ChainReads
    /\ ReadOnce
    /\ ReadsInside
    /\ "ReadFile" \in Faults \/ Refused = {}

-----------------------------------------------------------------------------
(* Deadlock.  No mutex is held, the kernel has no read left, and every     *)
(* thread is in a call that blocks: a worker in WaitForMultipleObjects, in *)
(* GetQueuedCompletionStatus or gone, main in its wait or in a join.       *)
Stuck ==
  /\ process = "running"
  /\ inflight = {}
  /\ \A t \in Threads : ~Locked(t)
  /\ \A w \in Workers :
       w \in parked \/ pc[w] = "exited" \/ (At(w, "dequeue") /\ port = {})
  /\ \/ Main \in parked
     \/ step[Main] = "join" /\ \E w \in Workers : pc[w] # "exited"

(* Those are the only deadlocks: no lock, no full or empty queue and no    *)
(* order of calls stops the threads anywhere else.                         *)
StuckIsDeadlock == process = "running" => (Stuck <=> ~ENABLED Next)

(* Whatever fails and in whatever order packets come, the program stands   *)
(* still only for want of threads or of initial reads, after a lost        *)
(* wakeup, after a refused ReadFile, or after a read past the contexts.    *)
StuckHasCause ==
  Stuck =>
    \/ ThreadCount = 0 \/ QueueDepth < ThreadCount
    \/ \E t \in Threads : AsleepWithWork(t)
    \/ Refused # {}
    \/ ~(requested \subseteq Contexts)

(* Contexts requested that are neither complete nor outstanding.           *)
Lost == requested \ (isComplete \cup {r.ctx : r \in inflight \cup port})

(* PacketBalance the other way: what is missing has been lost.             *)
PacketsAccounted ==
  QueueDepth + Cardinality(Expecting)
    <= ThreadCount + Cardinality(inflight) + Cardinality(port)
         + Cardinality(Reissuing) + ToIssue + Cardinality(Lost)

(* FinishedBound the other way: every chain sends its Finished, until main *)
(* has shut its queue down, which it does on the last.                     *)
FinishedAccounted ==
  /\ ~shuttingDown[Main] => ThreadCount <= Sent + Cardinality(Unfinished)
  /\ completed = ThreadCount /\ ThreadCount > 0 => shuttingDown[Main]

(* Who can be parked, and who has been shut down when main joins.          *)
Leaving ==
  /\ \A t \in parked : pc[t] = "waiting"
  /\ step[Main] \in {"loop", "return"} => index = 0
  /\ step[Main] = "shutdown" => \A w \in Workers : w < index => shuttingDown[w]
  /\ step[Main] \in {"join", "print"} => \A w \in Workers : shuttingDown[w]

(* What StuckHasCause rests on, next to IndInv and PlanInv.                *)
HangInv ==
  /\ IsFiniteSet(requested)
  /\ Leaving
  /\ process # "terminated" => FinishedAccounted
  /\ process # "terminated" /\ ThreadCount \in 1 .. QueueDepth => PacketsAccounted

=============================================================================

# Verification of FileReadSpeedTest

TLA+ models of FileReadSpeedTest, a Windows program that reads a file with
overlapped I/O on a pool of threads and prints how long each buffer took. The
modules are translated from the sources under `src/`; line numbers below are
those of the files in `src/Code` and `src/Dependencies/max`.

## 1. The system

| Part | Source | State | Operations |
|---|---|---|---|
| Command line | `CommandLineParameters.cpp` | current node, captured options, `errno` | one transition per word, then the error checks |
| State machine library | `max/Containers/StateMachine/*` | current node index | `AttemptTransition` of machine, node, transition |
| Core selection | `GetProcessorCoreInformation.cpp`, `ThreadPool.cpp` | groups of cores, best group | walk the core records, pick a group |
| Startup and exit of main | `EntryPoint.cpp`, `OverlappedIOFileRead.cpp`, `Win32Types.cpp`, `OSAllocator.cpp` | threads, file and port handles, contexts | make the pool, open the file, choose sizes, make port and contexts, `return` |
| Task queue and loop | `max/Hardware/CPU/TaskQueue.*` | FIFO, `shutting_down_`, one event | `AddTask`, `TryPopTask`, `WaitForEvent`, `Shutdown`, `TaskRunnerLoop` |
| Measuring phase | `EntryPoint.cpp:134-190`, `OverlappedIOFileReadTask.cpp`, `OverlappedIOFileRead.cpp` | contexts, reads in flight, completion port, `completed_threads` | post and run read tasks, take packets, issue follow-up reads, count `Finished`, shut down, join, print |
| Not modelled | `WorkerThread`, `WaitForThreadsToFinish`, `RangeMatcher`, `NumberInput`, `StringInput`, `max/Testing` | | no caller in the program |

How they interact. `main` parses the command line (exit on an error), makes a
pool of threads that each run `TaskRunnerLoop` on a queue of their own, opens
the file, and makes one I/O context per buffer and a completion port. It posts
one read task to each thread, issues the first `queue_depth` reads, and then
itself runs `TaskRunnerLoop` on a main queue. A read task blocks on the
completion port until it gets **any** packet, marks that packet's context
complete, and continues its **own chain**: the next read is `queue_depth`
contexts further on. A chain past the end of the file posts `Finished` to main
instead. The last `Finished` shuts main's queue down; main leaves its loop, shuts
the workers down, joins them and prints.

What is hard here:

- **One event for all queues.** `CreateTaskQueue` names its event
  (`TaskQueue.cpp:95`), so all queues of the process signal and *reset* the same
  object.
- **Unlocked reads.** `AddTask` and the loop read `shutting_down_` outside the
  mutex, between `Shutdown`'s assignment and its `SetEvent` as well; the wait and
  its reset are outside it too.
- **Packets in any order, to any thread.** Which chain goes on is not tied to
  which read completed. Queue depth and thread count need not be equal.
- **Buffers at the end of the file**, and context indices that nobody checks.
- **Failing calls.** Nearly every Win32 call may fail; some failures are
  ignored, others `return -1` with threads running. A `ReadFile` that is refused
  sends no packet.
- **Widths.** Offsets, counts and sizes pass through `DWORD`s, and through a
  `size_t` that has 64 bits in the x64 build and 32 in the Win32 one.

What makes each part correct: the queue loses no wakeup and no task and a task
has one owner; the measuring phase reads every buffer once, ends, and ends only
after every chain; startup's handles are closed once and its contexts tile the
file, and the outcome of the process tells what is left; the command line is read as
the pairs it consists of; cores are counted once. The list of hazards, each with its line and its properties, is in
`PROJECT.json`.

## 2. Modules

| Module | Models |
|---|---|
| `Mailbox` | the promise of task queues: no event, no mutex, no loop |
| `TaskQueue` | the queue, the event, `TaskRunnerLoop`: operators and actions, no `Next` |
| `TaskQueueClients` | `TaskQueue` under arbitrary clients and tasks; refines `Mailbox` |
| `TaskQueueMutex` | the same statement by statement, with the mutex as a lock; refines `TaskQueueClients` |
| `ReadPlan` | the promise of a measurement: no threads, queues, chains or offsets |
| `FileReadSpeedTest` | the measuring phase, over `TaskQueue`; refines `ReadPlan` |
| `Startup` | main before and after the measuring phase, handle objects, widths |
| `StateMachine` | the library's visits of nodes and transitions |
| `CommandLine` | the program's machine, over an instance of `StateMachine` |
| `CoreSelection` | how many threads the pool gets by default |
| `MC*` | the values of the constants for the runs |
| `TaskQueueClientsProofs`, `TaskQueueMutexProofs`, `FileReadSpeedTestProofs`, `ReadPlanProofs`, `StartupProofs`, `CommandLineProofs`, `CoreSelectionProofs` | theorems |
| `Quotients` | lemmas on `\div` and `%`, for contexts and chains |

### Correspondence and grain

`TaskQueue`. `queue`, `shuttingDown` are indexed by queue (named by the thread
that runs it), `wakeEvent` and `parked` are **not**: they are the one named
event. A step is what a thread does to one shared object between two looks of
others. The mutex hides the queue, but neither the event nor the flag:

- `AddTaskCheck` (the look at the flag in `AddTask`), `Decide` (the look in the
  loop), `StartWait` and `EndWait` (wait, then reset) are outside it, and steps
  of their own.
- `Shutdown` is two steps, its flag and `ShutdownSignals`, with the mutex held in
  between: `Locked(q)` keeps the other critical sections of queue `q` out, while
  the unlocked looks may see the flag before the event is set.
- `AddTaskPush` and `PopTask`/`PopNothing` are one step each: they change the event
  once, and the queue, which only its mutex's holder looks at, moves with it.
  A thread of *another* queue sees only the event.

That this grain hides no interleaving is not left to argument: `TaskQueueMutex` has
the mutex as a variable and a step for every statement of the critical sections
(`LockForCall`, `Push`, `SetFlag`, `Signal`, `CallReturns` of a call; `LockToPop`, `Reset`, `Look`,
`PopReturns` of the loop), and `ImplementsTaskQueue` maps it onto `TaskQueueClients`. A call
in progress is a record in `call`: its queue, its task (`None` in `Shutdown`) and its next
statement. A push counts from its `SetEvent` on and a pop from its `ResetEvent` on: the
one statement of each section that a thread without the mutex can see. So `Arrived`
leaves out the last task of a queue while a call is between push and `SetEvent`, and
the first one once `TryPopTask` has reset the event; the other statements are stutters.

`SetEvent` on a manual-reset event releases every thread parked in the wait; a
released thread still has to reset the event, which may come arbitrarily later.
`shutting_down_` is a `volatile bool` without synchronization; it is modelled as
sequentially consistent, as the compiler and platform of the project files (MSVC,
x86/x64) make it. The set `Faults` says which event calls may fail.

`TaskQueueClients` is the use that the interface admits: `Post` and `CallShutdown` by
any thread in code of its own, `FinishPost` and `FinishShutdown` for the second
half of each call, `RunnerStep` for the loop.

`FileReadSpeedTest`. `step` is where a thread is inside the program's own code
(`pc` is where it is in `TaskRunnerLoop`). `inflight` are reads the kernel
executes, `port` packets nobody took; `CompleteRead` moves one to the other in
any order, `Dequeue` takes any. `requested`, `isComplete` and `memory` are sets
of contexts: those `Read` was called for, those with a completion time, those
whose buffer is not freed. Clock readings are reduced to that. Reading the
clock, formatting and output are left out. `Read` of a context past `contexts_`
is undefined behaviour; the model lets the call be accepted, be refused or bring
the process down. In `Run`, the read and the following `AddTask` are separate
steps, as are the two halves of `AddTask` and of `Shutdown` (`FinishShutdown`). `NextPhase` is the end of main's
counting loops.

`Startup`. One action per call that can fail and per branch. `handles` records
which C++ object holds which Win32 handle and how often each was opened and closed;
`Construct`, `MoveConstruct` and `Destroy` are the members of
`GenericHandleObject`, and `Pass`/`ReturnNew` chain them through temporaries.
`pool` counts how far main's loops over `task_threads_` are: threads started, given
their first task, shut down and joined, one action a turn, with
`PostFails` where `AddTask` is refused. `LeaveMain` destroys
main's objects: with threads still joinable the process is "terminated"
(`std::terminate`) instead of returning. `PrintContext` is a turn of
`PrintResults`, which frees the buffer it printed. Of the measuring phase only the
reads and tasks themselves are one action, `PhaseEnds`, enabled when there is a
thread and at least as many initial reads as threads (necessity:
`EndsOnlyWithEnoughReads`), or `ReadCrashes`, where a `Read` past `contexts_` is
possible (`ReadsPastContexts`) and brings the process down. `Dword` is 2^32 and
`LongLong` 2^64 in the program; `SizeT` is 2^64 in the x64 build and 2^32 in the
Win32 one, which the project files and the workflow build as well. `ReadInterval` and
`NewReadOffset` are the sums of the read tasks, the first in a `size_t` and the
second in a `LONGLONG`, to be held against the offsets that `CreateContext` computes
in a `DWORD`.

`CommandLine`, `StateMachine`. `AttemptTransition` visits the tuple of nodes from
front to back with a flag, as the pack expansion does (`Visit`, a recursive
function, so that it can be proved about). A callback takes and returns the
captured variables. `MarkersAssumption` keeps the values that stand for no node
and for the wildcard matcher apart from words and nodes. Words are opaque; `Numeral` gives the integer a word starts
with, so that overflow, sign and absence of a number are told apart. `Strtoull` has
the width of an `unsigned long long`; `ToSize` is the assignment to an
`optional<size_t>`, which keeps the number in the x64 build and loses its high bits in
the Win32 one (`SizeMax` is 2^32 - 1 there): `--thread_count 4294967296` is held as 0,
and nothing reports it.

`CoreSelection`. `cores` is the Win32 buffer walked so far, `groups` is
`core_informations`; the fields `best` and `count` are `max_efficiency` and
`max_efficiency_core_count`.

Each module with an operator named `Operation_Fault` keeps there what a
plausible bug would make of `Operation`; no specification uses them.

### Abstract specifications and refinements

`Mailbox` has boxes, senders and owners: a task is sent and accepted unless the box
is closed, arrives, is taken by the owner of the box, first come first served and
one at a time, and finished; an owner leaves only when its box is closed.
`TaskQueueClients` maps `queue` to boxes, `posting` to what is on its way, `running` to
hands, `shuttingDown` to closed boxes and the exit of the loop to `gone`; the event,
the wait, the mutex and the other points of the loop are stutters. `TaskQueueMutex`
implements `TaskQueueClients`, and through it `Mailbox`.
`ImplementsMailbox` is checked, and proved, with several queues on the shared
event and every event call free to fail: the shared event costs liveness, never
order, ownership or acceptance.

`ReadPlan` requests each buffer once, lets it arrive, and reports when all have
arrived. `FileReadSpeedTest` maps the contexts of `inflight` and `port` to `reading`,
`isComplete` to `loaded`, and main's return to `reported`. `ImplementsReadPlan` is
checked and proved for the default queue depth and no refused `ReadFile`; `DeepQueue`
is what becomes of the report otherwise.

## 3. Runs

| Run | Instance | Checks | Result |
|---|---|---|---|
| `QueueSingle` | 1 queue, 2 clients, 3 tasks, no faults, fair | `TypeOK`, `NoLostWakeup`, `Signalled`, `PostedIsTaken`, `ShutdownEndsLoop` | hold |
| `QueueFaults` | `TaskQueueMutex`: 2 queues, 1 client, 2 tasks, every event call may fail, symmetric | `MutexInv`, `OneOwner`, `ImplementsTaskQueue`, `ImplementsMailbox` | hold |
| `Measure` | 2 threads, depth 2, 4 buffers, last one partial, fair | `ResultsAreLoaded`, `BuffersOutliveReads`, `ReadsInBounds`, `FollowUpHasFileLeft`, `PlanInv`, `ImplementsReadPlan`, `EachBufferReadOnce`, `EndsOrLosesWakeup` | hold |
| `MeasureFaults` | 2 threads, depth 2, 3 buffers, event calls, wait and `ReadFile` may fail, fair | `TypeOK`, `IndInv`, `MainLeavesLast`, `NoTaskAbandoned`, `StuckHasCause`, `StuckIsDeadlock`, `HangInv`, `HangsHaveCauses` | hold |
| `ShallowQueue` | 3 threads, depth 2, file size a multiple of the buffer size | `PacketBalance`, `EndsOnlyWithEnoughReads` | hold |
| `CommandLine` | every line of up to 5 words after the program's name, over 9 words, a `size_t` narrower than `unsigned long long` | `TypeOK`, `ReadsPairs`, `RangeErrorEndsParse`, `FirstErrorReported` | hold |
| `CoreSelection` | every processor of up to 4 cores, 3 efficiency classes | `TypeOK`, `GroupsPartitionCores`, `OneThreadPerCoreOfFirstBest` | hold |
| `Startup` | up to 2 threads, depths up to 15, sizes around and beyond a 3-bit `DWORD`, with a 4-bit `size_t` and a 5-bit `LONGLONG`, every call may fail | `TypeOK`, `HandlesClosedOnce`, `ContextsTileFile`, `ChainsFollowContexts`, `OutcomeTells`, `HandleInv` | hold |
| `LostWakeup` | 1 thread, depth 1, no faults, fair | `Ends` | violated |
| `PastTheEnd` | file size a multiple of the buffer size | `FollowUpHasFileLeft` | violated |
| `DeepQueue` | 1 thread, depth 2 | `ResultsAreLoaded` | violated |
| `MixedCores` | 2 cores of one efficiency class | `AsManyThreadsAsBestCores` | violated |

The four violated properties are what the repository says of itself, and the
findings in `PROJECT.json` quote the lines:

- **`LostWakeup`.** The worker, back in its loop, resets the event in
  `TryPopTask` after main found its own queue empty and before main waits; the
  `Finished` that the worker posted just before is in main's queue, its signal
  is gone, and both threads wait for ever. No call fails and every thread is
  scheduled. `Measure` shows this is the *only* way for the default
  configuration not to end (`EndsOrLosesWakeup`), and `QueueSingle` that the
  protocol itself is right when the event belongs to one queue.
- **`PastTheEnd`.** `>` for `>=` at `OverlappedIOFileRead.cpp:257`.
- **`DeepQueue`.** Each chain ends by its own offset, after one packet per task;
  the extra initial reads leave packets nobody takes. This is the cause of the
  TODO at `EntryPoint.cpp:183-185`. The TODO at line 172 is `ShallowQueue`. The
  TODO at line 167, "the Shutdown is queued up before the follow-up tasks", is
  out of date: `MainLeavesLast` and `NoTaskAbandoned` say the opposite, and both
  are proved.
- **`MixedCores`.** `ThreadPool.hpp:24` promises a thread per most efficient core;
  the code counts only the first group of them.

With faults, `HangsHaveCauses` leaves three reasons for the default configuration
to run for ever: the lost wakeup; a packet that never comes because a `ReadFile`
was refused (which a buffer size that is no multiple of the sector size brings
about, as the file is opened with `FILE_FLAG_NO_BUFFERING`); and a thread whose
`ResetEvent` fails again and again. A wait that fails, a signal that fails when
nobody sleeps, and a read that fails *after* it was accepted are not among them.

`StuckHasCause` is the same question asked of states, and so one that can be proved:
`Stuck` names the states in which every thread is in a call that blocks (a worker
parked, at the completion port with nothing under way, or gone; main parked or
joining), and such a state has a lost wakeup, a refused read, a read past
`contexts_`, no threads or fewer initial reads than threads behind it.
`StuckIsDeadlock` checks that these are the deadlocks of `Next`, no fewer and no
more: no mutex and no order of calls stops the threads anywhere else.

### Bounds, and why they are enough to be interesting

Two threads with two reads each meet every order of packets, chains of
different length (3 buffers) and both loops' waits. Three threads at depth 2 are
the least in which several packets circulate among more chains than there are
packets. Two queues and one client are the least that makes the shared event lose
a wakeup, and has three threads at one mutex; with two tasks one is pushed while
another waits, is taken or is run, as an order of arrival needs. `QueueSingle` has three. In `Startup` a `Dword` of 8 puts sizes on both sides
of the width, a `SizeT` of 16 with a depth of 15 makes the read interval wrap
for some sizes and not for others, and a `LongLong` of 32 is wider than it, as in the
Win32 build. In `CommandLine` an `UllongMax` of 7 and a `SizeMax` of 3 have numbers
that fit both, one of the two and neither, and five words are two complete
pairs and a dangling flag, so that a value after an error, a repeated option and
a missing value all occur; `MaxArguments` and `MaxCores` are the only bounds in
the guards of a specification. `CHECK_DEADLOCK FALSE` is set in every run, as each
system stops: the process returns, terminates, or all its threads wait. `QueueFaults`
alone uses symmetry, of the runners and of the tasks: its properties are safety
properties and no definition tells one runner or task from another.

### Fairness

`TaskQueueClients!Fairness`, as an operating system's scheduler gives to runnable
threads: weak fairness of `FinishShutdown`, whose thread holds the mutex and only
has to go on, and strong fairness of `FinishPost` and `RunnerStep`, which need a
mutex that others take and give back in between: a thread that wants a mutex gets
it in the end. Nobody is obliged to post or to shut down.
`FileReadSpeedTest!Fairness`: weak fairness of main and of each worker is enough,
as only main shuts queues down, each once, and so holds any mutex a bounded number
of times; and reads accepted by the kernel complete. Which of several packets a
thread gets, and which of several enabled steps of one thread happens, is left open.

### What breaks the properties

| Fault | Property it breaks |
|---|---|
| `AddTaskCheck_OwnQueue`: the task goes to the poster's queue | `QueueSingle` `TypeOK` |
| `AddTaskOkay_NoSetEvent` | `NoLostWakeup` |
| `Decide_ResetsLate`: `TryPopTask` resets after its look | `Signalled`, `PostedIsTaken` |
| `ShutdownSignals_NoSetEvent` | `ShutdownEndsLoop` |
| `Lock_DoesNotWait`: a lock that is no lock | `MutexInv` |
| `Push_Unlocks`: the guard's scope ends before `SetEvent` | `ImplementsTaskQueue` |
| `Look_LeavesFront` | `OneOwner` |
| `Look_TakesNewest` | `ImplementsMailbox` |
| `PastEnd_OneBufferShort` | `ResultsAreLoaded`, `ImplementsReadPlan` |
| `PastEnd_OldOffset`, `PastEnd_OneBufferOn` | `ReadsInBounds`, `FollowUpHasFileLeft` |
| `NewContextIndex_NextBuffer` | `EachBufferReadOnce`, `PlanInv` |
| `RunFinished_OnFirst` | `BuffersOutliveReads`, `MainLeavesLast`, `NoTaskAbandoned` |
| `RunFinished_OldCount` | `EndsOrLosesWakeup`, `HangsHaveCauses` |
| `RunFinished_OldCount` | `HangInv` |
| `WaitFails_LeavesLoop` | `StuckHasCause` |
| `EndWait_LooksAgain`: a released thread waits for the event to be set again | `StuckIsDeadlock` |
| `NotifyMain_OwnQueue` | `MeasureFaults` `TypeOK` |
| `IssueInitialRead_OneTooMany` | `IndInv`, `PacketBalance`, `EndsOnlyWithEnoughReads` |
| `ToSize_Wide`: the number keeps its width | `CommandLine` `TypeOK` |
| `AttemptTransition_EveryNode` | `ReadsPairs` |
| `ToNumber_KeepsAnyNumber` | `RangeErrorEndsParse` |
| `Unexpected_NoMessage` | `FirstErrorReported` |
| `NewGroup_Uncounted` | `CoreSelection` `TypeOK` |
| `SameGroup_EfficiencyOnly` | `GroupsPartitionCores` |
| `Better_OrAsGood` | `OneThreadPerCoreOfFirstBest` |
| `Operations_Wide` | `Startup` `TypeOK` |
| `Operations_RoundedDown` | `ContextsTileFile` |
| `ReadInterval_ByThreads` | `ChainsFollowContexts` |
| `Destroy_NotClosed`: a destructor without its `CloseHandle` | `HandlesClosedOnce` |
| `MoveConstruct_KeepsSource` | `HandleInv` |
| `AllShutDown_NotJoined` | `OutcomeTells` |

## 4. Proofs

All theorems hold for every value of the constants that meets the named
assumptions of the modules; those are the shapes of the constants
(`SizesAssumption`, `ThreadsAssumption`, `TasksAssumption`, `WidthAssumption`,
...), and every passing run evaluates those of its module. Further conditions
stand in the statement of a theorem (`ASSUME ... PROVE`).

**`TaskQueueClientsProofs`.** `TypeCorrect`. `OneRunnerLosesNoWakeup`:
with one runner and event calls that succeed, `NoLostWakeup` holds under any
clients. `NoLostWakeup` alone is not inductive: the danger is prepared between the
look at the queue and the wait. `Signalled` (`OneRunnerIsSignalled`) adds that work
which arrives in that window leaves the event set, or is a `Shutdown` still on its
way to `SetEvent`. That there is one runner is an assumption of the theorem;
`LostWakeup` shows what two do. `QueuesAreMailboxes`: every step of any number of
queues is a step or a stutter of `Mailbox`. The one invariant it needs is that a
loop holds a task exactly while it runs one. A step of
a mailbox leaves every task alone in its place (`Alone`: with one sender, in one hand,
or once in one box), and so `TasksHaveOneOwner`.

**`TaskQueueMutexProofs`.** `MutexExcludes`: `MutexInv` is inductive as it stands. It
says that the threads inside a queue's critical sections are the mutex's holder and
nobody else, for which it has to know that a runner in a call of its own is not
in `TryPopTask` (so nobody waits for one mutex with another in hand, either), and
that a pushed task is the last of its queue until its `SetEvent`.
`StatementsImplementSteps` takes the statements one by one: with `HolderAlone` (whoever
is inside is the only one to push, pop or shut down) each is one coarser step or
does not show. The theorems of `TaskQueueClientsProofs`, instantiated with the same
mapping, then hold of the statements: `StatementsAreMailboxes`, `OneOwnerInside`, and
`OneRunnerSleepsIdle`, the absence of lost wakeups in terms of the statements: a
sleeping runner's queue is empty and not shut down, unless the caller's next
statement is the `SetEvent` for it. The lemmas `Same...` there say only that the two
instances, of the model and of the module that proves about it, are the same.

**`FileReadSpeedTestProofs`.** `IndInv` is inductive (`Invariance`), and is built
in layers, each used by the next:

1. types, and `Kinds`: a worker's queue holds read tasks, main's `Finished`;
2. `MainControl`, `WorkerControl`: what each program point implies, chiefly that
   only main, past its own loop, shuts a worker down;
3. `OneTaskPerChain`: a running task finds its own queue empty;
4. `FinishedBound`: `Finished` tasks sent and chains not over are at most
   `ThreadCount`, so that the last `Finished` is the last thing any chain does;
5. `PacketBalance`: with `e` chains expecting a packet,
   `ThreadCount + inflight + port + about to be issued <= QueueDepth + e`.

From them: `MainIsLast` (4), `NothingAbandoned` (2-4, with every event call, wait
and `ReadFile` free to fail), `PacketsBalance`, and, since no chain expects a
packet when main has returned, `ThreadCount + inflight <= QueueDepth` then:
`EnoughReads` (main returns only with a thread, and with at least as many initial
reads as threads) and, for a queue depth of at most the thread count,
`NoReadIntoFreedBuffer`.

**`ReadPlanProofs`.** On top of `IndInv`, `PlanInv` says what has been read, chain
by chain, for a queue depth of at least the thread count (`EnoughReadsIssued`): a
task's offset is that of its context (`TaskOffsets`); of the contexts
`w, w + QueueDepth, ...` chain `w` has requested those up to its task, and all that
the file has when it is over (`ChainReads`); a context is outstanding once, and not
any more when it is complete (`ReadOnce`). A step of one chain disturbs no other,
because a context is in one chain only; two contexts of a chain are at least
`QueueDepth` apart (`ChainGap` of `Quotients`), so that the next one is new. From it
`ChainsFollowPlan` and `BuffersReadOnce`. With `DefaultDepth` (as many initial
reads as threads, no `ReadFile` refused) nothing is left in flight when main
returns: `ReportIsComplete`, and `MeasurementKeepsPlan`, the refinement of
`ReadPlan`. `TaskOffsets` alone gives `FollowUpsHaveFileLeft` and `ReadsStayInBounds`
for a file that does not end where a buffer ends (`FileSize % BufferSize # 0`,
without which `PastTheEnd` is the counterexample), the latter with no more initial
reads than contexts.

Deadlock (`DeadlocksHaveCauses`) needs the two counts of `IndInv` the other way
as well, together `HangInv` (`NothingMissing`):

- `PacketsAccounted`: `QueueDepth + e` is at most `ThreadCount + inflight + port`,
  plus the reads about to be issued, plus the contexts in `Lost`: requested, not complete and not outstanding.
  That a read adds a packet, and not one that is there already, is
  `ReadOnce` and the newness of each context, so this layer stands on `PlanInv`.
- `FinishedAccounted`: until main's queue is shut down each worker has a chain to
  end or has sent its `Finished`, and the last one counted shuts it down.
- `Leaving`: parked threads are in their wait, and by the time main joins every
  worker has been shut down.

With main parked and nobody asleep with work, `Finished` cannot all have been
sent, so a worker is at the completion port; there being no packet, `Lost` is not
empty. With main joining, every chain is over, and a worker still there is parked
with its `Shutdown` called: a lost wakeup. The theorem has no hypothesis; the
small depths and thread counts are among the causes.

**`StartupProofs`.** `HandleInv` gives for every program point which objects hold
the two handles, and says that each handle held was opened once and nothing is closed
before main is left. `HandlesOnce` follows: what was opened has been closed, once, on
every way out. The lemmas say what construction, move, destruction and
passing by value do to ownership, and `LeaveStep` that leaving main closes exactly
what is held.

`OutcomesTell` needs to know how far main's loops are: `ExitInv` says that no thread
has been joined before the join loop and all have after it, that nothing is printed
before, and that main has not returned until it is left. A `return -1` then has all its
threads still joinable, so it is one without threads; the `return 0` has none
(`CountFacts` is the arithmetic), and `HandleInv` gives that both handles were open
and are closed.

On contexts, `ContextInv` says of each context that it is what
`CreateIOContexts` makes of its number, truncations included, and that they are as
many as `Operations`. Sizes that a `DWORD` holds are used as they are (`Fits`), the
count is then the rounded-up quotient (`PartCount` of `Quotients`), and `ContextsTile`
finds the one context of a byte by division. `OffsetsFollowContexts` does the same
for the sums of the tasks, below the bounds on `queue_depth * buffer_size` that the
property states, for every width of `size_t` and `LONGLONG`.

**`CommandLineProofs`.** `ReadsPairs` holds for command lines of every length
(`MachineReadsPairs`) although the machine sees one word at a time. `ParseInv` adds
what carries over from word to word: after an odd number of words (the program's
name among them) the machine awaits a flag, after an even number the current node
is the one that the last word, a flag, leads to, unless an earlier word was wrong.
Under it are lemmas on the library: `FirstMatchActs` and `CurrentNodeActs` say for
tuples of every length that the visit of all transitions, or nodes, amounts to
the callback of the first that fits. They are inductions over the tuple, done as
the search for the first place where the visits go wrong (`LeastNumber`, from the
well-foundedness of `<`), since an induction rule over a predicate cannot be
instantiated here. `NoStaleRangeError`, `FirstErrorStays`. What these need of the
constants is `MarkersAssumption`, and of the widths `NumeralAssumption`: a `size_t` is
no wider than an `unsigned long long` and divides it. A number cut down to the one and
then to the other has been cut down to the narrower (`NarrowTwice` of `Quotients`),
which is how `ReadsPairs` reads it.

**`CoreSelectionProofs`.** `PoolInv` adds to the partition that groups stand in the
order of their first cores (`GroupsInOrder`), and that the walk over the groups
keeps the first of the best so far (`FirstBestSoFar`). Without the order the best
*group* could not be told to be that of the first best *core*. `CoresCountedOnce`,
`PoolSize`.

Only model-checked: all liveness (`PostedIsTaken`, `ShutdownEndsLoop`,
`EndsOrLosesWakeup`, `HangsHaveCauses`; liveness under fairness is out of the
prover's reach), which is checked of the coarser steps only, and `StuckIsDeadlock`, which speaks of `ENABLED`, as out of reach.
The invariants and action properties of all other passing runs are proved, on the
conditions that their theorems state.

## 5. Not modelled, and why

- Clock values, durations and printed text: no decision depends on them.
- The failure of an accepted read as an outcome of its own:
  `GetQueuedCompletionStatus`'s result is not looked at, so the program does not
  tell it from success, and `CompleteRead` stands for both.
- The widths of offsets in `FileReadSpeedTest`, where they are numbers. Those of the
  contexts and of the sums are in `Startup`; `ContextsTileFile` and
  `ChainsFollowContexts` say up to which sizes the two agree.
- The ownership of the buffers before the measuring phase (leaked on a failed
  `VirtualAlloc`, at the end of the process), and `CloseHandle` failing.
- That main's join loop comes to its end: `Startup` has no liveness; `FileReadSpeedTest`
  has the joins as waits for the workers, and `EndsOrLosesWakeup`.
- Code without a caller (see section 1), and `GenericHandleObject::operator=`.
- The named event as shared by two *processes* of the program.

## 6. Plan

The order was: the measuring phase first, as the program's purpose, with the queue
under it; then what surrounds it; then the promises, and the theorems. All modules
of section 2 are done. What is left:

1. `Startup` and `FileReadSpeedTest` composed, with `PhaseEnds` and `ReadCrashes`
   shown to be what the phase does. The number of threads is a constant of the one and a variable of
   the other, so it takes a `FileReadSpeedTest` parameterised by state.
2. The ownership of buffers from `VirtualAlloc` to `VirtualFree`, of which `Startup`
   has only the freeing.

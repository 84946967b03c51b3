-------------------------------- MODULE Startup --------------------------------
(***************************************************************************)
(* main from the parsed command line to the end of the process: the thread *)
(* pool, the file, the completion port and the I/O contexts are made one   *)
(* after the other, the pool is given its tasks, shut down and joined      *)
(* thread by thread, and the contexts are printed and freed.  Every Win32  *)
(* call may fail, and `return -1` destroys what exists by then.  The reads *)
(* and tasks in between are one step here; FileReadSpeedTest models them.  *)
(*                                                                         *)
(* Operators named <Operation>_<Fault> are what a plausible bug would make *)
(* of the operation after them; README.md says which property each breaks. *)
(***************************************************************************)
EXTENDS Integers, Sequences, FiniteSets

CONSTANTS
  None,          \* an option that the command line does not give
  ThreadCounts,  \* what --thread_count may give, or None
  BufferSizes,   \* what --buffer_size may give, or None
  QueueDepths,   \* what --queue_depth may give, or None
  CoreCounts,    \* what CreateThreadPool() may count
  IdealSizes,    \* what GetIdealBufferSize may find
  FileSizes,     \* what GetFileSizeEx may say
  Dword,         \* 2^32: DWORD and unsigned long hold 0 .. Dword - 1
  SizeT,         \* size_t holds 0 .. SizeT - 1: 2^32 in the Win32 build, 2^64 in the x64 one
  LongLong       \* 2^64: LONGLONG holds the signed numbers of this width

ASSUME WidthAssumption == {Dword, SizeT, LongLong} \subseteq Nat \ {0}

ASSUME OptionsAssumption ==
  /\ ThreadCounts \cup BufferSizes \cup QueueDepths \subseteq Nat \cup {None}
  /\ CoreCounts \cup IdealSizes \cup FileSizes \subseteq Nat

VARIABLES
  step,      \* what main does next
  options,   \* the SuccessAction
  pool,      \* how many threads main's loops have started, posted to, shut down, joined
  local,     \* the numbers in the locals of main and PrepareToReadFile
  contexts,  \* the I/O contexts made so far
  printed,   \* the contexts printed, whose buffers are freed by then
  handles,   \* [holds : what each C++ object holds, opened, closed : Win32 calls]
  process    \* "running", how main returned, or how it was ended

vars == <<step, options, pool, local, contexts, printed, handles, process>>

Locals == {"thread_count", "buffer_size", "queue_depth", "file_size", "operation_count"}

Assign(x, value) == local' = [local EXCEPT ![x] = value]

Counts == {"started", "posted", "shutDown", "joined"}

Started == pool["started"]

\* One turn of a loop over task_threads_, and the end of that loop.
NextThread(count) == pool[count] < Started /\ pool' = [pool EXCEPT ![count] = @ + 1]

EveryThread(count) == pool[count] = Started

-----------------------------------------------------------------------------
(* GenericHandleObject.  The objects are main's `file`, the port that      *)
(* PrepareToReadFile makes, and the two members of the OverlappedIOFileRead*)
(* that it returns; a temporary on the way is one more.                    *)
Objects == {"file", "completion_port", "read.file", "read.port", "temporary"}

Handles == {"the file", "the port"}

Invalid == "INVALID_HANDLE_VALUE"

Open(hs, handle) == [hs EXCEPT !.opened[handle] = @ + 1]

Construct(hs, object, handle) == [hs EXCEPT !.holds[object] = handle]

MoveConstruct_KeepsSource(hs, from, to) == Construct(hs, to, hs.holds[from])

\* The move constructor takes the handle and leaves the source without one.
MoveConstruct(hs, from, to) == Construct(Construct(hs, to, hs.holds[from]), from, Invalid)

Destroy_NotClosed(hs, object) == Construct(hs, object, Invalid)

\* The destructor; a destroyed object holds nothing.
Destroy(hs, object) ==
  [holds  |-> [hs.holds EXCEPT ![object] = Invalid],
   opened |-> hs.opened,
   closed |-> [h \in Handles |-> hs.closed[h] + (IF hs.holds[object] = h THEN 1 ELSE 0)]]

\* A handle object passed or returned by value: it is moved through temporary
\* objects, each destroyed once it has been moved from.
Pass(hs, from, to) ==
  Destroy(MoveConstruct(MoveConstruct(hs, from, "temporary"), "temporary", to), "temporary")

\* The object of a handle that Windows has just opened, returned by the function
\* that makes it.
ReturnNew(hs, handle, to) ==
  Destroy(MoveConstruct(Construct(Open(hs, handle), "temporary", handle), "temporary", to),
          "temporary")

-----------------------------------------------------------------------------
\* Where main has an OverlappedIOFileRead.
ReadSteps == {"mainQueue", "post", "measure", "shutdown", "join", "print"}

TypeOK ==
  /\ step \in {"pool", "threads", "open", "buffer_size", "queue_depth", "file_size", "port",
               "operation_count", "contexts", "end"} \cup ReadSteps
  /\ options \in [thread_count : ThreadCounts, buffer_size : BufferSizes,
                  queue_depth : QueueDepths]
  /\ pool \in [Counts -> Nat]
  /\ local \in [Locals -> Nat]
  /\ local["operation_count"] < Dword
  /\ contexts \in Seq([offset : 0..Dword - 1, size : 0..Dword - 1])
  /\ printed \in Nat
  /\ handles \in [holds : [Objects -> Handles \cup {Invalid}],
                  opened : [Handles -> Nat], closed : [Handles -> Nat]]
  /\ process \in {"running", "returned 0", "returned -1", "terminated", "divided by zero",
                  "crashed"}

Init ==
  /\ step = "pool"
  /\ options \in [thread_count : ThreadCounts, buffer_size : BufferSizes,
                  queue_depth : QueueDepths]
  /\ pool = [count \in Counts |-> 0]
  /\ local = [x \in Locals |-> 0]
  /\ contexts = <<>>
  /\ printed = 0
  /\ handles = [holds |-> [o \in Objects |-> Invalid],
                opened |-> [h \in Handles |-> 0], closed |-> [h \in Handles |-> 0]]
  /\ process = "running"

At(s) == process = "running" /\ step = s

Goto(s) == step' = s /\ UNCHANGED <<options, process>>

\* Leaving main: its objects are destroyed, the pool last, and a thread that
\* is still joinable in it calls std::terminate.
LeaveMain(code, handlesLeft) ==
  /\ step' = "end"
  /\ handles' = handlesLeft
  /\ process' = IF pool["joined"] < Started THEN "terminated" ELSE code
  /\ UNCHANGED <<options, pool, local, contexts, printed>>

Return(code) ==
  LeaveMain(code, Destroy(Destroy(Destroy(handles, "read.port"), "read.file"), "file"))

\* The process dies where it is.
Dies(how) ==
  process' = how /\ UNCHANGED <<step, options, pool, local, contexts, printed, handles>>

-----------------------------------------------------------------------------
(* The thread pool.                                                        *)

UseSuppliedThreadCount ==
  /\ At("pool")
  /\ options.thread_count # None
  /\ Assign("thread_count", options.thread_count)
  /\ Goto("threads")
  /\ UNCHANGED <<pool, contexts, printed, handles>>

CountCores ==
  /\ At("pool")
  /\ options.thread_count = None
  /\ \E n \in CoreCounts : Assign("thread_count", n)
  /\ Goto("threads")
  /\ UNCHANGED <<pool, contexts, printed, handles>>

StartThread ==
  /\ At("threads")
  /\ Started < local["thread_count"]
  /\ pool' = [pool EXCEPT !["started"] = @ + 1]
  /\ UNCHANGED <<step, options, local, contexts, printed, handles, process>>

\* std::thread's constructor throws, in a noexcept function.
ThreadThrows ==
  /\ At("threads")
  /\ Started < local["thread_count"]
  /\ Dies("terminated")

\* There is no core information, or the event of a thread's queue is refused:
\* main returns -1.  The threads started so far are destroyed with the vector
\* that holds them.
PoolNotCreated ==
  /\ \/ At("pool") /\ options.thread_count = None
     \/ At("threads") /\ Started < local["thread_count"]
  /\ Return("returned -1")

PoolCreated ==
  /\ At("threads")
  /\ Started = local["thread_count"]
  /\ Goto("open")
  /\ UNCHANGED <<pool, local, contexts, printed, handles>>

-----------------------------------------------------------------------------
(* The file, the buffer size and the queue depth.                          *)

OpenFile ==
  /\ At("open")
  /\ handles' = ReturnNew(handles, "the file", "file")
  /\ Goto("buffer_size")
  /\ UNCHANGED <<pool, local, contexts, printed>>

UseSuppliedBufferSize ==
  /\ At("buffer_size")
  /\ options.buffer_size # None
  /\ Assign("buffer_size", options.buffer_size)
  /\ Goto("queue_depth")
  /\ UNCHANGED <<pool, contexts, printed, handles>>

\* The page size, once the volume has answered.
GetIdealBufferSize ==
  /\ At("buffer_size")
  /\ options.buffer_size = None
  /\ \E size \in IdealSizes : Assign("buffer_size", size)
  /\ Goto("queue_depth")
  /\ UNCHANGED <<pool, contexts, printed, handles>>

ChooseQueueDepth ==
  /\ At("queue_depth")
  /\ Assign("queue_depth", IF options.queue_depth # None THEN options.queue_depth ELSE Started)
  /\ Goto("file_size")
  /\ UNCHANGED <<pool, contexts, printed, handles>>

-----------------------------------------------------------------------------
(* PrepareToReadFile.                                                      *)

GetFileSize ==
  /\ At("file_size")
  /\ \E size \in FileSizes : Assign("file_size", size)
  /\ Goto("port")
  /\ UNCHANGED <<pool, contexts, printed, handles>>

CreateCompletionPort ==
  /\ At("port")
  /\ handles' = ReturnNew(handles, "the port", "completion_port")
  /\ Goto("operation_count")
  /\ UNCHANGED <<pool, local, contexts, printed>>

\* CreateIOContexts takes the buffer size as an unsigned long.
ContextSize == local["buffer_size"] % Dword

Operations_Wide == (local["file_size"] + ContextSize - 1) \div ContextSize

Operations_RoundedDown == (local["file_size"] \div ContextSize) % Dword

Operations == ((local["file_size"] + ContextSize - 1) \div ContextSize) % Dword

CountOperations ==
  /\ At("operation_count")
  /\ ContextSize # 0
  /\ Assign("operation_count", Operations)
  /\ Goto("contexts")
  /\ UNCHANGED <<pool, contexts, printed, handles>>

DivideByZero ==
  /\ At("operation_count")
  /\ ContextSize = 0
  /\ Dies("divided by zero")

\* One turn of the loop, its VirtualAlloc granted.
CreateContext ==
  /\ At("contexts")
  /\ Len(contexts) < local["operation_count"]
  /\ contexts' = Append(contexts, [offset |-> (Len(contexts) * ContextSize) % Dword,
                                   size |-> ContextSize])
  /\ UNCHANGED <<step, options, pool, local, printed, handles, process>>

\* An error destroys the completion_port made so far, and main returns -1.
PrepareFails == LeaveMain("returned -1", Destroy(Destroy(handles, "completion_port"), "file"))

CouldNotGetFileSize == At("file_size") /\ PrepareFails

CouldNotCreateCompletionPort == At("port") /\ PrepareFails

\* A VirtualAlloc is refused; the buffers it had before are not freed.
CouldNotCreateIOContexts ==
  /\ At("contexts")
  /\ Len(contexts) < local["operation_count"]
  /\ PrepareFails

\* The handles are moved into the OverlappedIOFileRead returned; main's file
\* stays behind, and completion_port is destroyed.
Prepared ==
  /\ At("contexts")
  /\ Len(contexts) = local["operation_count"]
  /\ handles' = Destroy(Pass(Pass(handles, "file", "read.file"),
                             "completion_port", "read.port"),
                        "completion_port")
  /\ Goto("mainQueue")
  /\ UNCHANGED <<pool, local, contexts, printed>>

-----------------------------------------------------------------------------
(* The rest of main.                                                       *)

CreateMainQueue ==
  /\ At("mainQueue")
  /\ Goto("post")
  /\ UNCHANGED <<pool, local, contexts, printed, handles>>

\* AddTask, of the first read task of a thread.
PostTask ==
  /\ At("post")
  /\ NextThread("posted")
  /\ UNCHANGED <<step, options, local, contexts, printed, handles, process>>

\* AddTask is refused, with its task in the queue all the same.  main closes the
\* port on its way out, and a worker that waits there is given no context to
\* write to.
PostFails ==
  /\ At("post")
  /\ pool["posted"] < Started
  /\ Return("returned -1") \/ Dies("crashed")

TasksPosted ==
  /\ At("post")
  /\ EveryThread("posted")
  /\ Goto("measure")
  /\ UNCHANGED <<pool, local, contexts, printed, handles>>

ReadInterval_ByThreads == (Started * local["buffer_size"]) % SizeT

\* What main hands to every task as buffer_interval_in_bytes.
ReadInterval == (local["queue_depth"] * local["buffer_size"]) % SizeT

\* A number stored in a LONGLONG.
Signed(x) ==
  LET low == x % LongLong
  IN  IF low < LongLong \div 2 THEN low ELSE low - LongLong

\* GetNewReadOffset as far as its comparison.  A size_t as wide as the signed
\* offset makes the sum an unsigned one, a narrower one does not; what is stored
\* is the same.
NewReadOffset(offset) == Signed(offset + ReadInterval)

\* The offset of task k of thread t, counted from 0.
TaskOffset(t, k) == Signed(t * local["buffer_size"] + k * ReadInterval)

\* Read may be called for a context that contexts_ does not have: by main, or by
\* a task k of thread t that has not been told of the end of the file.
ReadsPastContexts ==
  \/ local["queue_depth"] > Len(contexts)
  \/ /\ local["queue_depth"] > 0
     /\ \E t \in 0..Started - 1, k \in 1..Len(contexts) :
          /\ t + k * local["queue_depth"] >= Len(contexts)
          /\ \A j \in 1..k : TaskOffset(t, j) <= local["file_size"]

\* The initial reads and main's loop, until the last Finished.  They have no end
\* without threads or with fewer initial reads than threads.
PhaseEnds ==
  /\ At("measure")
  /\ Started > 0 /\ local["queue_depth"] >= Started
  /\ Goto("shutdown")
  /\ UNCHANGED <<pool, local, contexts, printed, handles>>

\* Undefined behaviour, if it brings the process down.
ReadCrashes ==
  /\ At("measure")
  /\ ReadsPastContexts
  /\ Dies("crashed")

\* Shutdown's answer is not looked at.
ShutDownThread ==
  /\ At("shutdown")
  /\ NextThread("shutDown")
  /\ UNCHANGED <<step, options, local, contexts, printed, handles, process>>

AllShutDown_NotJoined ==
  /\ At("shutdown")
  /\ EveryThread("shutDown")
  /\ Goto("print")
  /\ UNCHANGED <<pool, local, contexts, printed, handles>>

AllShutDown ==
  /\ At("shutdown")
  /\ EveryThread("shutDown")
  /\ Goto("join")
  /\ UNCHANGED <<pool, local, contexts, printed, handles>>

\* std::thread::join has returned.
JoinThread ==
  /\ At("join")
  /\ NextThread("joined")
  /\ UNCHANGED <<step, options, local, contexts, printed, handles, process>>

AllJoined ==
  /\ At("join")
  /\ EveryThread("joined")
  /\ Goto("print")
  /\ UNCHANGED <<pool, local, contexts, printed, handles>>

\* One turn of PrintResults, which frees the buffer it has printed.
PrintContext ==
  /\ At("print")
  /\ printed < Len(contexts)
  /\ printed' = printed + 1
  /\ UNCHANGED <<step, options, pool, local, contexts, handles, process>>

\* CreateFileA, GetFileInformationByHandleEx or the event of the main queue is
\* refused.
MainFails ==
  /\ \/ At("open")
     \/ At("buffer_size") /\ options.buffer_size = None
     \/ At("mainQueue")
  /\ Return("returned -1")

ReturnZero ==
  /\ At("print")
  /\ printed = Len(contexts)
  /\ Return("returned 0")

Next ==
  \/ UseSuppliedThreadCount \/ CountCores
  \/ StartThread \/ ThreadThrows \/ PoolNotCreated \/ PoolCreated
  \/ OpenFile \/ UseSuppliedBufferSize \/ GetIdealBufferSize \/ ChooseQueueDepth
  \/ GetFileSize \/ CreateCompletionPort \/ CountOperations \/ DivideByZero
  \/ CreateContext \/ Prepared
  \/ CouldNotGetFileSize \/ CouldNotCreateCompletionPort \/ CouldNotCreateIOContexts
  \/ CreateMainQueue \/ PostTask \/ PostFails \/ TasksPosted \/ PhaseEnds \/ ReadCrashes
  \/ ShutDownThread \/ AllShutDown \/ JoinThread \/ AllJoined \/ PrintContext
  \/ MainFails \/ ReturnZero

Spec == Init /\ [][Next]_vars

-----------------------------------------------------------------------------
(* A handle that was opened is closed once, by whichever of the objects it *)
(* was moved through holds it in the end: on every way out of main, and    *)
(* never before, least of all while the reads need it.                     *)
HandlesClosedOnce ==
  /\ \A h \in Handles :
       /\ handles.opened[h] <= 1
       /\ handles.closed[h] = IF step = "end" THEN handles.opened[h] ELSE 0
  /\ step \in ReadSteps =>
       handles.holds["read.file"] = "the file" /\ handles.holds["read.port"] = "the port"
  /\ step = "end" => \A o \in Objects : handles.holds[o] = Invalid

(* What the measuring phase starts from: in a file and with a buffer size  *)
(* that a DWORD can hold, every byte of the file is in the buffer of       *)
(* exactly one context.                                                    *)
ContextsTileFile ==
  /\ step \in ReadSteps
  /\ local["file_size"] < Dword /\ local["buffer_size"] < Dword
  => \A byte \in 0..local["file_size"] - 1 :
       Cardinality({i \in DOMAIN contexts :
                      /\ contexts[i].offset <= byte
                      /\ byte < contexts[i].offset + contexts[i].size}) = 1

(* The two ways in which the measuring phase finds a buffer agree: a task  *)
(* tells by its own sum of offsets whether the file goes on, and reads the *)
(* context queue_depth further on, whose offset CreateIOContexts computed  *)
(* in another width.  It takes sizes that fit their types: a product of    *)
(* queue_depth and buffer_size that wraps to 0 in a size_t, as 2^16 times  *)
(* 2^16 does in the Win32 build, would make a task go on for ever.         *)
ChainsFollowContexts ==
  /\ step = "measure"
  /\ local["file_size"] < Dword /\ local["buffer_size"] < Dword
  /\ local["queue_depth"] * local["buffer_size"] < SizeT
  /\ local["queue_depth"] * local["buffer_size"] + local["file_size"] < LongLong \div 2
  => \A i \in DOMAIN contexts :
       LET next   == i + local["queue_depth"]
           offset == NewReadOffset(contexts[i].offset)
       IN  /\ offset < local["file_size"] =>
                next \in DOMAIN contexts /\ contexts[next].offset = offset
           /\ offset > local["file_size"] => next \notin DOMAIN contexts

(* What the end of the process says of the run.  0: every thread that was  *)
(* started has been joined, every context printed and its buffer freed,    *)
(* and the file and the port were opened and closed.  -1: no thread had    *)
(* been started; every `return -1` after the first thread ends in          *)
(* std::terminate instead.  And no buffer is freed while there is a thread *)
(* that could use it, nor printed by a run that then fails to return.      *)
OutcomeTells ==
  /\ process = "returned 0" =>
       /\ EveryThread("joined") /\ printed = Len(contexts)
       /\ \A h \in Handles : handles.opened[h] = 1 /\ handles.closed[h] = 1
  /\ process = "returned -1" => Started = 0
  /\ printed > 0 => EveryThread("joined") /\ process \in {"running", "returned 0"}

-----------------------------------------------------------------------------
(* The inductive invariant of the handles: which objects hold them, step by*)
(* step, and that what was opened is held until it is closed.              *)
Holders(s) ==
  CASE s \in {"pool", "threads", "open", "end"}                        -> {}
    [] s \in {"buffer_size", "queue_depth", "file_size", "port"}       -> {"file"}
    [] s \in {"operation_count", "contexts"}                           -> {"file", "completion_port"}
    [] s \in ReadSteps                                                 -> {"read.file", "read.port"}

HandleOf(object) == IF object \in {"file", "read.file"} THEN "the file" ELSE "the port"

Held == {HandleOf(o) : o \in Holders(step)}

HandlesHeld ==
  /\ \A o \in Objects :
       handles.holds[o] = IF o \in Holders(step) THEN HandleOf(o) ELSE Invalid
  /\ \A h \in Handles :
       IF step = "end"
         THEN handles.closed[h] = handles.opened[h] /\ handles.opened[h] <= 1
         ELSE handles.closed[h] = 0 /\ handles.opened[h] = (IF h \in Held THEN 1 ELSE 0)

HandleInv ==
  /\ handles \in [holds : [Objects -> Handles \cup {Invalid}],
                  opened : [Handles -> Nat], closed : [Handles -> Nat]]
  /\ HandlesHeld

(* The inductive invariant of the ways out: how far main's loops are.      *)
ExitInv ==
  /\ pool["joined"] <= Started
  /\ step \notin {"join", "print", "end"} => pool["joined"] = 0
  /\ step = "print" => EveryThread("joined")
  /\ step \notin {"print", "end"} => printed = 0
  /\ step # "end" => process \notin {"returned 0", "returned -1"}
  /\ step \in {"join", "print"} => process = "running"
  /\ OutcomeTells

(* The inductive invariant of the contexts: each is what CreateIOContexts  *)
(* makes of its number, and there are as many as the file was cut into.    *)
ContextInv ==
  /\ TypeOK
  /\ \A i \in DOMAIN contexts :
       contexts[i] = [offset |-> ((i - 1) * ContextSize) % Dword, size |-> ContextSize]
  /\ step \notin {"contexts", "end"} \cup ReadSteps => contexts = <<>>
  /\ step \in {"contexts"} \cup ReadSteps =>
       /\ ContextSize # 0
       /\ local["operation_count"] = Operations
       /\ Len(contexts) <= local["operation_count"]
  /\ step \in ReadSteps =>
       Len(contexts) = local["operation_count"]

=============================================================================

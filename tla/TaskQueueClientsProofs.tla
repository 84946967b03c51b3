------------------------ MODULE TaskQueueClientsProofs ------------------------
(***************************************************************************)
(* Proofs about task queues under arbitrary clients: the types, that a     *)
(* queue whose event belongs to it alone loses no wakeup, and that queues  *)
(* are mailboxes.                                                          *)
(***************************************************************************)
EXTENDS TaskQueueClients, TLAPS

(* Every step of the most general client keeps the types: what AddTask     *)
(* pushes and TryPopTask takes is always a task object.                    *)
LEMMA TypeStep == TypeOK /\ [Next]_vars => TypeOK'
<1> SUFFICES ASSUME TypeOK, [Next]_vars
             PROVE  TypeOK'
  OBVIOUS
<1> USE TasksAssumption DEF TypeOK, QueueTypeOK, Threads, LoopPoints
<1>1. ASSUME NEW t \in Threads, NEW q \in Runners, NEW k \in Tasks, Post(t, q, k)
      PROVE  TypeOK'
  BY <1>1 DEF Post, AddTaskCheck
<1>2. ASSUME NEW t \in Threads, NEW q \in Runners, CallShutdown(t, q)
      PROVE  TypeOK'
  BY <1>2 DEF CallShutdown, Shutdown
<1>3. ASSUME NEW t \in Threads, FinishPost(t)
      PROVE  TypeOK'
  <2>1. /\ AddTaskPush(t)
        /\ UNCHANGED fresh
        /\ wakeEvent' \in BOOLEAN
        /\ parked' \subseteq Runners
    BY <1>3 DEF FinishPost, AddTaskOkay, AddTaskCouldNotSetEvent, AddTaskPush,
                SetEvent, SetEventFails
  <2>2. posting[t] \in [queue : Runners, task : Tasks]
    BY <2>1 DEF AddTaskPush
  <2>3. queue' \in [Runners -> Seq(Tasks)]
    BY <2>1, <2>2 DEF AddTaskPush
  <2> QED
    BY <2>1, <2>2, <2>3 DEF AddTaskPush
<1>4. ASSUME NEW t \in Runners, RunnerStep(t)
      PROVE  TypeOK'
  <2>1. CASE PopTask(t)
    <3>1. /\ Head(queue[t]) \in Tasks
          /\ Tail(queue[t]) \in Seq(Tasks)
      BY <2>1 DEF PopTask
    <3> QED
      BY <3>1, <2>1, <1>4 DEF PopTask, Goto, ResetEvent, RunnerStep
  <2>2. CASE ~PopTask(t)
    BY <2>2, <1>4
    DEF RunnerStep, LoopStep, EnterLoop, PopNothing, RunReturns, Decide,
        StartWait, WaitFails, EndWait, Goto, ResetEvent, ResetEventFails
  <2> QED
    BY <2>1, <2>2
<1>5. ASSUME NEW t \in Threads, FinishShutdown(t)
      PROVE  TypeOK'
  BY <1>5 DEF FinishShutdown, ShutdownSignals, SetEvent, SetEventFails
<1>6. CASE UNCHANGED vars
  BY <1>6 DEF vars, queueVars
<1> QED
  BY <1>1, <1>2, <1>3, <1>4, <1>5, <1>6 DEF Next

(* The variables of every queue, loop and posting thread keep their types, *)
(* for any threads, any tasks and any failing event calls.                 *)
THEOREM TypeCorrect == Spec => []TypeOK
<1>1. Init => TypeOK
  <2>1. <<>> \in Seq(Tasks)
    OBVIOUS
  <2> QED
    BY <2>1 DEF Init, QueueInit, TypeOK, QueueTypeOK, LoopPoints
<1> QED
  BY <1>1, TypeStep, PTL DEF Spec

-----------------------------------------------------------------------------
(* With one runner and no failing event call, an order of TryPopTask,      *)
(* AddTask, Shutdown and WaitForEvent that the runner sleeps through does  *)
(* not exist: each step keeps the event signalled for work that arrived    *)
(* after the last look at the queue.                                       *)
LEMMA SignalledStep ==
  ASSUME Faults = {},
         \A t, u \in Runners : t = u
  PROVE  TypeOK /\ Signalled /\ [Next]_vars => Signalled'
<1> SUFFICES ASSUME TypeOK, Signalled, [Next]_vars
             PROVE  Signalled'
  OBVIOUS
<1> USE DEF TypeOK, QueueTypeOK, Threads, LoopPoints, Signalled, AsleepWithWork
<1>1. ASSUME NEW t \in Threads, NEW q \in Runners, NEW k \in Tasks, Post(t, q, k)
      PROVE  Signalled'
  BY <1>1 DEF Post, AddTaskCheck, Locked
<1>2. ASSUME NEW t \in Threads, NEW q \in Runners, CallShutdown(t, q)
      PROVE  Signalled'
  BY <1>2 DEF CallShutdown, Shutdown, Locked
<1>3. ASSUME NEW t \in Threads, FinishPost(t)
      PROVE  Signalled'
  BY <1>3 DEF FinishPost, AddTaskOkay, AddTaskCouldNotSetEvent, AddTaskPush,
              SetEvent, SetEventFails, Locked
<1>4. ASSUME NEW t \in Runners, RunnerStep(t)
      PROVE  Signalled'
  <2> SUFFICES Signalled!(t)'
    OBVIOUS
  <2> QED
    BY <1>4
    DEF RunnerStep, LoopStep, EnterLoop, PopTask, PopNothing, RunReturns, Decide,
        StartWait, WaitFails, EndWait, Goto, ResetEvent, ResetEventFails, Locked
<1>5. ASSUME NEW t \in Threads, FinishShutdown(t)
      PROVE  Signalled'
  BY <1>5 DEF FinishShutdown, ShutdownSignals, SetEvent, SetEventFails, Locked
<1>6. CASE UNCHANGED vars
  BY <1>6 DEF vars, queueVars, Locked
<1> QED
  BY <1>1, <1>2, <1>3, <1>4, <1>5, <1>6 DEF Next

(* The event of a single runner is signalled whenever work arrived after   *)
(* the runner's last look at its queue.                                    *)
THEOREM OneRunnerIsSignalled ==
  ASSUME Faults = {},
         \A t, u \in Runners : t = u
  PROVE  Spec => []Signalled
<1>1. Init => Signalled
  BY DEF Init, QueueInit, Signalled, AsleepWithWork
<1>2. TypeOK /\ Signalled /\ [Next]_vars => Signalled'
  BY SignalledStep
<1> QED
  BY <1>1, <1>2, TypeCorrect, PTL DEF Spec

(* A queue that has the event to itself never leaves its runner asleep     *)
(* with a task queued or a Shutdown called, however many clients post.     *)
(* The program breaks the assumption by naming its events.                 *)
THEOREM OneRunnerLosesNoWakeup ==
  ASSUME Faults = {},
         \A t, u \in Runners : t = u
  PROVE  Spec => []NoLostWakeup
<1>1. Signalled => NoLostWakeup
  BY DEF Signalled, NoLostWakeup
<1> QED
  BY <1>1, OneRunnerIsSignalled, PTL

-----------------------------------------------------------------------------
(* The queues implement mailboxes.                                         *)

(* A loop holds a task exactly while it runs it. *)
RunningTask == \A t \in Runners : running[t] # None <=> pc[t] = "run"

(* TryPopTask hands the loop a task, and the end of Run takes it away.     *)
LEMMA RunningTaskStep ==
  ASSUME TypeOK, RunningTask, [Next]_vars
  PROVE  RunningTask'
<1> USE TasksAssumption DEF TypeOK, QueueTypeOK, RunningTask
<1>1. ASSUME NEW t \in Runners, RunnerStep(t)
      PROVE  RunningTask'
  <2>1. CASE PopTask(t)
    <3>1. Head(queue[t]) \in Tasks
      BY <2>1 DEF PopTask
    <3> QED
      BY <3>1, <2>1 DEF PopTask, Goto
  <2>2. CASE ~PopTask(t)
    BY <2>2, <1>1
    DEF RunnerStep, LoopStep, EnterLoop, PopNothing, RunReturns, Decide,
        StartWait, WaitFails, EndWait, Goto
  <2> QED
    BY <2>1, <2>2
<1>2. CASE UNCHANGED <<running, pc>>
  BY <1>2
<1>3. ~(\E t \in Runners : RunnerStep(t)) => UNCHANGED <<running, pc>>
  BY DEF Next, vars, queueVars, Post, AddTaskCheck, CallShutdown, Shutdown,
         FinishPost, AddTaskOkay, AddTaskCouldNotSetEvent, AddTaskPush,
         FinishShutdown, ShutdownSignals
<1> QED
  BY <1>1, <1>2, <1>3

(* Every step of the threads is a step of the mailboxes or none of them.   *)
LEMMA MailStep ==
  ASSUME TypeOK, RunningTask, [Next]_vars
  PROVE  [Mail!Next]_(Mail!vars)
<1> USE TasksAssumption DEF TypeOK, QueueTypeOK, RunningTask
<1> DEFINE gone == {t \in Runners : pc[t] = "exited"}
<1>1. ASSUME NEW t \in Threads, NEW q \in Runners, NEW k \in Tasks, Post(t, q, k)
      PROVE  Mail!Send(t, q, k)
  BY <1>1 DEF Post, AddTaskCheck, Mail!Send
<1>2. ASSUME NEW t \in Threads, FinishPost(t)
      PROVE  Mail!Arrive(t)
  BY <1>2
  DEF FinishPost, AddTaskOkay, AddTaskCouldNotSetEvent, AddTaskPush, Mail!Arrive
<1>3. ASSUME NEW t \in Threads, NEW q \in Runners, CallShutdown(t, q)
      PROVE  Mail!Close(q)
  BY <1>3 DEF CallShutdown, Shutdown, Mail!Close
<1>4. ASSUME NEW t \in Threads, FinishShutdown(t)
      PROVE  UNCHANGED Mail!vars
  BY <1>4 DEF FinishShutdown, ShutdownSignals, Mail!vars
<1>5. ASSUME NEW t \in Runners, PopTask(t), UNCHANGED fresh
      PROVE  Mail!Take(t)
  BY <1>5 DEF PopTask, Goto, Mail!Take
<1>6. ASSUME NEW t \in Runners, RunReturns(t), UNCHANGED fresh
      PROVE  Mail!Finish(t)
  BY <1>6 DEF RunReturns, Goto, Mail!Finish
<1>7. ASSUME NEW t \in Runners, Decide(t), shuttingDown[t], UNCHANGED fresh
      PROVE  Mail!Leave(t)
  <2>1. gone' = gone \cup {t}
    BY <1>7 DEF Decide, Goto
  <2> QED
    BY <1>7, <2>1 DEF Decide, Goto, Mail!Leave
<1>8. ASSUME NEW t \in Runners, UNCHANGED fresh,
             \/ EnterLoop(t) \/ PopNothing(t) \/ StartWait(t) \/ WaitFails(t) \/ EndWait(t)
             \/ Decide(t) /\ ~shuttingDown[t]
      PROVE  UNCHANGED Mail!vars
  <2>1. gone' = gone
    BY <1>8 DEF EnterLoop, PopNothing, StartWait, WaitFails, EndWait, Decide, Goto
  <2> QED
    BY <1>8, <2>1
    DEF EnterLoop, PopNothing, StartWait, WaitFails, EndWait, Decide, Mail!vars
<1>9. CASE UNCHANGED vars
  BY <1>9 DEF vars, queueVars, Mail!vars
<1> QED
  BY <1>1, <1>2, <1>3, <1>4, <1>5, <1>6, <1>7, <1>8, <1>9
  DEF Next, RunnerStep, LoopStep, Mail!Next

(* Whatever threads, tasks and failing event calls there are, task queues  *)
(* do what Mailbox promises.                                               *)
THEOREM QueuesAreMailboxes == Spec => ImplementsMailbox
<1>1. Init => RunningTask /\ Mail!Init
  BY DEF Init, QueueInit, RunningTask, Mail!Init
<1>2. TypeOK /\ RunningTask /\ [Next]_vars => RunningTask'
  BY RunningTaskStep
<1>3. TypeOK /\ RunningTask /\ [Next]_vars => [Mail!Next]_(Mail!vars)
  BY MailStep
<1> QED
  BY <1>1, <1>2, <1>3, TypeCorrect, PTL DEF Spec, ImplementsMailbox, Mail!Spec

-----------------------------------------------------------------------------
(* A mailbox keeps one owner per task.                                     *)

MailTypes ==
  /\ fresh \subseteq Tasks
  /\ posting \in [Threads -> [queue : Runners, task : Tasks] \cup {None}]
  /\ queue \in [Runners -> Seq(Tasks)]
  /\ running \in [Runners -> Tasks \cup {None}]

(* OneOwner, place by place. *)
SentAlone(k) ==
  \A s \in Threads : Mail!SentAt(s, k) =>
    /\ k \notin fresh
    /\ \A r \in Threads : Mail!SentAt(r, k) => r = s
    /\ \A o \in Runners : running[o] # k
    /\ \A o \in Runners, i \in Nat : ~Mail!BoxAt(o, i, k)

HeldAlone(k) ==
  \A o \in Runners : running[o] = k =>
    /\ k \notin fresh
    /\ \A p \in Runners : running[p] = k => p = o
    /\ \A p \in Runners, i \in Nat : ~Mail!BoxAt(p, i, k)

BoxedAlone(k) ==
  \A o \in Runners, i \in Nat : Mail!BoxAt(o, i, k) =>
    /\ k \notin fresh
    /\ \A p \in Runners, j \in Nat : Mail!BoxAt(p, j, k) => p = o /\ j = i

Alone(k) == SentAlone(k) /\ HeldAlone(k) /\ BoxedAlone(k)

(* A task of Append's result is one of the sequence or the appended one,   *)
(* at the end.                                                             *)
LEMMA AppendAt ==
  ASSUME NEW S, NEW q \in Seq(S), NEW x \in S, NEW i \in Nat
  PROVE  /\ i \in DOMAIN Append(q, x) <=> i \in DOMAIN q \/ i = Len(q) + 1
         /\ i \in DOMAIN q => Append(q, x)[i] = q[i]
         /\ Append(q, x)[Len(q) + 1] = x
         /\ Len(q) + 1 \notin DOMAIN q
         /\ Len(q) \in Nat
  OBVIOUS

(* The tail of a sequence is the sequence one position on.                 *)
LEMMA TailAt ==
  ASSUME NEW S, NEW q \in Seq(S), q # <<>>, NEW i \in Nat
  PROVE  /\ i \in DOMAIN Tail(q) <=> i # 0 /\ i + 1 \in DOMAIN q
         /\ i \in DOMAIN Tail(q) => Tail(q)[i] = q[i + 1]
         /\ 1 \in DOMAIN q
         /\ Head(q) = q[1]
  OBVIOUS

(* What a mailbox holds are tasks.                                         *)
LEMMA MailTyped ==
  ASSUME TypeOK
  PROVE  MailTypes
BY DEF TypeOK, QueueTypeOK, MailTypes

(* A task that arrives changes place: from its sender to the end of a box. *)
LEMMA ArriveAt ==
  ASSUME MailTypes, NEW s \in Threads, Mail!Arrive(s), NEW k \in Tasks
  PROVE  LET q == posting[s].queue
             n == Len(queue[q]) + 1
         IN  /\ q \in Runners
             /\ n \in Nat
             /\ ~Mail!BoxAt(q, n, k)
             /\ \A r \in Threads : Mail!SentAt(r, k)' <=> r # s /\ Mail!SentAt(r, k)
             /\ \A o \in Runners, i \in Nat :
                  Mail!BoxAt(o, i, k)' <=> \/ Mail!BoxAt(o, i, k)
                                           \/ o = q /\ i = n /\ Mail!SentAt(s, k)
<1> DEFINE q == posting[s].queue
           x == posting[s].task
<1>1. /\ posting[s] # None
      /\ q \in Runners
      /\ x \in Tasks
      /\ queue[q] \in Seq(Tasks)
      /\ queue' = [queue EXCEPT ![q] = Append(@, x)]
      /\ posting' = [posting EXCEPT ![s] = None]
  BY DEF Mail!Arrive, MailTypes
<1>2. \A r \in Threads : Mail!SentAt(r, k)' <=> r # s /\ Mail!SentAt(r, k)
  BY <1>1 DEF Mail!SentAt, MailTypes
<1>3. Mail!SentAt(s, k) <=> x = k
  BY <1>1 DEF Mail!SentAt
<1>4. q \in Runners
  BY <1>1
<1> HIDE DEF q, x
<1>5. queue'[q] = Append(queue[q], x) /\ \A o \in Runners \ {q} : queue'[o] = queue[o]
  BY <1>1 DEF MailTypes
<1>6. ASSUME NEW o \in Runners, o = q, NEW i \in Nat
      PROVE  Mail!BoxAt(o, i, k)' <=> Mail!BoxAt(o, i, k) \/ (i = Len(queue[o]) + 1 /\ x = k)
  <2> DEFINE b == queue[o]
             a == Append(b, x)
  <2>1. /\ i \in DOMAIN a <=> i \in DOMAIN b \/ i = Len(b) + 1
        /\ i \in DOMAIN b => a[i] = b[i]
        /\ a[Len(b) + 1] = x
        /\ Len(b) + 1 \notin DOMAIN b
    BY <1>1, <1>6, AppendAt
  <2>2. queue'[o] = a
    BY <1>5, <1>6
  <2> HIDE DEF a, b
  <2>3. Mail!BoxAt(o, i, k)' <=> i \in DOMAIN a /\ a[i] = k
    BY <2>2 DEF Mail!BoxAt
  <2>4. Mail!BoxAt(o, i, k) <=> i \in DOMAIN b /\ b[i] = k
    BY DEF Mail!BoxAt, b
  <2> QED
    BY <2>1, <2>3, <2>4 DEF b
<1>7. Len(queue[q]) + 1 \in Nat /\ ~Mail!BoxAt(q, Len(queue[q]) + 1, k)
  BY <1>1, AppendAt DEF Mail!BoxAt
<1>8. \A o \in Runners \ {q}, i \in Nat : Mail!BoxAt(o, i, k)' <=> Mail!BoxAt(o, i, k)
  BY <1>5 DEF Mail!BoxAt
<1>9. \A o \in Runners, i \in Nat :
        Mail!BoxAt(o, i, k)' <=> \/ Mail!BoxAt(o, i, k)
                                 \/ o = q /\ i = Len(queue[q]) + 1 /\ Mail!SentAt(s, k)
  BY <1>3, <1>6, <1>8
<1> QED
  BY <1>2, <1>7, <1>9, <1>4 DEF q

(* A task that is taken changes place: from the front of a box to a hand.  *)
LEMMA TakeAt ==
  ASSUME MailTypes, NEW o \in Runners, Mail!Take(o), NEW k \in Tasks
  PROVE  /\ \A i \in Nat : Mail!BoxAt(o, i, k)' <=> i # 0 /\ Mail!BoxAt(o, i + 1, k)
         /\ \A p \in Runners \ {o}, i \in Nat : Mail!BoxAt(p, i, k)' <=> Mail!BoxAt(p, i, k)
         /\ running'[o] = k <=> Mail!BoxAt(o, 1, k)
         /\ \A p \in Runners \ {o} : running'[p] = running[p]
<1>1. /\ queue[o] \in Seq(Tasks)
      /\ queue[o] # <<>>
      /\ queue'[o] = Tail(queue[o])
      /\ running'[o] = Head(queue[o])
      /\ \A p \in Runners \ {o} : running'[p] = running[p] /\ queue'[p] = queue[p]
  BY DEF Mail!Take, MailTypes
<1>2. \A i \in Nat : Mail!BoxAt(o, i, k)' <=> i # 0 /\ Mail!BoxAt(o, i + 1, k)
  <2> SUFFICES ASSUME NEW i \in Nat
               PROVE  Mail!BoxAt(o, i, k)' <=> i # 0 /\ Mail!BoxAt(o, i + 1, k)
    OBVIOUS
  <2> QED
    BY <1>1, TailAt DEF Mail!BoxAt
<1>3. running'[o] = k <=> Mail!BoxAt(o, 1, k)
  BY <1>1, TailAt DEF Mail!BoxAt
<1> QED
  BY <1>1, <1>2, <1>3 DEF Mail!BoxAt

(* A step leaves every task alone in its place.                            *)
LEMMA AloneStep ==
  ASSUME MailTypes, NEW k \in Tasks, Alone(k), [Mail!Next]_(Mail!vars)
  PROVE  Alone(k)'
<1> USE TasksAssumption DEF Alone, SentAlone, HeldAlone, BoxedAlone
<1>1. ASSUME NEW s \in Threads, NEW o \in Runners, NEW j \in Tasks, Mail!Send(s, o, j)
      PROVE  Alone(k)'
  <2>1. \A r \in Threads : Mail!SentAt(r, k)' => Mail!SentAt(r, k) \/ (r = s /\ k = j)
    BY <1>1 DEF Mail!Send, Mail!SentAt, MailTypes
  <2>2. /\ fresh' \subseteq fresh
        /\ j \in fresh /\ j \notin fresh'
        /\ running' = running /\ queue' = queue
    BY <1>1 DEF Mail!Send
  <2>3. \A p \in Runners, i \in Nat : Mail!BoxAt(p, i, k)' <=> Mail!BoxAt(p, i, k)
    BY <2>2 DEF Mail!BoxAt
  <2> QED
    BY <2>1, <2>2, <2>3
<1>2. ASSUME NEW s \in Threads, Mail!Arrive(s)
      PROVE  Alone(k)'
  <2>1. fresh' = fresh /\ running' = running
    BY <1>2 DEF Mail!Arrive
  <2> QED
    BY <1>2, <2>1, ArriveAt
<1>3. ASSUME NEW o \in Runners, Mail!Take(o)
      PROVE  Alone(k)'
  <2>1. fresh' = fresh /\ posting' = posting
    BY <1>3 DEF Mail!Take
  <2>2. \A s \in Threads : Mail!SentAt(s, k)' <=> Mail!SentAt(s, k)
    BY <2>1 DEF Mail!SentAt
  <2> QED
    BY <1>3, <2>1, <2>2, TakeAt
<1>4. ASSUME NEW o \in Runners, Mail!Finish(o)
      PROVE  Alone(k)'
  <2>1. \A p \in Runners : running'[p] = k => running[p] = k
    BY <1>4 DEF Mail!Finish, MailTypes
  <2>2. UNCHANGED <<fresh, posting, queue>>
    BY <1>4 DEF Mail!Finish
  <2> QED
    BY <2>1, <2>2 DEF Mail!SentAt, Mail!BoxAt
<1>5. CASE UNCHANGED <<fresh, posting, queue, running>>
  BY <1>5 DEF Mail!SentAt, Mail!BoxAt
<1>6. ASSUME NEW o \in Runners, Mail!Close(o) \/ Mail!Leave(o)
      PROVE  UNCHANGED <<fresh, posting, queue, running>>
  BY <1>6 DEF Mail!Close, Mail!Leave
<1> QED
  BY <1>1, <1>2, <1>3, <1>4, <1>5, <1>6 DEF Mail!Next, Mail!vars

(* Tasks that are alone in their places have one owner each.               *)
LEMMA AloneOwner ==
  ASSUME MailTypes, \A k \in Tasks : Alone(k)
  PROVE  OneOwner
<1> SUFFICES ASSUME NEW k \in Tasks
             PROVE  /\ k \in fresh => Mail!Places(k) = {}
                    /\ \A p, r \in Mail!Places(k) : p = r
  BY DEF OneOwner, Mail!OneOwner
<1>1. \A o \in Runners : DOMAIN queue[o] \subseteq Nat
  BY DEF MailTypes
<1>2. \A p \in Mail!Places(k) :
        \/ \E s \in Threads : Mail!SentAt(s, k) /\ p = <<"sent", s, 0>>
        \/ \E o \in Runners : running[o] = k /\ p = <<"hand", o, 0>>
        \/ \E o \in Runners, i \in Nat : Mail!BoxAt(o, i, k) /\ p = <<"box", o, i>>
  BY <1>1 DEF Mail!Places
<1>3. SentAlone(k) /\ HeldAlone(k) /\ BoxedAlone(k)
  BY DEF Alone
<1>4. k \in fresh => Mail!Places(k) = {}
  BY <1>2, <1>3 DEF SentAlone, HeldAlone, BoxedAlone
<1>5. \A p, r \in Mail!Places(k) : p = r
  BY <1>2, <1>3 DEF SentAlone, HeldAlone, BoxedAlone
<1> QED
  BY <1>4, <1>5

(* No task is ever in two hands, and none is run twice: it is with its     *)
(* maker, or with one sender, or in one place of one box, or in one hand.  *)
THEOREM TasksHaveOneOwner == Spec => []OneOwner
<1> DEFINE Inv == \A k \in Tasks : Alone(k)
<1>1. Init => Inv
  <2> SUFFICES ASSUME Init, NEW k \in Tasks
               PROVE  Alone(k)
    OBVIOUS
  <2> QED
    BY TasksAssumption
    DEF Init, QueueInit, Alone, SentAlone, HeldAlone, BoxedAlone, Mail!SentAt, Mail!BoxAt
<1>2. TypeOK /\ Inv /\ [Mail!Next]_(Mail!vars) => Inv'
  BY MailTyped, AloneStep
<1>3. TypeOK /\ Inv => OneOwner
  BY MailTyped, AloneOwner
<1> QED
  BY <1>1, <1>2, <1>3, TypeCorrect, QueuesAreMailboxes, PTL
  DEF Spec, ImplementsMailbox, Mail!Spec

=============================================================================

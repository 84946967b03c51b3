------------------------- MODULE TaskQueueMutexProofs -------------------------
(***************************************************************************)
(* Proofs about task queues at the grain of their statements: the mutex    *)
(* holds one thread in, and what the threads do is what TaskQueueClients   *)
(* makes of its coarser steps, so that the theorems about those hold here. *)
(***************************************************************************)
EXTENDS TaskQueueMutex, TLAPS

(* A call goes on to its next statement with its queue and its task.       *)
LEMMA CallGoesOn ==
  ASSUME TypeOK, NEW t \in Threads, NEW from,
         NEW to \in {"change", "signal", "unlock"}, CallGoto(t, from, to)
  PROVE  /\ call[t] \in Calls
         /\ call[t].at = from
         /\ call'[t] \in Calls
         /\ call'[t].queue = call[t].queue
         /\ call'[t].task = call[t].task
         /\ call'[t].at = to
         /\ call' \in [Threads -> Calls \cup {None}]
         /\ \A u \in Threads \ {t} : call'[u] = call[u]
<1>1. call \in [Threads -> Calls \cup {None}] /\ call[t] \in Calls
  BY DEF TypeOK, CallGoto
<1>2. call' = [call EXCEPT ![t] = [call[t] EXCEPT !.at = to]] /\ call[t].at = from
  BY DEF CallGoto
<1>3. [call[t] EXCEPT !.at = to] =
        [queue |-> call[t].queue, task |-> call[t].task, at |-> to]
  BY <1>1 DEF Calls
<1>4. [queue |-> call[t].queue, task |-> call[t].task, at |-> to] \in Calls
  BY <1>1 DEF Calls
<1> QED
  BY <1>1, <1>2, <1>3, <1>4

(* A call that begins leaves the calls of other threads alone.             *)
LEMMA CallBegins ==
  ASSUME TypeOK, NEW t \in Threads, NEW q \in Runners, NEW k \in Tasks \cup {None},
         Begin(t, q, k)
  PROVE  /\ call'[t] \in Calls
         /\ call'[t].queue = q
         /\ call'[t].task = k
         /\ call'[t].at = "lock"
         /\ call' \in [Threads -> Calls \cup {None}]
         /\ \A u \in Threads \ {t} : call'[u] = call[u]
  BY DEF TypeOK, Begin, Calls

(* AddTask and Shutdown start in code of the thread's own, and leave the   *)
(* queues, the mutexes and the loops alone until they have a mutex.        *)
LEMMA CallStarts ==
  ASSUME TypeOK, NEW t \in Threads, NEW q \in Runners,
         CallShutdown(t, q) \/ \E k \in Tasks : CallAddTask(t, q, k)
  PROVE  /\ OwnCode(t)
         /\ call[t] = None
         /\ call'[t] = call[t] \/ call'[t].at = "lock"
         /\ \A u \in Threads \ {t} : call'[u] = call[u]
         /\ UNCHANGED <<mutex, queue, pc, task>>
<1>1. CASE CallShutdown(t, q)
  <2>1. Begin(t, q, None)
    BY <1>1 DEF CallShutdown
  <2> QED
    BY <1>1, <2>1, CallBegins DEF CallShutdown, OwnCode
<1>2. ASSUME NEW k \in Tasks, CallAddTask(t, q, k)
      PROVE  /\ OwnCode(t)
             /\ call'[t] = call[t] \/ call'[t].at = "lock"
             /\ \A u \in Threads \ {t} : call'[u] = call[u]
             /\ UNCHANGED <<mutex, queue, pc, task>>
  <2>1. UNCHANGED call \/ Begin(t, q, k)
    BY <1>2 DEF CallAddTask
  <2> QED
    BY <1>2, <2>1, CallBegins DEF CallAddTask
<1> QED
  BY <1>1, <1>2 DEF OwnCode

(* A loop goes on without disturbing the others.                           *)
LEMMA LoopGoesOn ==
  ASSUME TypeOK, NEW t \in Runners, NEW from, NEW to, Goto(t, from, to)
  PROVE  /\ pc[t] = from
         /\ pc'[t] = to
         /\ to \in LoopPoints => pc' \in [Runners -> LoopPoints]
         /\ \A u \in Runners \ {t} : pc'[u] = pc[u]
  BY DEF TypeOK, Goto

-----------------------------------------------------------------------------
(* The mutex.                                                              *)

(* Every statement keeps the types. *)
LEMMA TypeStep ==
  ASSUME TypeOK, [Next]_vars
  PROVE  TypeOK'
<1> USE DEF TypeOK
<1>1. ASSUME NEW t \in Threads, NEW q \in Runners, CallShutdown(t, q)
      PROVE  TypeOK'
  BY <1>1, CallBegins DEF CallShutdown
<1>2. ASSUME NEW t \in Threads, NEW q \in Runners, NEW k \in Tasks, CallAddTask(t, q, k)
      PROVE  TypeOK'
  BY <1>2, CallBegins DEF CallAddTask
<1>3. ASSUME NEW t \in Threads, LockForCall(t)
      PROVE  TypeOK'
  BY <1>3, CallGoesOn DEF LockForCall, Lock
<1>4. ASSUME NEW t \in Threads, Push(t)
      PROVE  TypeOK'
  <2>1. call[t] \in Calls /\ call[t].task \in Tasks /\ call[t].queue \in Runners
    BY <1>4, CallGoesOn DEF Push, Calls
  <2>2. queue' \in [Runners -> Seq(Tasks)]
    BY <1>4, <2>1 DEF Push
  <2> QED
    BY <1>4, <2>2, CallGoesOn DEF Push
<1>5. ASSUME NEW t \in Threads, SetFlag(t)
      PROVE  TypeOK'
  <2>1. shuttingDown' \in [Runners -> BOOLEAN]
    BY <1>5 DEF SetFlag
  <2> QED
    BY <1>5, <2>1, CallGoesOn DEF SetFlag
<1>6. ASSUME NEW t \in Threads, Signal(t)
      PROVE  TypeOK'
  BY <1>6, CallGoesOn DEF Signal, SetEvent
<1>7. ASSUME NEW t \in Threads, CallReturns(t)
      PROVE  TypeOK'
  BY <1>7 DEF CallReturns, Unlock
<1>8. ASSUME NEW t \in Runners, LoopStep(t)
      PROVE  TypeOK'
  <2> USE <1>8 DEF LoopPoints
  <2>1. CASE Look(t)
    <3>1. queue[t] # <<>> => Head(queue[t]) \in Tasks /\ Tail(queue[t]) \in Seq(Tasks)
      OBVIOUS
    <3>2. queue' \in [Runners -> Seq(Tasks)] /\ task' \in [Runners -> Tasks \cup {None}]
      BY <2>1, <3>1 DEF Look
    <3> QED
      BY <2>1, <3>2, LoopGoesOn DEF Look
  <2>2. CASE LockToPop(t)
    BY <2>2, LoopGoesOn DEF LockToPop, Lock, Threads
  <2>3. CASE Reset(t)
    BY <2>3, LoopGoesOn DEF Reset
  <2>4. CASE PopReturns(t)
    BY <2>4, LoopGoesOn DEF PopReturns, Unlock
  <2>5. CASE EnterLoop(t) \/ RunReturns(t)
    BY <2>5, LoopGoesOn DEF EnterLoop, RunReturns
  <2>6. CASE Decide(t)
    BY <2>6, LoopGoesOn DEF Decide
  <2>7. CASE Wait(t) \/ EndWait(t)
    BY <2>7, LoopGoesOn DEF Wait, EndWait
  <2> QED
    BY <2>1, <2>2, <2>3, <2>4, <2>5, <2>6, <2>7 DEF LoopStep
<1>9. CASE UNCHANGED vars
  BY <1>9 DEF vars
<1> QED
  BY <1>1, <1>2, <1>3, <1>4, <1>5, <1>6, <1>7, <1>8, <1>9 DEF Next, CallStep

(* Where a loop can be, and with what. *)
LoopControl ==
  \A t \in Runners :
    /\ call[t] # None => pc[t] \in {"idle", "run", "exited"}
    /\ pc[t] = "run" => task[t] # None
    /\ task[t] # None => pc[t] \in {"unlock", "run"}

(* A loop is in no critical section of its own while its thread is in a    *)
(* call, and it runs what TryPopTask took.                                 *)
LEMMA LoopControlStep ==
  ASSUME TypeOK, LoopControl, [Next]_vars
  PROVE  LoopControl'
<1> USE DEF LoopControl
<1>1. ASSUME NEW t \in Threads, NEW q \in Runners,
             CallShutdown(t, q) \/ \E k \in Tasks : CallAddTask(t, q, k)
      PROVE  LoopControl'
  BY <1>1, CallStarts DEF OwnCode, Threads
<1>2. ASSUME NEW t \in Threads, CallStep(t)
      PROVE  LoopControl'
  <2>1. /\ call[t] # None
        /\ pc' = pc /\ task' = task
    BY <1>2 DEF CallStep, LockForCall, Push, SetFlag, Signal, CallReturns, CallGoto
  <2>2. \A u \in Threads \ {t} : call'[u] = call[u]
    BY <1>2, CallGoesOn
    DEF CallStep, LockForCall, Push, SetFlag, Signal, CallReturns, TypeOK
  <2> QED
    BY <2>1, <2>2 DEF Threads
<1>3. ASSUME NEW t \in Runners, LoopStep(t)
      PROVE  LoopControl'
  <2>1. call' = call
    BY <1>3 DEF LoopStep, EnterLoop, LockToPop, Reset, Look, PopReturns, RunReturns,
                Decide, Wait, EndWait
  <2>2. CASE Look(t)
    <3>1. \A u \in Runners \ {t} : task'[u] = task[u]
      BY <2>2 DEF Look, TypeOK
    <3> QED
      BY <2>1, <2>2, <3>1, LoopGoesOn DEF Look
  <2>3. CASE RunReturns(t)
    <3>1. task'[t] = None /\ \A u \in Runners \ {t} : task'[u] = task[u]
      BY <2>3 DEF RunReturns, TypeOK
    <3> QED
      BY <2>1, <2>3, <3>1, LoopGoesOn DEF RunReturns
  <2>4. CASE ~Look(t) /\ ~RunReturns(t)
    <3>1. task' = task
      BY <1>3, <2>4 DEF LoopStep, EnterLoop, LockToPop, Reset, PopReturns, Decide, Wait,
                        EndWait
    <3>2. /\ \A u \in Runners \ {t} : pc'[u] = pc[u]
          /\ pc'[t] = "run" => pc[t] = "unlock" /\ task[t] # None
          /\ pc[t] \notin {"run", "exited"}
          /\ pc[t] = "idle" => call[t] = None
          /\ pc[t] = "unlock" => (pc'[t] = "run" <=> task[t] # None)
      BY <1>3, <2>4, LoopGoesOn
      DEF LoopStep, EnterLoop, LockToPop, Reset, PopReturns, Decide, Wait, EndWait
    <3> QED
      BY <2>1, <3>1, <3>2
  <2> QED
    BY <2>2, <2>3, <2>4
<1>4. CASE UNCHANGED vars
  BY <1>4 DEF vars
<1> QED
  BY <1>1, <1>2, <1>3, <1>4 DEF Next

CallInside(t, q) == call[t] # None /\ call[t].queue = q /\ call[t].at # "lock"

PopInside(q) == pc[q] \in {"reset", "look", "unlock"}

Holds(t, q) == CallInside(t, q) \/ (t = q /\ PopInside(q))

(* Inside, thread by thread: those that hold the mutex. *)
OneHolder == \A q \in Runners, t \in Threads : Holds(t, q) <=> mutex[q] = t

(* The threads inside are the one that holds the mutex.                    *)
LEMMA InsideIsHolder ==
  ASSUME TypeOK
  PROVE  OneHolder <=>
           \A q \in Runners : Inside(q) = IF mutex[q] = None THEN {} ELSE {mutex[q]}
<1>1. ASSUME NEW q \in Runners
      PROVE  /\ \A t \in Threads : t \in Inside(q) <=> Holds(t, q)
             /\ Inside(q) \subseteq Threads
  BY DEF Inside, Holds, CallInside, PopInside, Threads
<1>2. \A q \in Runners : mutex[q] \in Threads \cup {None}
  BY DEF TypeOK
<1>3. None \notin Threads
  BY NoneAssumption
<1> QED
  BY <1>1, <1>2, <1>3 DEF OneHolder

(* The mutex goes to a thread that waits for it when nobody is inside, and *)
(* is given back by the thread that leaves.                                *)
LEMMA HolderStep ==
  ASSUME TypeOK, LoopControl, OneHolder, [Next]_vars
  PROVE  OneHolder'
<1>0. None \notin Threads /\ None \notin Calls
  BY NoneAssumption
<1>a. ASSUME mutex' = mutex,
             \A q \in Runners, t \in Threads : Holds(t, q)' <=> Holds(t, q)
      PROVE  OneHolder'
  BY <1>a DEF OneHolder
<1>1. ASSUME NEW t \in Threads, NEW q \in Runners,
             CallShutdown(t, q) \/ \E k \in Tasks : CallAddTask(t, q, k)
      PROVE  OneHolder'
  BY <1>1, <1>a, CallStarts DEF Holds, CallInside, PopInside
<1>2. ASSUME NEW t \in Threads, LockForCall(t)
      PROVE  OneHolder'
  <2> DEFINE q == call[t].queue
  <2>1. /\ q \in Runners
        /\ call[t].at = "lock"
        /\ call'[t] # None /\ call'[t].queue = q /\ call'[t].at = "change"
        /\ \A u \in Threads \ {t} : call'[u] = call[u]
    <3>1. CallGoto(t, "lock", "change")
      BY <1>2 DEF LockForCall
    <3>2. call[t].queue \in Runners
      BY <3>1, CallGoesOn DEF Calls
    <3> QED
      BY <1>0, <3>1, <3>2, CallGoesOn
  <2>2. /\ mutex[q] = None /\ mutex'[q] = t
        /\ \A p \in Runners \ {q} : mutex'[p] = mutex[p]
        /\ pc' = pc
    BY <1>2, <2>1 DEF LockForCall, Lock, TypeOK
  <2> HIDE DEF q
  <2> QED
    BY <2>1, <2>2, <1>0 DEF OneHolder, Holds, CallInside, PopInside, q
<1>3. ASSUME NEW t \in Threads, Push(t) \/ SetFlag(t) \/ Signal(t)
      PROVE  OneHolder'
  <2>1. /\ mutex' = mutex /\ pc' = pc
        /\ call[t] # None /\ call[t].at # "lock"
        /\ call'[t] # None /\ call'[t].queue = call[t].queue /\ call'[t].at # "lock"
        /\ \A u \in Threads \ {t} : call'[u] = call[u]
    <3>1. CallGoto(t, "change", "signal") \/ CallGoto(t, "signal", "unlock")
      BY <1>3 DEF Push, SetFlag, Signal
    <3>2. mutex' = mutex /\ pc' = pc /\ call[t] # None
      BY <1>3 DEF Push, SetFlag, Signal, CallGoto
    <3> QED
      BY <1>0, <3>1, <3>2, CallGoesOn
  <2> QED
    BY <2>1, <1>a DEF Holds, CallInside, PopInside
<1>4. ASSUME NEW t \in Threads, CallReturns(t)
      PROVE  OneHolder'
  <2> DEFINE q == call[t].queue
  <2>1. /\ q \in Runners
        /\ call[t] # None /\ call[t].at = "unlock"
        /\ call'[t] = None
        /\ \A u \in Threads \ {t} : call'[u] = call[u]
    BY <1>4 DEF CallReturns, Calls, TypeOK
  <2>2. /\ mutex'[q] = None
        /\ \A p \in Runners \ {q} : mutex'[p] = mutex[p]
        /\ pc' = pc
    BY <1>4, <2>1 DEF CallReturns, Unlock, TypeOK
  <2>3. mutex[q] = t /\ (t \in Runners => ~PopInside(t))
    BY <2>1 DEF OneHolder, Holds, CallInside, LoopControl, PopInside
  <2> HIDE DEF q
  <2> QED
    BY <2>1, <2>2, <2>3, <1>0 DEF OneHolder, Holds, CallInside, PopInside, q
<1>5. ASSUME NEW t \in Runners, LockToPop(t)
      PROVE  OneHolder'
  <2>1. /\ mutex[t] = None /\ mutex'[t] = t
        /\ \A p \in Runners \ {t} : mutex'[p] = mutex[p]
        /\ call' = call
        /\ pc[t] = "lock" /\ pc'[t] = "reset"
        /\ \A p \in Runners \ {t} : pc'[p] = pc[p]
    BY <1>5, LoopGoesOn DEF LockToPop, Lock, TypeOK
  <2> QED
    BY <2>1, <1>0 DEF OneHolder, Holds, CallInside, PopInside, Threads
<1>6. ASSUME NEW t \in Runners, PopReturns(t)
      PROVE  OneHolder'
  <2>1. /\ mutex'[t] = None
        /\ \A p \in Runners \ {t} : mutex'[p] = mutex[p]
        /\ call' = call
        /\ pc[t] = "unlock" /\ pc'[t] \in {"run", "decide"}
        /\ \A p \in Runners \ {t} : pc'[p] = pc[p]
    BY <1>6, LoopGoesOn DEF PopReturns, Unlock, TypeOK
  <2>2. mutex[t] = t /\ call[t] = None
    BY <2>1 DEF OneHolder, Holds, PopInside, LoopControl, Threads
  <2> QED
    BY <2>1, <2>2, <1>0 DEF OneHolder, Holds, CallInside, PopInside, Threads
<1>7. ASSUME NEW t \in Runners, LoopStep(t), ~LockToPop(t), ~PopReturns(t)
      PROVE  OneHolder'
  <2>1. /\ mutex' = mutex /\ call' = call
        /\ PopInside(t)' <=> PopInside(t)
        /\ \A p \in Runners \ {t} : pc'[p] = pc[p]
    BY <1>7, LoopGoesOn
    DEF LoopStep, EnterLoop, Reset, Look, RunReturns, Decide, Wait, EndWait, PopInside
  <2> QED
    BY <2>1, <1>a DEF Holds, CallInside, PopInside
<1>8. CASE UNCHANGED vars
  BY <1>8 DEF vars, OneHolder, Holds, CallInside, PopInside
<1> QED
  BY <1>1, <1>2, <1>3, <1>4, <1>5, <1>6, <1>7, <1>8 DEF Next, CallStep

(* A pushed task is the last of its queue until its SetEvent. *)
LastPushed ==
  \A t \in Threads : IsAddTask(call[t]) /\ call[t].at = "signal" =>
    LET s == queue[call[t].queue]
    IN  s # <<>> /\ s[Len(s)] = call[t].task

(* Nobody pushes or pops between a push and its SetEvent: whoever would is *)
(* inside as well.                                                         *)
LEMMA LastPushedStep ==
  ASSUME TypeOK, LoopControl, OneHolder, LastPushed, [Next]_vars
  PROVE  LastPushed'
<1>a. ASSUME NEW u \in Threads,
             call'[u] = call[u],
             call[u] \in Calls => queue'[call[u].queue] = queue[call[u].queue]
      PROVE  LastPushed!(u)'
  BY <1>a DEF LastPushed, IsAddTask, TypeOK
<1>1. ASSUME NEW t \in Threads, NEW q \in Runners,
             CallShutdown(t, q) \/ \E k \in Tasks : CallAddTask(t, q, k)
      PROVE  LastPushed'
  BY <1>1, CallStarts DEF LastPushed, IsAddTask
<1>2. ASSUME NEW t \in Threads, LockForCall(t) \/ SetFlag(t) \/ Signal(t) \/ CallReturns(t)
      PROVE  LastPushed'
  <2>1. /\ queue' = queue
        /\ ~(IsAddTask(call'[t]) /\ call'[t].at = "signal")
        /\ \A u \in Threads \ {t} : call'[u] = call[u]
    <3>1. CASE CallReturns(t)
      BY <3>1 DEF CallReturns, IsAddTask, TypeOK
    <3>2. CASE LockForCall(t) \/ Signal(t)
      BY <3>2, CallGoesOn DEF LockForCall, Signal
    <3>3. CASE SetFlag(t)
      BY <3>3, CallGoesOn DEF SetFlag, IsAddTask
    <3> QED
      BY <1>2, <3>1, <3>2, <3>3
  <2> QED
    BY <2>1 DEF LastPushed, IsAddTask
<1>3. ASSUME NEW t \in Threads, Push(t)
      PROVE  LastPushed'
  <2> DEFINE q == call[t].queue
             k == call[t].task
  <2>1. /\ q \in Runners /\ k \in Tasks
        /\ CallInside(t, q)
        /\ call'[t].queue = q /\ call'[t].task = k
        /\ \A u \in Threads \ {t} : call'[u] = call[u]
    BY <1>3, CallGoesOn DEF Push, CallGoto, Calls, CallInside
  <2>2. queue[q] \in Seq(Tasks)
    BY <2>1 DEF TypeOK
  <2>3. queue' = [queue EXCEPT ![q] = Append(@, k)]
    BY <1>3 DEF Push
  <2> HIDE DEF q, k
  <2>4. /\ queue'[q] = Append(queue[q], k)
        /\ \A p \in Runners \ {q} : queue'[p] = queue[p]
    BY <2>1, <2>3 DEF TypeOK
  <2>5. Append(queue[q], k) # <<>> /\ Append(queue[q], k)[Len(Append(queue[q], k))] = k
    BY <2>1, <2>2
  <2>6. LastPushed!(t)'
    BY <2>1, <2>4, <2>5
  <2>7. ASSUME NEW u \in Threads \ {t}
        PROVE  LastPushed!(u)'
    <3>1. IsAddTask(call[u]) /\ call[u].at = "signal" => call[u].queue \in Runners \ {q}
      BY <2>1 DEF OneHolder, Holds, CallInside, IsAddTask, TypeOK, Calls
    <3> QED
      BY <2>1, <2>4, <3>1 DEF LastPushed
  <2> QED
    BY <2>6, <2>7 DEF LastPushed
<1>4. ASSUME NEW t \in Runners, Look(t)
      PROVE  LastPushed'
  <2>1. /\ call' = call
        /\ PopInside(t)
        /\ \A p \in Runners \ {t} : queue'[p] = queue[p]
    BY <1>4, LoopGoesOn DEF Look, PopInside, TypeOK
  <2>2. ASSUME NEW u \in Threads, IsAddTask(call[u]), call[u].at = "signal"
        PROVE  call[u].queue \in Runners \ {t}
    <3>1. call[u] \in Calls
      BY <2>2 DEF TypeOK, IsAddTask
    <3>2. u # t
      BY <2>1, <2>2 DEF LoopControl, PopInside, IsAddTask
    <3>3. call[u].queue \in Runners /\ Holds(u, call[u].queue)
      BY <2>2, <3>1 DEF Holds, CallInside, IsAddTask, Calls
    <3>4. mutex[t] = t
      BY <2>1 DEF OneHolder, Holds, Threads
    <3> QED
      BY <3>2, <3>3, <3>4 DEF OneHolder
  <2> QED
    BY <2>1, <2>2 DEF LastPushed
<1>5. ASSUME NEW t \in Runners, LoopStep(t), ~Look(t)
      PROVE  LastPushed'
  <2>1. call' = call /\ queue' = queue
    BY <1>5 DEF LoopStep, EnterLoop, LockToPop, Reset, PopReturns, RunReturns, Decide, Wait,
                EndWait
  <2> QED
    BY <2>1 DEF LastPushed
<1>6. CASE UNCHANGED vars
  BY <1>6 DEF vars, LastPushed
<1> QED
  BY <1>1, <1>2, <1>3, <1>4, <1>5, <1>6 DEF Next, CallStep

Inv == TypeOK /\ LoopControl /\ OneHolder /\ LastPushed

(* The inductive invariant is MutexInv, thread by thread.                  *)
LEMMA MutexInvIs == MutexInv <=> Inv
  BY InsideIsHolder DEF MutexInv, Inv, LastPushed, LoopControl

(* Nobody is inside to begin with.                                         *)
LEMMA InitInv ==
  ASSUME Init
  PROVE  Inv
<1>1. <<>> \in Seq(Tasks)
  OBVIOUS
<1>2. TypeOK /\ LoopControl /\ LastPushed
  BY <1>1 DEF Init, TypeOK, LoopPoints, LoopControl, LastPushed, IsAddTask, Threads
<1>3. OneHolder
  BY NoneAssumption DEF Init, OneHolder, Holds, CallInside, PopInside
<1> QED
  BY <1>2, <1>3 DEF Inv

(* No statement, of any thread, disturbs it.                               *)
LEMMA InvStep ==
  ASSUME Inv, [Next]_vars
  PROVE  Inv'
  BY TypeStep, LoopControlStep, HolderStep, LastPushedStep DEF Inv

(* Whatever calls fail and whoever calls, the mutex of a queue holds       *)
(* exactly one thread in, every early return gives it back, and a pushed   *)
(* task is the last of its queue until its SetEvent.                       *)
THEOREM MutexExcludes == Spec => []MutexInv
<1>1. Init => Inv
  BY InitInv
<1>2. Inv /\ [Next]_vars => Inv'
  BY InvStep
<1> QED
  BY <1>1, <1>2, MutexInvIs, PTL DEF Spec

-----------------------------------------------------------------------------
(* The statements implement the coarser steps.                             *)

(* The queue as it was before a push whose SetEvent is still to come.      *)
LEMMA BeforePush ==
  ASSUME NEW S, NEW s \in Seq(S), NEW x \in S
  PROVE  SubSeq(Append(s, x), 1, Len(Append(s, x)) - 1) = s
<1>1. SubSeq(Append(s, x), 1, Len(s)) = s
  OBVIOUS
<1> QED
  BY <1>1

(* A push counts from its SetEvent on: the queue is then what it was with  *)
(* the pushed task at the end.                                             *)
LEMMA AfterPush ==
  ASSUME NEW S, NEW s \in Seq(S), s # <<>>
  PROVE  Append(SubSeq(s, 1, Len(s) - 1), s[Len(s)]) = s
  OBVIOUS

(* A queue that shows no task although it holds one holds one task.        *)
LEMMA OneLeft ==
  ASSUME NEW S, NEW s \in Seq(S), s # <<>>, SubSeq(s, 1, Len(s) - 1) = <<>>
  PROVE  Len(s) = 1
<1>1. s = Append(<<>>, s[Len(s)])
  BY AfterPush
<1>2. Len(Append(<<>>, s[Len(s)])) = 1
  OBVIOUS
<1> QED
  BY <1>1, <1>2

(* The steps see of a thread what its call says, and of a queue and its    *)
(* runner what their variables and the calls that push say.                *)
LEMMA SameCall ==
  ASSUME NEW t \in Threads, call'[t] = call[t]
  PROVE  /\ Posting(t)' = Posting(t)
         /\ Signalling(t)' = Signalling(t)
  BY DEF Posting, Signalling, IsAddTask, IsShutdown

(* A queue shows what it showed while its variables and its pushers stay.  *)
LEMMA SameQueue ==
  ASSUME NEW q \in Runners, Pushing(q)' <=> Pushing(q),
         queue'[q] = queue[q], pc'[q] = pc[q], task'[q] = task[q]
  PROVE  /\ Arrived(q)' = Arrived(q)
         /\ Running(q)' = Running(q)
         /\ LoopPoint(q)' = LoopPoint(q)
<1>1. Popping(q)' <=> Popping(q)
  BY DEF Popping
<1>2. Running(q)' = Running(q)
  BY <1>1 DEF Running
<1>3. LoopPoint(q)' = LoopPoint(q)
  BY <1>2 DEF LoopPoint
<1>4. Arrived(q)' = Arrived(q)
  BY <1>1 DEF Arrived
<1> QED
  BY <1>2, <1>3, <1>4

(* A step that shows nothing is none.                                      *)
LEMMA Stutters ==
  ASSUME UNCHANGED <<shuttingDown, wakeEvent, parked, fresh>>,
         \A q \in Runners : /\ Arrived(q)' = Arrived(q)
                            /\ Running(q)' = Running(q)
                            /\ LoopPoint(q)' = LoopPoint(q),
         \A t \in Threads : /\ Posting(t)' = Posting(t)
                            /\ Signalling(t)' = Signalling(t)
  PROVE  UNCHANGED Coarse!vars
  BY DEF Coarse!vars, Coarse!queueVars

(* Who is inside is alone: nobody else pushes, pops or shuts down.         *)
LEMMA HolderAlone ==
  ASSUME Inv, NEW q \in Runners, NEW t \in Threads, Holds(t, q)
  PROVE  /\ Pushing(q) => IsAddTask(call[t]) /\ call[t].queue = q /\ call[t].at = "signal"
         /\ CallInside(t, q) => ~PopInside(q) /\ ~Popping(q)
         /\ \A u \in Threads : Signalling(u) = q =>
              u = t /\ IsShutdown(call[t]) /\ call[t].at = "signal"
<1>1. mutex[q] = t
  BY DEF Inv, OneHolder
<1>2. \A u \in Threads : Holds(u, q) => u = t
  BY <1>1 DEF Inv, OneHolder
<1>3. Pushing(q) => IsAddTask(call[t]) /\ call[t].queue = q /\ call[t].at = "signal"
  BY <1>2 DEF Pushing, IsAddTask, Holds, CallInside
<1>4. CallInside(t, q) => ~PopInside(q)
  BY <1>2 DEF Holds, CallInside, PopInside, Inv, LoopControl, Threads
<1>5. None \notin Runners
  BY NoneAssumption DEF Threads
<1>6. ASSUME NEW u \in Threads, Signalling(u) = q
      PROVE  u = t /\ IsShutdown(call[t]) /\ call[t].at = "signal"
  BY <1>2, <1>5, <1>6 DEF Signalling, IsShutdown, Holds, CallInside
<1> QED
  BY <1>3, <1>4, <1>6 DEF Popping, PopInside

(* A Shutdown that begins does not show before it sets the flag.           *)
LEMMA StartRefines ==
  ASSUME Inv, NEW t \in Threads, NEW q \in Runners, CallShutdown(t, q)
  PROVE  UNCHANGED Coarse!vars
<1>1. TypeOK
  BY DEF Inv
<1>2. Begin(t, q, None) /\ call[t] = None
  BY DEF CallShutdown, OwnCode
<1>3. Posting(t)' = Posting(t) /\ Signalling(t)' = Signalling(t)
  BY <1>1, <1>2, CallBegins DEF Posting, Signalling, IsAddTask, IsShutdown
<1>4. \A u \in Threads \ {t} : call'[u] = call[u]
  BY <1>1, <1>2, CallBegins
<1>5. \A p \in Runners : Pushing(p)' <=> Pushing(p)
  BY <1>1, <1>2, <1>4, CallBegins DEF Pushing, IsAddTask
<1>6. UNCHANGED <<queue, pc, task, shuttingDown, wakeEvent, parked, fresh>>
  BY DEF CallShutdown
<1> QED
  BY <1>3, <1>4, <1>5, <1>6, SameCall, SameQueue, Stutters

(* The look at the flag is where an AddTask is accepted or refused.        *)
LEMMA PostRefines ==
  ASSUME Inv, NEW t \in Threads, NEW q \in Runners, NEW k \in Tasks, CallAddTask(t, q, k)
  PROVE  Coarse!Post(t, q, k)
<1>1. TypeOK
  BY DEF Inv
<1>2. /\ call[t] = None
      /\ t \in Runners => pc[t] \in {"idle", "run", "exited"}
      /\ UNCHANGED call \/ Begin(t, q, k)
  BY DEF CallAddTask, OwnCode
<1>3. \A u \in Threads \ {t} : call'[u] = call[u]
  BY <1>1, <1>2, CallBegins
<1>4. \A p \in Runners : Pushing(p)' <=> Pushing(p)
  BY <1>1, <1>2, <1>3, CallBegins DEF Pushing, IsAddTask
<1>5. UNCHANGED <<queue, pc, task, shuttingDown, wakeEvent, parked>>
  BY DEF CallAddTask
<1>6. \A p \in Runners : /\ Arrived(p)' = Arrived(p)
                         /\ Running(p)' = Running(p)
                         /\ LoopPoint(p)' = LoopPoint(p)
  BY <1>4, <1>5, SameQueue
<1>7. Posting(t) = None /\ Signalling(t) = None /\ Signalling(t)' = None
  BY <1>1, <1>2, CallBegins DEF Posting, Signalling, IsAddTask, IsShutdown
<1>8. Posting(t)' = IF shuttingDown[q] THEN None ELSE [queue |-> q, task |-> k]
  <2>1. CASE shuttingDown[q]
    BY <2>1, <1>2 DEF CallAddTask, Posting, IsAddTask
  <2>2. CASE ~shuttingDown[q]
    <3>1. Begin(t, q, k)
      BY <2>2 DEF CallAddTask
    <3>2. IsAddTask(call'[t])
      BY <1>1, <3>1, CallBegins, NoneAssumption DEF IsAddTask
    <3> QED
      BY <1>1, <2>2, <3>1, <3>2, CallBegins DEF Posting, IsAddTask
  <2> QED
    BY <2>1, <2>2
<1>9. \A u \in Threads \ {t} : Posting(u)' = Posting(u) /\ Signalling(u)' = Signalling(u)
  BY <1>3, SameCall
<1>10. t \in Runners => LoopPoint(t) \in {"idle", "run", "exited"}
  BY <1>2 DEF LoopPoint
<1>11. k \in fresh /\ fresh' = fresh \ {k}
  BY DEF CallAddTask
<1>12. Coarse!OwnCode(t)
  BY <1>7, <1>10 DEF Coarse!OwnCode
<1>13. Coarse!AddTaskCheck(t, q, k)
  BY <1>5, <1>6, <1>7, <1>8, <1>9 DEF Coarse!AddTaskCheck
<1> QED
  BY <1>11, <1>12, <1>13 DEF Coarse!Post

(* Taking the mutex and giving it back do not show.                        *)
LEMMA GuardRefines ==
  ASSUME Inv, NEW t \in Threads, LockForCall(t) \/ CallReturns(t)
  PROVE  UNCHANGED Coarse!vars
<1>1. TypeOK
  BY DEF Inv
<1>2. UNCHANGED <<queue, pc, task, shuttingDown, wakeEvent, parked, fresh>>
  BY DEF LockForCall, CallReturns
<1>3. \A u \in Threads \ {t} : call'[u] = call[u]
  BY <1>1, CallGoesOn DEF LockForCall, CallReturns, TypeOK
<1>4. /\ Posting(t)' = Posting(t) /\ Signalling(t)' = Signalling(t)
      /\ ~(IsAddTask(call[t]) /\ call[t].at = "signal")
      /\ ~(IsAddTask(call[t]) /\ call[t].at = "signal")'
  <2>1. CASE LockForCall(t)
    <3>1. CallGoto(t, "lock", "change")
      BY <2>1 DEF LockForCall
    <3>2. call[t] # None /\ call'[t] # None
      BY <1>1, <3>1, CallGoesOn, NoneAssumption DEF CallGoto
    <3> QED
      BY <1>1, <3>1, <3>2, CallGoesOn DEF Posting, Signalling, IsAddTask, IsShutdown
  <2>2. CASE CallReturns(t)
    <3>1. call[t].at = "unlock" /\ call'[t] = None
      BY <1>1, <2>2 DEF CallReturns, TypeOK
    <3> QED
      BY <3>1 DEF Posting, Signalling, IsAddTask, IsShutdown
  <2> QED
    BY <2>1, <2>2
<1>5. \A p \in Runners : Pushing(p)' <=> Pushing(p)
  BY <1>3, <1>4 DEF Pushing
<1> QED
  BY <1>2, <1>3, <1>4, <1>5, SameCall, SameQueue, Stutters

(* The push does not show before its SetEvent does.                        *)
LEMMA PushRefines ==
  ASSUME Inv, NEW t \in Threads, Push(t)
  PROVE  UNCHANGED Coarse!vars
<1>1. TypeOK
  BY DEF Inv
<1>2. CallGoto(t, "change", "signal") /\ call[t] # None /\ call[t].task # None
  BY DEF Push, CallGoto
<1>3. call[t].queue \in Runners /\ call[t].task \in Tasks /\ call'[t] # None
  BY <1>1, <1>2, CallGoesOn, NoneAssumption DEF Calls
<1>4. PICK q \in Runners, k \in Tasks : call[t].queue = q /\ call[t].task = k
  BY <1>3
<1>5. /\ call[t].at = "change"
      /\ call'[t].queue = q /\ call'[t].task = k /\ call'[t].at = "signal"
      /\ k # None
      /\ \A u \in Threads \ {t} : call'[u] = call[u]
  BY <1>1, <1>2, <1>4, CallGoesOn
<1>6. UNCHANGED <<pc, task, shuttingDown, wakeEvent, parked, fresh>>
  BY DEF Push
<1>7. /\ queue[q] \in Seq(Tasks)
      /\ queue'[q] = Append(queue[q], k)
      /\ \A p \in Runners \ {q} : queue'[p] = queue[p]
  BY <1>1, <1>4 DEF Push, TypeOK
<1>8. ~Pushing(q) /\ ~PopInside(q) /\ ~Popping(q)
  <2>1. CallInside(t, q) /\ Holds(t, q)
    BY <1>2, <1>4, <1>5 DEF CallInside, Holds
  <2> QED
    BY <2>1, <1>5, HolderAlone
<1>9. Arrived(q)' = Arrived(q) /\ Running(q)' = Running(q) /\ LoopPoint(q)' = LoopPoint(q)
  <2>1. Pushing(q)'
    BY <1>3, <1>5 DEF Pushing, IsAddTask
  <2>2. ~Popping(q)'
    BY <1>6, <1>8 DEF Popping, PopInside
  <2>3. Arrived(q) = queue[q]
    BY <1>8 DEF Arrived
  <2>4. Arrived(q)' = SubSeq(Append(queue[q], k), 1, Len(Append(queue[q], k)) - 1)
    BY <1>7, <2>1, <2>2 DEF Arrived
  <2>5. Running(q)' = Running(q)
    BY <1>6, <1>8, <2>2 DEF Running
  <2>6. LoopPoint(q)' = LoopPoint(q)
    BY <1>6, <2>5 DEF LoopPoint
  <2> QED
    BY <2>3, <2>4, <2>5, <2>6, <1>7, BeforePush
<1>10. \A p \in Runners \ {q} : Pushing(p)' <=> Pushing(p)
  BY <1>4, <1>5 DEF Pushing, IsAddTask
<1>11. \A p \in Runners \ {q} : /\ Arrived(p)' = Arrived(p)
                               /\ Running(p)' = Running(p)
                               /\ LoopPoint(p)' = LoopPoint(p)
  BY <1>6, <1>7, <1>10, SameQueue
<1>12. Posting(t)' = Posting(t) /\ Signalling(t)' = Signalling(t)
  BY <1>2, <1>3, <1>4, <1>5 DEF Posting, Signalling, IsAddTask, IsShutdown
<1>13. \A u \in Threads \ {t} : Posting(u)' = Posting(u) /\ Signalling(u)' = Signalling(u)
  BY <1>5, SameCall
<1> QED
  BY <1>6, <1>9, <1>11, <1>12, <1>13, Stutters

(* Setting the flag, inside, is the first step of Shutdown.                *)
LEMMA FlagRefines ==
  ASSUME Inv, NEW t \in Threads, SetFlag(t)
  PROVE  \E q \in Runners : Coarse!CallShutdown(t, q)
<1>1. TypeOK
  BY DEF Inv
<1>2. CallGoto(t, "change", "signal") /\ call[t] # None /\ call[t].task = None
  BY DEF SetFlag, CallGoto
<1>3. call[t].queue \in Runners /\ call'[t] # None
  BY <1>1, <1>2, CallGoesOn, NoneAssumption DEF Calls
<1>4. PICK q \in Runners : call[t].queue = q
  BY <1>3
<1>5. /\ call[t].at = "change"
      /\ call'[t].queue = q /\ call'[t].task = None /\ call'[t].at = "signal"
      /\ \A u \in Threads \ {t} : call'[u] = call[u]
  BY <1>1, <1>2, <1>4, CallGoesOn
<1>6. /\ UNCHANGED <<queue, pc, task, wakeEvent, parked, fresh>>
      /\ shuttingDown' = [shuttingDown EXCEPT ![q] = TRUE]
  BY <1>4 DEF SetFlag
<1>7. CallInside(t, q) /\ Holds(t, q)
  BY <1>2, <1>4, <1>5 DEF CallInside, Holds
<1>8. \A u \in Threads : Signalling(u) # q
  BY <1>5, <1>7, HolderAlone
<1>9. \A p \in Runners : Pushing(p)' <=> Pushing(p)
  BY <1>2, <1>5 DEF Pushing, IsAddTask
<1>10. \A p \in Runners : /\ Arrived(p)' = Arrived(p)
                         /\ Running(p)' = Running(p)
                         /\ LoopPoint(p)' = LoopPoint(p)
  BY <1>6, <1>9, SameQueue
<1>11. /\ Posting(t) = None /\ Posting(t)' = None
       /\ Signalling(t) = None /\ Signalling(t)' = q
  BY <1>2, <1>3, <1>5 DEF Posting, Signalling, IsAddTask, IsShutdown
<1>12. \A u \in Threads \ {t} : Posting(u)' = Posting(u) /\ Signalling(u)' = Signalling(u)
  BY <1>5, SameCall
<1>13. t \in Runners => LoopPoint(t) \in {"idle", "run", "exited"}
  BY <1>2 DEF Inv, LoopControl, LoopPoint
<1>14. Coarse!OwnCode(t)
  BY <1>11, <1>13 DEF Coarse!OwnCode
<1>15. Coarse!Shutdown(t, q)
  BY <1>6, <1>8, <1>10, <1>11, <1>12
  DEF Coarse!Shutdown, Coarse!Locked, Coarse!Threads, Threads
<1> QED
  BY <1>6, <1>14, <1>15 DEF Coarse!CallShutdown

(* With its SetEvent an AddTask has pushed, and a Shutdown is over.        *)
LEMMA SignalRefines ==
  ASSUME Inv, NEW t \in Threads, Signal(t)
  PROVE  Coarse!FinishPost(t) \/ Coarse!FinishShutdown(t)
<1>1. TypeOK
  BY DEF Inv
<1>2. CallGoto(t, "signal", "unlock") /\ call[t] # None
  BY DEF Signal, CallGoto
<1>3. call[t].queue \in Runners /\ call[t].task \in Tasks \cup {None} /\ call'[t] # None
  BY <1>1, <1>2, CallGoesOn, NoneAssumption DEF Calls
<1>4. PICK q \in Runners, k \in Tasks \cup {None} : call[t].queue = q /\ call[t].task = k
  BY <1>3
<1>5. /\ call[t].at = "signal"
      /\ call'[t].queue = q /\ call'[t].task = k /\ call'[t].at = "unlock"
      /\ \A u \in Threads \ {t} : call'[u] = call[u]
  BY <1>1, <1>2, <1>4, CallGoesOn
<1>6. UNCHANGED <<queue, pc, task, shuttingDown, fresh>> /\ SetEvent
  BY DEF Signal
<1>7. CallInside(t, q) /\ Holds(t, q)
  BY <1>2, <1>4, <1>5 DEF CallInside, Holds
<1>8. \A u \in Threads \ {t} : Posting(u)' = Posting(u) /\ Signalling(u)' = Signalling(u)
  BY <1>5, SameCall
<1>9. \A p \in Runners \ {q} : Pushing(p)' <=> Pushing(p)
  BY <1>4, <1>5 DEF Pushing, IsAddTask
<1>10. \A p \in Runners \ {q} : /\ Arrived(p)' = Arrived(p)
                               /\ Running(p)' = Running(p)
                               /\ LoopPoint(p)' = LoopPoint(p)
  BY <1>6, <1>9, SameQueue
<1>11. CASE k # None
  <2>1. /\ Posting(t) = [queue |-> q, task |-> k] /\ Posting(t)' = None
        /\ Signalling(t) = None /\ Signalling(t)' = None
    BY <1>2, <1>3, <1>4, <1>5, <1>11 DEF Posting, Signalling, IsAddTask, IsShutdown
  <2>2. [queue |-> q, task |-> k] # None
    BY <1>11, NoneAssumption DEF Posts
  <2>3. \A u \in Threads : Signalling(u) # q
    BY <1>4, <1>7, <1>11, HolderAlone DEF IsShutdown
  <2>4. Pushing(q) /\ ~Popping(q)
    BY <1>2, <1>4, <1>5, <1>7, <1>11, HolderAlone DEF Pushing, IsAddTask
  <2>5. ~Pushing(q)'
    BY <1>5, <1>7 DEF Pushing, IsAddTask, Holds, CallInside, Inv, OneHolder
  <2>6. ~Popping(q)'
    BY <1>6, <2>4 DEF Popping
  <2>7. /\ queue[q] \in Seq(Tasks) /\ queue[q] # <<>>
        /\ queue[q][Len(queue[q])] = k
    BY <1>1, <1>2, <1>4, <1>5, <1>11 DEF TypeOK, Inv, LastPushed, IsAddTask
  <2>8. Arrived(q)' = Append(Arrived(q), k)
    <3>1. Arrived(q) = SubSeq(queue[q], 1, Len(queue[q]) - 1)
      BY <2>4 DEF Arrived
    <3>2. Arrived(q)' = queue[q]
      BY <1>6, <2>5, <2>6 DEF Arrived
    <3> QED
      BY <3>1, <3>2, <2>7, AfterPush
  <2>9. Running(q)' = Running(q)
    BY <1>6, <2>4, <2>6 DEF Running
  <2>10. LoopPoint(q)' = LoopPoint(q)
    BY <1>6, <2>9 DEF LoopPoint
  <2>11. Coarse!AddTaskPush(t)
    <3> DEFINE queues == [p \in Runners |-> Arrived(p)]
               posts == [u \in Threads |-> Posting(u)]
    <3>1. /\ posts[t] # None
          /\ posts[t].queue = q
          /\ posts[t].task = k
      BY <2>1, <2>2
    <3>2. ~Coarse!Locked(q)
      BY <2>3 DEF Coarse!Locked, Coarse!Threads, Threads
    <3>3. queues' = [queues EXCEPT ![q] = Append(@, k)]
      BY <1>10, <2>8
    <3>4. posts' = [posts EXCEPT ![t] = None]
      BY <1>8, <2>1
    <3>5. UNCHANGED <<[p \in Runners |-> Running(p)], [p \in Runners |-> LoopPoint(p)],
                      [u \in Threads |-> Signalling(u)], shuttingDown>>
      BY <1>6, <1>8, <1>10, <2>1, <2>9, <2>10
    <3> HIDE DEF queues, posts
    <3>6. queues' = [queues EXCEPT ![posts[t].queue] = Append(@, posts[t].task)]
      BY <3>1, <3>3
    <3>7. ~Coarse!Locked(posts[t].queue)
      BY <3>1, <3>2
    <3> QED
      BY <3>1, <3>4, <3>5, <3>6, <3>7 DEF Coarse!AddTaskPush, queues, posts
  <2> QED
    BY <1>6, <2>11
    DEF SetEvent, Coarse!FinishPost, Coarse!AddTaskOkay, Coarse!AddTaskCouldNotSetEvent,
        Coarse!SetEvent, Coarse!SetEventFails
<1>12. CASE k = None
  <2>1. /\ Posting(t) = None /\ Posting(t)' = None
        /\ Signalling(t) = q /\ Signalling(t)' = None
    BY <1>2, <1>3, <1>4, <1>5, <1>12 DEF Posting, Signalling, IsAddTask, IsShutdown
  <2>2. q # None
    BY NoneAssumption DEF Threads
  <2>3. Pushing(q)' <=> Pushing(q)
    BY <1>4, <1>5, <1>12 DEF Pushing, IsAddTask
  <2>4. /\ Arrived(q)' = Arrived(q)
        /\ Running(q)' = Running(q)
        /\ LoopPoint(q)' = LoopPoint(q)
    BY <1>6, <2>3, SameQueue
  <2>5. Coarse!ShutdownSignals(t)
    BY <1>6, <1>8, <1>10, <2>1, <2>2, <2>4
    DEF SetEvent, Coarse!ShutdownSignals, Coarse!SetEvent, Coarse!SetEventFails
  <2> QED
    BY <1>6, <2>5 DEF Coarse!FinishShutdown
<1> QED
  BY <1>11, <1>12

(* A step of the loop shows of its runner and the runner's queue only.     *)
LEMMA LoopSteps ==
  ASSUME Inv, NEW t \in Runners, LoopStep(t)
  PROVE  /\ UNCHANGED <<call, shuttingDown, fresh>>
         /\ \A p \in Runners : Pushing(p)' <=> Pushing(p)
         /\ \A u \in Threads : Posting(u)' = Posting(u) /\ Signalling(u)' = Signalling(u)
         /\ \A p \in Runners \ {t} : /\ Arrived(p)' = Arrived(p)
                                     /\ Running(p)' = Running(p)
                                     /\ LoopPoint(p)' = LoopPoint(p)
<1>1. TypeOK
  BY DEF Inv
<1>2. UNCHANGED <<call, shuttingDown, fresh>>
  BY DEF LoopStep, EnterLoop, LockToPop, Reset, Look, PopReturns, RunReturns, Decide, Wait,
         EndWait
<1>3. \A p \in Runners : Pushing(p)' <=> Pushing(p)
  BY <1>2 DEF Pushing, IsAddTask
<1>4. \A u \in Threads : Posting(u)' = Posting(u) /\ Signalling(u)' = Signalling(u)
  BY <1>2, SameCall
<1>5. \A p \in Runners \ {t} : queue'[p] = queue[p] /\ pc'[p] = pc[p] /\ task'[p] = task[p]
  <2>1. \A p \in Runners \ {t} : pc'[p] = pc[p]
    BY <1>1, LoopGoesOn
    DEF LoopStep, EnterLoop, LockToPop, Reset, Look, PopReturns, RunReturns, Decide, Wait,
        EndWait
  <2>2. CASE Look(t) \/ RunReturns(t)
    BY <1>1, <2>1, <2>2 DEF Look, RunReturns, TypeOK
  <2>3. CASE ~Look(t) /\ ~RunReturns(t)
    <3>1. UNCHANGED <<queue, task>>
      BY <2>3 DEF LoopStep, EnterLoop, LockToPop, Reset, PopReturns, Decide, Wait, EndWait
    <3> QED
      BY <2>1, <3>1
  <2> QED
    BY <2>2, <2>3
<1>6. \A p \in Runners \ {t} : /\ Arrived(p)' = Arrived(p)
                              /\ Running(p)' = Running(p)
                              /\ LoopPoint(p)' = LoopPoint(p)
  BY <1>3, <1>5, SameQueue
<1> QED
  BY <1>2, <1>3, <1>4, <1>6

(* The mutex of TryPopTask does not show, and neither does its look: what  *)
(* it finds is settled when it resets the event.                           *)
LEMMA PopGuardRefines ==
  ASSUME Inv, NEW t \in Runners, LockToPop(t) \/ Look(t) \/ PopReturns(t)
  PROVE  UNCHANGED Coarse!vars
<1>1. TypeOK /\ LoopStep(t)
  BY DEF Inv, LoopStep
<1>2. UNCHANGED <<shuttingDown, wakeEvent, parked, fresh>>
  BY DEF LockToPop, Look, PopReturns
<1>3. Arrived(t)' = Arrived(t) /\ Running(t)' = Running(t) /\ LoopPoint(t)' = LoopPoint(t)
  <2>1. CASE LockToPop(t) \/ PopReturns(t)
    <3>1. /\ queue' = queue /\ task' = task
          /\ \/ pc[t] = "lock" /\ pc'[t] = "reset"
             \/ pc[t] = "unlock" /\ pc'[t] = IF task[t] # None THEN "run" ELSE "decide"
      BY <1>1, <2>1, LoopGoesOn DEF LockToPop, PopReturns
    <3>2. ~Popping(t) /\ ~Popping(t)'
      BY <3>1 DEF Popping
    <3>3. Running(t)' = task[t] /\ Running(t) = task[t]
      BY <3>1, <3>2 DEF Running
    <3>4. LoopPoint(t)' = LoopPoint(t)
      BY <3>1, <3>3 DEF LoopPoint
    <3>5. Arrived(t)' = Arrived(t)
      BY <1>1, <3>1, <3>2, LoopSteps DEF Arrived
    <3> QED
      BY <3>3, <3>4, <3>5
  <2>2. CASE Look(t)
    <3>1. /\ pc[t] = "look" /\ pc'[t] = "unlock"
          /\ queue[t] = <<>> => queue' = queue /\ task' = task
          /\ queue[t] # <<>> => queue'[t] = Tail(queue[t]) /\ task'[t] = Head(queue[t])
      BY <1>1, <2>2, LoopGoesOn DEF Look, TypeOK
    <3>2. ~Pushing(t) /\ ~Pushing(t)'
      <4>1. Holds(t, t) /\ ~CallInside(t, t)
        BY <3>1 DEF Holds, PopInside, CallInside, Inv, LoopControl
      <4> QED
        BY <1>1, <4>1, HolderAlone, LoopSteps DEF CallInside, IsAddTask, Threads
    <3>3. (Popping(t) <=> queue[t] # <<>>) /\ ~Popping(t)'
      BY <3>1 DEF Popping
    <3>4. Arrived(t)' = Arrived(t)
      BY <3>1, <3>2, <3>3 DEF Arrived
    <3>5. Running(t)' = Running(t)
      BY <3>1, <3>3 DEF Running
    <3>6. LoopPoint(t)' = LoopPoint(t)
      BY <3>1, <3>5 DEF LoopPoint
    <3> QED
      BY <3>4, <3>5, <3>6
  <2> QED
    BY <2>1, <2>2
<1> QED
  BY <1>1, <1>2, <1>3, LoopSteps, Stutters

(* With its ResetEvent TryPopTask has popped, or has found nothing.        *)
LEMMA ResetRefines ==
  ASSUME Inv, NEW t \in Runners, Reset(t)
  PROVE  Coarse!PopTask(t) \/ Coarse!PopNothing(t)
<1>1. TypeOK /\ LoopStep(t) /\ t \in Threads
  BY DEF Inv, LoopStep, Threads
<1>2. UNCHANGED <<queue, task, shuttingDown, parked>>
  BY DEF Reset
<1>3. /\ pc[t] = "reset"
      /\ \/ pc'[t] = "look" /\ wakeEvent' = FALSE
         \/ pc'[t] = "unlock" /\ "ResetEvent" \in Faults /\ wakeEvent' = wakeEvent
  BY <1>1, LoopGoesOn DEF Reset
<1>4. Holds(t, t) /\ call[t] = None /\ task[t] = None
  BY <1>3 DEF Holds, PopInside, Inv, LoopControl
<1>5. ~Pushing(t) /\ ~Pushing(t)' /\ \A u \in Threads : Signalling(u) # t
  BY <1>1, <1>4, HolderAlone, LoopSteps DEF IsAddTask, IsShutdown
<1>6. ~Coarse!Locked(t)
  BY <1>5 DEF Coarse!Locked, Coarse!Threads, Threads
<1>7. Arrived(t) = queue[t] /\ Running(t) = None /\ LoopPoint(t) = "pop"
  BY <1>3, <1>4, <1>5 DEF Arrived, Running, LoopPoint, Popping
<1>8. CASE pc'[t] = "look" /\ wakeEvent' = FALSE /\ queue[t] # <<>>
  <2>1. Popping(t)'
    BY <1>2, <1>8 DEF Popping
  <2>2. Arrived(t)' = Tail(queue[t])
    BY <1>2, <1>5, <2>1 DEF Arrived
  <2>3. Running(t)' = Head(queue[t])
    BY <1>2, <2>1 DEF Running
  <2>4. Head(queue[t]) # None
    BY <1>1, <1>8, NoneAssumption DEF TypeOK
  <2>5. LoopPoint(t)' = "run"
    BY <1>8, <2>3, <2>4 DEF LoopPoint
  <2>6. Coarse!Goto(t, "pop", "run")
    BY <1>1, <1>7, <2>5, LoopSteps DEF Coarse!Goto
  <2> QED
    BY <1>1, <1>2, <1>6, <1>7, <1>8, <2>2, <2>3, <2>6, LoopSteps
    DEF Coarse!PopTask, Coarse!ResetEvent
<1>9. CASE \/ pc'[t] = "look" /\ wakeEvent' = FALSE /\ queue[t] = <<>>
           \/ pc'[t] = "unlock" /\ "ResetEvent" \in Faults /\ wakeEvent' = wakeEvent
  <2>1. ~Popping(t)'
    BY <1>2, <1>9 DEF Popping
  <2>2. Arrived(t)' = Arrived(t)
    BY <1>2, <1>5, <1>7, <2>1 DEF Arrived
  <2>3. Running(t)' = Running(t)
    BY <1>2, <1>4, <1>7, <2>1 DEF Running
  <2>4. LoopPoint(t)' = "decide"
    BY <1>7, <1>9, <2>3 DEF LoopPoint
  <2>5. Coarse!Goto(t, "pop", "decide")
    BY <1>1, <1>7, <2>4, LoopSteps DEF Coarse!Goto
  <2> QED
    BY <1>1, <1>2, <1>6, <1>7, <1>9, <2>2, <2>3, <2>5, LoopSteps
    DEF Coarse!PopNothing, Coarse!ResetEvent, Coarse!ResetEventFails
<1> QED
  BY <1>3, <1>8, <1>9

(* Outside TryPopTask the loop takes the coarser steps one by one.         *)
LEMMA RestRefines ==
  ASSUME Inv, NEW t \in Runners,
         EnterLoop(t) \/ RunReturns(t) \/ Decide(t) \/ Wait(t) \/ EndWait(t)
  PROVE  Coarse!RunnerStep(t)
<1>1. TypeOK /\ LoopStep(t) /\ t \in Threads
  BY DEF Inv, LoopStep, Threads
<1>2. queue' = queue
  BY DEF EnterLoop, RunReturns, Decide, Wait, EndWait
<1>3. /\ pc[t] \notin {"lock", "reset", "look", "unlock"}
      /\ pc'[t] \notin {"reset", "look", "unlock"}
  BY <1>1, LoopGoesOn DEF EnterLoop, RunReturns, Decide, Wait, EndWait
<1>4. ~Popping(t) /\ ~Popping(t)'
  BY <1>3 DEF Popping
<1>5. Arrived(t)' = Arrived(t)
  BY <1>1, <1>2, <1>4, LoopSteps DEF Arrived
<1>6. Running(t) = task[t] /\ Running(t)' = task'[t]
  BY <1>4 DEF Running
<1>7. /\ LoopPoint(t) = pc[t]
      /\ LoopPoint(t)' = IF pc'[t] = "lock" THEN "pop" ELSE pc'[t]
  BY <1>3 DEF LoopPoint
<1>8. ASSUME NEW from, NEW to, Goto(t, from, to)
      PROVE  Coarse!Goto(t, from, IF to = "lock" THEN "pop" ELSE to)
  <2>1. pc[t] = from /\ pc'[t] = to
    BY <1>1, <1>8, LoopGoesOn
  <2> QED
    BY <1>1, <1>7, <2>1, LoopSteps DEF Coarse!Goto
<1>9. /\ UNCHANGED <<[q \in Runners |-> Arrived(q)], [u \in Threads |-> Posting(u)],
                     [u \in Threads |-> Signalling(u)], shuttingDown, fresh>>
      /\ task' = task =>
           [u \in Runners |-> Running(u)]' = [u \in Runners |-> Running(u)]
  BY <1>1, <1>5, <1>6, LoopSteps
<1>10. CASE EnterLoop(t)
  <2>1. Coarse!Goto(t, "idle", "pop")
    BY <1>8, <1>10 DEF EnterLoop
  <2> QED
    BY <1>9, <1>10, <2>1
    DEF EnterLoop, Coarse!EnterLoop, Coarse!LoopStep, Coarse!RunnerStep
<1>11. CASE RunReturns(t)
  <2>1. Coarse!Goto(t, "run", "pop")
    BY <1>8, <1>11 DEF RunReturns
  <2>2. Posting(t) = None /\ Signalling(t) = None
    BY <1>11 DEF RunReturns, Posting, Signalling, IsAddTask, IsShutdown
  <2>3. Running(t)' = None
    BY <1>1, <1>6, <1>11 DEF RunReturns, TypeOK
  <2>4. UNCHANGED <<wakeEvent, parked>>
    BY <1>11 DEF RunReturns
  <2> QED
    BY <1>1, <1>9, <2>1, <2>2, <2>3, <2>4, LoopSteps
    DEF Coarse!RunReturns, Coarse!RunnerStep
<1>12. CASE Decide(t)
  <2>1. Coarse!Goto(t, "decide", IF shuttingDown[t] THEN "exited" ELSE "wait")
    BY <1>8, <1>12 DEF Decide
  <2> QED
    BY <1>9, <1>12, <2>1 DEF Decide, Coarse!Decide, Coarse!LoopStep, Coarse!RunnerStep
<1>13. CASE Wait(t)
  <2>1. CASE Goto(t, "wait", "waiting")
    <3>1. Coarse!Goto(t, "wait", "waiting")
      BY <1>8, <2>1
    <3>2. parked' = IF wakeEvent THEN parked ELSE parked \cup {t}
      BY <1>13, <2>1, <1>1, LoopGoesOn DEF Wait
    <3> QED
      BY <1>9, <1>13, <3>1, <3>2
      DEF Wait, Coarse!StartWait, Coarse!LoopStep, Coarse!RunnerStep
  <2>2. CASE "Wait" \in Faults /\ Goto(t, "wait", "lock") /\ UNCHANGED parked
    <3>1. Coarse!Goto(t, "wait", "pop")
      BY <1>8, <2>2
    <3> QED
      BY <1>9, <1>13, <2>2, <3>1
      DEF Wait, Coarse!WaitFails, Coarse!LoopStep, Coarse!RunnerStep
  <2> QED
    BY <1>13, <2>1, <2>2 DEF Wait
<1>14. CASE EndWait(t)
  <2>1. Coarse!Goto(t, "waiting", "pop")
    BY <1>8, <1>14 DEF EndWait
  <2> QED
    BY <1>9, <1>14, <2>1
    DEF EndWait, Coarse!EndWait, Coarse!ResetEvent, Coarse!ResetEventFails, Coarse!LoopStep,
        Coarse!RunnerStep
<1> QED
  BY <1>10, <1>11, <1>12, <1>13, <1>14

(* Every statement is a coarser step or does not show.                     *)
LEMMA StepRefines ==
  ASSUME Inv, [Next]_vars
  PROVE  [Coarse!Next]_(Coarse!vars)
<1>1. ASSUME NEW t \in Threads, NEW q \in Runners, CallShutdown(t, q)
      PROVE  UNCHANGED Coarse!vars
  BY <1>1, StartRefines
<1>2. ASSUME NEW t \in Threads, NEW q \in Runners, NEW k \in Tasks, CallAddTask(t, q, k)
      PROVE  Coarse!Next
  BY <1>2, PostRefines DEF Coarse!Next, Coarse!Threads, Threads
<1>3. ASSUME NEW t \in Threads, CallStep(t)
      PROVE  Coarse!Next \/ UNCHANGED Coarse!vars
  <2>1. CASE LockForCall(t) \/ CallReturns(t)
    BY <2>1, GuardRefines
  <2>2. CASE Push(t)
    BY <2>2, PushRefines
  <2>3. CASE SetFlag(t)
    BY <2>3, FlagRefines DEF Coarse!Next, Coarse!Threads, Threads
  <2>4. CASE Signal(t)
    BY <2>4, SignalRefines DEF Coarse!Next, Coarse!Threads, Threads
  <2> QED
    BY <1>3, <2>1, <2>2, <2>3, <2>4 DEF CallStep
<1>4. ASSUME NEW t \in Runners, LoopStep(t)
      PROVE  Coarse!Next \/ UNCHANGED Coarse!vars
  <2>1. CASE LockToPop(t) \/ Look(t) \/ PopReturns(t)
    BY <2>1, PopGuardRefines
  <2>2. CASE Reset(t)
    <3>1. fresh' = fresh
      BY <2>2 DEF Reset
    <3>2. Coarse!RunnerStep(t)
      BY <2>2, <3>1, ResetRefines DEF Coarse!RunnerStep, Coarse!LoopStep
    <3> QED
      BY <3>2 DEF Coarse!Next
  <2>3. CASE EnterLoop(t) \/ RunReturns(t) \/ Decide(t) \/ Wait(t) \/ EndWait(t)
    BY <2>3, RestRefines DEF Coarse!Next
  <2> QED
    BY <1>4, <2>1, <2>2, <2>3 DEF LoopStep
<1>5. CASE UNCHANGED vars
  <2>1. \A p \in Runners : Pushing(p)' <=> Pushing(p)
    BY <1>5 DEF vars, Pushing, IsAddTask
  <2> QED
    BY <1>5, <2>1, SameCall, SameQueue, Stutters DEF vars
<1> QED
  BY <1>1, <1>2, <1>3, <1>4, <1>5 DEF Next

(* The statements start where the coarser steps start.                     *)
LEMMA InitRefines ==
  ASSUME Init
  PROVE  Coarse!Init
<1>1. \A q \in Runners : ~Pushing(q) /\ ~Popping(q)
  BY DEF Init, Pushing, Popping, IsAddTask
<1>2. \A q \in Runners : Arrived(q) = <<>> /\ Running(q) = None /\ LoopPoint(q) = "idle"
  BY <1>1 DEF Init, Arrived, Running, LoopPoint
<1>3. \A t \in Threads : Posting(t) = None /\ Signalling(t) = None
  BY DEF Init, Posting, Signalling, IsAddTask, IsShutdown
<1> QED
  BY <1>2, <1>3 DEF Init, Coarse!Init, Coarse!QueueInit, Coarse!Threads, Threads

(* With a lock of its own, and statement by statement, a task queue does   *)
(* what the coarser model of it does, for any threads, tasks and failing   *)
(* event calls: no interleaving of the statements is lost in the steps.    *)
THEOREM StatementsImplementSteps == Spec => ImplementsTaskQueue
<1>1. Init => Inv
  BY InitInv
<1>2. Inv /\ [Next]_vars => Inv'
  BY InvStep
<1>3. Inv /\ [Next]_vars => [Coarse!Next]_(Coarse!vars)
  BY StepRefines
<1>4. Init => Coarse!Init
  BY InitRefines
<1> QED
  BY <1>1, <1>2, <1>3, <1>4, PTL DEF Spec, ImplementsTaskQueue, Coarse!Spec

-----------------------------------------------------------------------------
(* What holds of the coarser steps holds of the statements.                *)

(* The theorems about the coarser steps. *)
CoarseProofs == INSTANCE TaskQueueClientsProofs WITH
  queue <- [q \in Runners |-> Arrived(q)],
  pc <- [t \in Runners |-> LoopPoint(t)],
  running <- [t \in Runners |-> Running(t)],
  posting <- [t \in Threads |-> Posting(t)],
  signalling <- [t \in Threads |-> Signalling(t)]

(* What those theorems assume of the constants is assumed here.            *)
LEMMA CoarseAssumption == CoarseProofs!TasksAssumption
  BY NoneAssumption DEF CoarseProofs!TasksAssumption

(* The module of the theorems extends the module of the steps, so that the *)
(* two instances define the same: once more for every name.                *)
LEMMA SameInit == Coarse!Init <=> CoarseProofs!Init
  BY
  DEF Coarse!Init, CoarseProofs!Init, Coarse!QueueInit, CoarseProofs!QueueInit,
      Coarse!Threads, CoarseProofs!Threads

(* The same steps.                                                         *)
LEMMA SameStep == [Coarse!Next]_(Coarse!vars) <=> [CoarseProofs!Next]_(CoarseProofs!vars)
  BY
  DEF Coarse!Next, CoarseProofs!Next, Coarse!vars, CoarseProofs!vars,
      Coarse!queueVars, CoarseProofs!queueVars, Coarse!Threads,
      CoarseProofs!Threads, Coarse!Post, CoarseProofs!Post, Coarse!OwnCode,
      CoarseProofs!OwnCode, Coarse!AddTaskCheck, CoarseProofs!AddTaskCheck,
      Coarse!CallShutdown, CoarseProofs!CallShutdown, Coarse!Shutdown,
      CoarseProofs!Shutdown, Coarse!Locked, CoarseProofs!Locked, Coarse!FinishPost,
      CoarseProofs!FinishPost, Coarse!AddTaskOkay, CoarseProofs!AddTaskOkay,
      Coarse!AddTaskCouldNotSetEvent, CoarseProofs!AddTaskCouldNotSetEvent,
      Coarse!AddTaskPush, CoarseProofs!AddTaskPush, Coarse!SetEvent,
      CoarseProofs!SetEvent, Coarse!SetEventFails, CoarseProofs!SetEventFails,
      Coarse!FinishShutdown, CoarseProofs!FinishShutdown, Coarse!ShutdownSignals,
      CoarseProofs!ShutdownSignals, Coarse!RunnerStep, CoarseProofs!RunnerStep,
      Coarse!LoopStep, CoarseProofs!LoopStep, Coarse!EnterLoop,
      CoarseProofs!EnterLoop, Coarse!PopTask, CoarseProofs!PopTask,
      Coarse!PopNothing, CoarseProofs!PopNothing, Coarse!RunReturns,
      CoarseProofs!RunReturns, Coarse!Decide, CoarseProofs!Decide, Coarse!StartWait,
      CoarseProofs!StartWait, Coarse!WaitFails, CoarseProofs!WaitFails,
      Coarse!EndWait, CoarseProofs!EndWait, Coarse!Goto, CoarseProofs!Goto,
      Coarse!ResetEvent, CoarseProofs!ResetEvent, Coarse!ResetEventFails,
      CoarseProofs!ResetEventFails

(* The same mailboxes.                                                     *)
LEMMA SameMail ==
  /\ Coarse!Mail!Init <=> CoarseProofs!Mail!Init
  /\ [Coarse!Mail!Next]_(Coarse!Mail!vars) <=>
       [CoarseProofs!Mail!Next]_(CoarseProofs!Mail!vars)
  BY
  DEF Coarse!Threads, CoarseProofs!Threads, Coarse!Mail!Init,
      CoarseProofs!Mail!Init, Coarse!Mail!Next, CoarseProofs!Mail!Next,
      Coarse!Mail!vars, CoarseProofs!Mail!vars, Coarse!Mail!Send,
      CoarseProofs!Mail!Send, Coarse!Mail!Arrive, CoarseProofs!Mail!Arrive,
      Coarse!Mail!Take, CoarseProofs!Mail!Take, Coarse!Mail!Finish,
      CoarseProofs!Mail!Finish, Coarse!Mail!Close, CoarseProofs!Mail!Close,
      Coarse!Mail!Leave, CoarseProofs!Mail!Leave

(* The same owners.                                                        *)
LEMMA SameOwner == Coarse!OneOwner <=> CoarseProofs!OneOwner
  BY
  DEF Coarse!OneOwner, CoarseProofs!OneOwner, Coarse!Mail!OneOwner,
      CoarseProofs!Mail!OneOwner, Coarse!Mail!Places, CoarseProofs!Mail!Places,
      Coarse!Mail!SentAt, CoarseProofs!Mail!SentAt, Coarse!Mail!BoxAt,
      CoarseProofs!Mail!BoxAt, Coarse!Threads, CoarseProofs!Threads

(* A behaviour of the statements is one the theorems speak about.          *)
LEMMA CoarseBehaviour == Spec => CoarseProofs!Spec
<1>1. ImplementsTaskQueue => CoarseProofs!Spec
  BY SameInit, SameStep, PTL DEF ImplementsTaskQueue, Coarse!Spec, CoarseProofs!Spec
<1> QED
  BY <1>1, StatementsImplementSteps, PTL

(* At the grain of its statements the code keeps the promise of Mailbox.   *)
THEOREM StatementsAreMailboxes == Spec => ImplementsMailbox
<1>1. CoarseProofs!Spec => CoarseProofs!ImplementsMailbox
  BY CoarseAssumption, CoarseProofs!QueuesAreMailboxes
<1>2. CoarseProofs!ImplementsMailbox => ImplementsMailbox
  BY SameMail, PTL
  DEF ImplementsMailbox, Coarse!ImplementsMailbox, Coarse!Mail!Spec,
      CoarseProofs!ImplementsMailbox, CoarseProofs!Mail!Spec
<1> QED
  BY <1>1, <1>2, CoarseBehaviour, PTL

(* A task has one owner in the middle of every call, too.                  *)
THEOREM OneOwnerInside == Spec => []OneOwner
<1>1. CoarseProofs!Spec => []CoarseProofs!OneOwner
  BY CoarseAssumption, CoarseProofs!TasksHaveOneOwner
<1>2. CoarseProofs!OneOwner => OneOwner
  BY SameOwner DEF OneOwner
<1> QED
  BY <1>1, <1>2, CoarseBehaviour, PTL

(* A runner that sleeps in the wait has nothing to do but what a thread    *)
(* inside AddTask or Shutdown is about to set the event for.               *)
SleepsIdle ==
  \A t \in parked :
    /\ queue[t] # <<>> => Pushing(t) /\ Len(queue[t]) = 1
    /\ shuttingDown[t] => \E u \in Threads :
         IsShutdown(call[u]) /\ call[u].queue = t /\ call[u].at = "signal"

(* The one runner of an event of its own never sleeps through a task or a  *)
(* Shutdown, whatever happens between two statements of TryPopTask, of     *)
(* AddTask and of WaitForEvent: a push is out of the runner's sight until  *)
(* its SetEvent, and TryPopTask resets before it looks.                    *)
THEOREM OneRunnerSleepsIdle ==
  ASSUME Faults = {},
         \A t, u \in Runners : t = u
  PROVE  Spec => []SleepsIdle
<1>1. CoarseProofs!Spec => []CoarseProofs!Signalled
  BY CoarseAssumption, CoarseProofs!OneRunnerIsSignalled
<1>2. Inv /\ CoarseProofs!Signalled => SleepsIdle
  <2> SUFFICES ASSUME Inv, CoarseProofs!Signalled, NEW t \in parked
               PROVE  /\ queue[t] # <<>> => Pushing(t) /\ Len(queue[t]) = 1
                      /\ shuttingDown[t] => \E u \in Threads :
                           IsShutdown(call[u]) /\ call[u].queue = t /\ call[u].at = "signal"
    BY DEF SleepsIdle
  <2>1. t \in Runners /\ queue[t] \in Seq(Tasks)
    BY DEF Inv, TypeOK
  <2>2. LoopPoint(t) = "waiting" /\ ~CoarseProofs!AsleepWithWork(t)
    BY <2>1 DEF CoarseProofs!Signalled
  <2>3. ~Popping(t)
    BY <2>2 DEF LoopPoint, Popping
  <2>4. Arrived(t) = <<>> /\ (shuttingDown[t] => \E u \in Threads : Signalling(u) = t)
    BY <2>1, <2>2
    DEF CoarseProofs!AsleepWithWork, CoarseProofs!Locked, CoarseProofs!Threads, Threads
  <2>5. queue[t] # <<>> => Pushing(t) /\ SubSeq(queue[t], 1, Len(queue[t]) - 1) = <<>>
    BY <2>3, <2>4 DEF Arrived
  <2>6. queue[t] # <<>> => Pushing(t) /\ Len(queue[t]) = 1
    BY <2>1, <2>5, OneLeft
  <2>7. ASSUME NEW u \in Threads, Signalling(u) = t
        PROVE  IsShutdown(call[u]) /\ call[u].queue = t /\ call[u].at = "signal"
    BY <2>1, <2>7, NoneAssumption DEF Signalling, Threads
  <2> QED
    BY <2>4, <2>6, <2>7
<1>3. Spec => []Inv
  BY InitInv, InvStep, PTL DEF Spec
<1> QED
  BY <1>1, <1>2, <1>3, CoarseBehaviour, PTL

=============================================================================

-------------------------- MODULE Threadpool_proofs --------------------------
(***************************************************************************)
(* The safety of Threadpool for any number of workers, tasks and places in *)
(* the queue, whatever the uninitialised flag holds.                       *)
(***************************************************************************)
EXTENDS Threadpool, TLAPS

PoolTheorems == INSTANCE TaskPool_proofs WITH buffer <- que, busy <- task

-----------------------------------------------------------------------------
(* The inductive invariant.                                                *)

(* Where a thread holds the mutex, and where it waits for a signal.        *)
Critical == {"push_test", "push_wait", "push_insert", "push_unlock",
             "pop_test", "pop_wait", "pop_take", "pop_unlock"}
Waiting == {"push_waiting", "pop_waiting"}
(* Where the Owner has a task that is not in the queue yet.                *)
Adding == {"push_lock", "push_test", "push_wait", "push_waiting", "push_insert"}
(* Where the Owner has seen the queue empty and will not add to it again.  *)
Stopping == {"stop_exit", "wake_flag", "wake_notify", "join", "stopped",
             "destroyed"}

(* The code between lock and unlock is a critical section.                 *)
LockInv == \A t \in Threads : pc[t] \in Critical <=> mutex = t

(* _isLocking is left set by nobody but a thread inside push or pop.       *)
LockingInv == isLocking => \E t \in Threads : pc[t] \in Critical \cup Waiting

WaitInv ==
    /\ \A w \in notEmpty : pc[w] = "pop_waiting"
    /\ notFull # {} => pc[Owner] = "push_waiting"

(* TaskQueue.cc:31-35: the queue never holds more than _que_size tasks,    *)
(* whoever wakes the pusher and whatever happens before it has the mutex.  *)
QueueBounded == Len(que) <= QueSize

(* What the Owner knows inside push.                                       *)
PushInv ==
    /\ QueueBounded
    /\ PusherSleepsWhenFull
    /\ pc[Owner] = "push_wait" => full
    /\ pc[Owner] = "push_insert" => ~full
    /\ pc[Owner] \in Adding => arg \in Tasks \ submitted

(* What a worker knows inside pop and thread_func.                         *)
PopInv ==
    /\ TakeFindsTask
    /\ \A w \in Workers :
        /\ pc[w] = "pop_wait" => empty
        /\ pc[w] = "run" => task[w] # NoTask
        /\ pc[w] \notin {"pop_unlock", "run"} => task[w] = NoTask

(* What the Owner knows inside stop.                                       *)
StopInv ==
    /\ pc[Owner] \in Stopping => empty
    /\ pc[Owner] \in {"stopped", "destroyed"} => running = {}
    /\ \A w \in Workers \ running :
        pc[w] = IF pc[Owner] = "start" THEN "unborn" ELSE "done"

IInv ==
    /\ TypeOK /\ LockInv /\ LockingInv /\ WaitInv /\ PushInv /\ PopInv
    /\ QueuedTaskWakes /\ StopInv

-----------------------------------------------------------------------------

LEMMA InitIInv == Init => IInv
<1> SUFFICES ASSUME Init PROVE IInv
  OBVIOUS
<1> USE ThreadpoolAssumption DEF Init, Threads
<1>1. TypeOK
  <2>1. /\ pc \in [Threads -> OwnerPC \cup WorkerPC]
        /\ pc[Owner] \in OwnerPC /\ \A w \in Workers : pc[w] \in WorkerPC
    BY DEF OwnerPC, WorkerPC
  <2>2. que \in Seq(Tasks) /\ task \in [Workers -> Tasks \cup {NoTask}]
    OBVIOUS
  <2>3. flag \in BOOLEAN
    OBVIOUS
  <2> QED
    BY <2>1, <2>2, <2>3 DEF TypeOK
<1>2. LockInv /\ LockingInv /\ WaitInv
  BY DEF LockInv, LockingInv, WaitInv, Critical
<1>3. PushInv /\ QueuedTaskWakes
  BY DEF PushInv, QueueBounded, PusherSleepsWhenFull, QueuedTaskWakes, Adding, full
<1>4. PopInv /\ StopInv
  BY DEF PopInv, TakeFindsTask, StopInv, Stopping, empty
<1> QED
  BY <1>1, <1>2, <1>3, <1>4 DEF IInv

(* One step for each action; where an action moves much of what the parts  *)
(* of IInv speak of, one step for each part below it.                      *)
LEMMA NextIInv == IInv /\ [Next]_vars => IInv'
<1> SUFFICES ASSUME IInv, [Next]_vars PROVE IInv'
  OBVIOUS
<1> USE ThreadpoolAssumption
    DEF IInv, TypeOK, LockInv, LockingInv, WaitInv, PushInv, PopInv, StopInv,
        QueueBounded, PusherSleepsWhenFull, TakeFindsTask, QueuedTaskWakes,
        Critical, Waiting, Adding, Stopping, Threads, OwnerPC, WorkerPC,
        Goto, Lock, Unlock, CondRelease, CondReacquire, Notified, empty, full,
        queueVars, poolVars, historyVars
<1>1. ASSUME NEW w \in Workers, StartThread(w) PROVE IInv'
  BY <1>1 DEF StartThread
<1>2. ASSUME NEW w \in Workers, Join(w) PROVE IInv'
  BY <1>2 DEF Join
<1>3. CASE StartReturns
  BY <1>3 DEF StartReturns
<1>4. CASE PushLock
  BY <1>4 DEF PushLock
<1>5. CASE PushTest
  BY <1>5 DEF PushTest
<1>6. CASE PushWait
  BY <1>6 DEF PushWait
<1>7. CASE PushReacquire
  BY <1>7 DEF PushReacquire
<1>8. CASE PushInsert
  BY <1>8 DEF PushInsert
<1>9. CASE PushUnlock
  <2>1. TypeOK'
    BY <1>9 DEF PushUnlock
  <2>2. LockInv'
    BY <1>9 DEF PushUnlock
  <2>3. LockingInv' /\ WaitInv'
    BY <1>9 DEF PushUnlock
  <2>4. PushInv'
    BY <1>9 DEF PushUnlock
  <2>5. PopInv'
    BY <1>9 DEF PushUnlock
  <2>6. QueuedTaskWakes'
    BY <1>9 DEF PushUnlock
  <2>7. StopInv'
    BY <1>9 DEF PushUnlock
  <2> QED
    BY <2>1, <2>2, <2>3, <2>4, <2>5, <2>6, <2>7
<1>10. CASE PushNotify
  BY <1>10 DEF PushNotify
<1>11. CASE StopPoll
  BY <1>11 DEF StopPoll
<1>12. CASE StopExit
  BY <1>12 DEF StopExit
<1>13. CASE WakeFlag
  <2>1. TypeOK'
    BY <1>13 DEF WakeFlag
  <2>2. LockInv'
    BY <1>13 DEF WakeFlag
  <2>3. LockingInv' /\ WaitInv'
    BY <1>13 DEF WakeFlag
  <2>4. PushInv'
    BY <1>13 DEF WakeFlag
  <2>5. PopInv'
    BY <1>13 DEF WakeFlag
  <2>6. QueuedTaskWakes'
    BY <1>13 DEF WakeFlag
  <2>7. StopInv'
    BY <1>13 DEF WakeFlag
  <2> QED
    BY <2>1, <2>2, <2>3, <2>4, <2>5, <2>6, <2>7
<1>14. CASE WakeNotifyAll
  BY <1>14 DEF WakeNotifyAll
<1>15. CASE StopReturns
  BY <1>15 DEF StopReturns
<1>16. CASE Stop
  BY <1>16 DEF Stop
<1>17. CASE Destroy
  BY <1>17 DEF Destroy
<1>18. ASSUME NEW t \in Tasks, AddTask(t) PROVE IInv'
  BY <1>18 DEF AddTask
<1>19. ASSUME NEW w \in Workers, Loop(w) PROVE IInv'
  BY <1>19 DEF Loop
<1>20. ASSUME NEW w \in Workers, PopLock(w) PROVE IInv'
  BY <1>20 DEF PopLock
<1>21. ASSUME NEW w \in Workers, PopTest(w) PROVE IInv'
  BY <1>21 DEF PopTest
<1>22. ASSUME NEW w \in Workers, PopWait(w) PROVE IInv'
  BY <1>22 DEF PopWait
<1>23. ASSUME NEW w \in Workers, PopReacquire(w) PROVE IInv'
  BY <1>23 DEF PopReacquire
<1>24. ASSUME NEW w \in Workers, PopTake(w) PROVE IInv'
  BY <1>24 DEF PopTake
<1>25. ASSUME NEW w \in Workers, PopNull(w) PROVE IInv'
  BY <1>25 DEF PopNull
<1>26. ASSUME NEW w \in Workers, PopUnlock(w) PROVE IInv'
  <2>1. TypeOK'
    BY <1>26 DEF PopUnlock
  <2>2. LockInv'
    BY <1>26 DEF PopUnlock
  <2>3. LockingInv' /\ WaitInv' /\ PushInv'
    BY <1>26 DEF PopUnlock
  <2>4. PopInv'
    BY <1>26 DEF PopUnlock
  <2>5. QueuedTaskWakes'
    BY <1>26 DEF PopUnlock
  <2>6. StopInv'
    BY <1>26 DEF PopUnlock
  <2> QED
    BY <2>1, <2>2, <2>3, <2>4, <2>5, <2>6
<1>27. ASSUME NEW w \in Workers, Run(w) PROVE IInv'
  BY <1>27 DEF Run
<1>28. ASSUME NEW t \in Threads, SpuriousWake(t) PROVE IInv'
  BY <1>28 DEF SpuriousWake
<1>29. CASE UNCHANGED vars
  BY <1>29 DEF vars
<1>30. CASE OwnerStep \/ OwnerCall
  BY ONLY <1>1, <1>2, <1>3, <1>4, <1>5, <1>6, <1>7, <1>8, <1>9, <1>10, <1>11,
     <1>12, <1>13, <1>14, <1>15, <1>16, <1>17, <1>18, <1>30
  DEF OwnerStep, OwnerCall
<1>31. ASSUME NEW w \in Workers, WorkerStep(w) PROVE IInv'
  BY ONLY <1>19, <1>20, <1>21, <1>22, <1>23, <1>24, <1>25, <1>26, <1>27, <1>31
  DEF WorkerStep
<1> QED
  BY ONLY [Next]_vars, <1>28, <1>29, <1>30, <1>31 DEF Next

LEMMA Invariance == Spec => []IInv
  BY InitIInv, NextIInv, PTL DEF Spec

-----------------------------------------------------------------------------
(* The variables of the pool stay in their types (TaskQueue.h:34-40).      *)
THEOREM TypeCorrect == Spec => []TypeOK
<1>1. IInv => TypeOK
  BY DEF IInv
<1> QED
  BY <1>1, Invariance, PTL

(* TaskQueue.cc:26-39: the queue never holds more than _que_size tasks.    *)
THEOREM PushCorrect == Spec => []QueueBounded
<1>1. IInv => QueueBounded
  BY DEF IInv, PushInv
<1> QED
  BY <1>1, Invariance, PTL

(* TaskQueue.cc:31, 53: the Owner sleeps in push only while the queue is   *)
(* full: the pop that makes room has taken it off the condition variable.  *)
THEOREM PusherCorrect == Spec => []PusherSleepsWhenFull
<1>1. IInv => PusherSleepsWhenFull
  BY DEF IInv, PushInv
<1> QED
  BY <1>1, Invariance, PTL

(* TaskQueue.cc:47-52: front() is never called on an empty queue.          *)
THEOREM PopFindsTask == Spec => []TakeFindsTask
<1>1. IInv => TakeFindsTask
  BY DEF IInv, PopInv
<1> QED
  BY <1>1, Invariance, PTL

(* TaskQueue.cc:38: no task is left behind with every worker asleep.       *)
THEOREM NoTaskSleeps == Spec => []QueuedTaskWakes
<1>1. IInv => QueuedTaskWakes
  BY DEF IInv
<1> QED
  BY <1>1, Invariance, PTL

(* MutexLock.cc:11-15: the assertion of the destructor holds.              *)
THEOREM DestructionCorrect == Spec => []DestroyedClean
<1>1. IInv => DestroyedClean
  <2> SUFFICES ASSUME IInv, pc[Owner] = "destroyed"
               PROVE  /\ ~isLocking /\ mutex = NoThread
                      /\ notEmpty = {} /\ notFull = {}
                      /\ \A w \in Workers : pc[w] = "done"
    BY DEF DestroyedClean
  <2>1. \A w \in Workers : pc[w] = "done"
    BY DEF IInv, StopInv
  <2>2. \A t \in Threads : pc[t] \notin Critical \cup Waiting
    BY <2>1 DEF Threads, Critical, Waiting
  <2>3. ~isLocking
    BY <2>2 DEF IInv, LockingInv
  <2>4. mutex = NoThread
    BY <2>2 DEF IInv, TypeOK, LockInv
  <2>5. notEmpty = {} /\ notFull = {}
    BY <2>1 DEF IInv, TypeOK, WaitInv
  <2> QED
    BY <2>1, <2>3, <2>4, <2>5
<1> QED
  BY <1>1, Invariance, PTL

-----------------------------------------------------------------------------
(* Threadpool.cc:57-79 implements TaskPool: push inserts, pop takes and    *)
(* thread_func finishes a task, and no other step can be seen.             *)
THEOREM Refinement == Spec => ImplementsTaskPool
<1>1. Init => Pool!Init
  BY DEF Init, Pool!Init
<1>2. IInv /\ [Next]_vars => [Pool!Next]_Pool!vars
  <2> SUFFICES ASSUME IInv, [Next]_vars,
                      UNCHANGED <<que, task, submitted, finished>> => FALSE
               PROVE  Pool!Next
    BY DEF Pool!vars
  <2>1. CASE PushInsert
    <3>1. arg \in Tasks \ submitted
      BY <2>1 DEF PushInsert, Goto, IInv, PushInv, Adding
    <3>2. Len(que) < QueSize
      BY <2>1, ThreadpoolAssumption
      DEF PushInsert, Goto, IInv, TypeOK, PushInv, QueueBounded, full
    <3>3. Pool!Submit(arg)
      BY <2>1, <3>1, <3>2 DEF PushInsert, Pool!Submit
    <3> QED
      BY <3>1, <3>3 DEF Pool!Next
  <2>2. ASSUME NEW w \in Workers, PopTake(w) PROVE Pool!Next
    <3>1. que # <<>> /\ task[w] = NoTask
      BY <2>2 DEF PopTake, Goto, IInv, PopInv, TakeFindsTask
    <3>2. Pool!Take(w)
      BY <2>2, <3>1 DEF PopTake, Pool!Take, historyVars
    <3> QED
      BY <3>2 DEF Pool!Next
  <2>3. ASSUME NEW w \in Workers, Run(w) PROVE Pool!Next
    <3>1. task[w] # NoTask
      BY <2>3 DEF Run, Goto, IInv, PopInv
    <3>2. Pool!Finish(w)
      BY <2>3, <3>1 DEF Run, Pool!Finish, queueVars
    <3> QED
      BY <3>2 DEF Pool!Next
  <2> QED
    BY <2>1, <2>2, <2>3
    DEF Next, OwnerStep, OwnerCall, WorkerStep, vars, queueVars, poolVars,
        historyVars, StartThread, StartReturns, Join, PushLock, PushTest,
        PushWait, PushReacquire, PushUnlock, PushNotify, StopPoll, StopExit,
        WakeFlag, WakeNotifyAll, StopReturns, Stop, Destroy, AddTask, Loop,
        PopLock, PopTest, PopWait, PopReacquire, PopNull, PopUnlock, SpuriousWake
<1> QED
  BY <1>1, <1>2, Invariance, PTL DEF Spec, ImplementsTaskPool, Pool!Spec

(* What TaskPool promises is therefore promised here.                      *)
LEMMA PoolExactlyOnce == Spec => []Pool!ExactlyOnce
<1>1. NoTask \notin Tasks
  BY ThreadpoolAssumption
<1>2. PoolTheorems!Spec => []PoolTheorems!ExactlyOnce
  BY <1>1, PoolTheorems!TasksExactlyOnce
<1>3. Pool!Init <=> PoolTheorems!Init
  BY DEF Pool!Init, PoolTheorems!Init
<1>4. [Pool!Next]_Pool!vars <=> [PoolTheorems!Next]_PoolTheorems!vars
  BY DEF Pool!Next, PoolTheorems!Next, Pool!vars, PoolTheorems!vars,
         Pool!Submit, PoolTheorems!Submit, Pool!Take, PoolTheorems!Take,
         Pool!Finish, PoolTheorems!Finish
<1>5. Pool!ExactlyOnce <=> PoolTheorems!ExactlyOnce
  BY DEF Pool!ExactlyOnce, PoolTheorems!ExactlyOnce,
         Pool!Accounted, PoolTheorems!Accounted,
         Pool!InOnePlace, PoolTheorems!InOnePlace,
         Pool!QueuedOnce, PoolTheorems!QueuedOnce,
         Pool!RunningOnce, PoolTheorems!RunningOnce,
         Pool!Queued, PoolTheorems!Queued, Pool!Running, PoolTheorems!Running
<1> QED
  BY <1>2, <1>3, <1>4, <1>5, Refinement, PTL
  DEF ImplementsTaskPool, Pool!Spec, PoolTheorems!Spec

(* Threadpool.cc:41-55: when stop() has returned every task has been run.  *)
THEOREM StopCorrect == Spec => []StopLosesNoTask
<1>1. IInv /\ Pool!ExactlyOnce => StopLosesNoTask
  <2> SUFFICES ASSUME IInv, Pool!ExactlyOnce, pc[Owner] \in {"stopped", "destroyed"}
               PROVE  finished = submitted
    BY DEF StopLosesNoTask
  <2>1. que = <<>>
    BY DEF IInv, StopInv, Stopping, empty
  <2>2. \A w \in Workers : task[w] = NoTask
    BY DEF IInv, StopInv, PopInv
  <2>3. Pool!Queued = {} /\ Pool!Running = {}
    BY <2>1, <2>2 DEF Pool!Queued, Pool!Running
  <2> QED
    BY <2>3 DEF Pool!ExactlyOnce, Pool!Accounted
<1> QED
  BY <1>1, PoolExactlyOnce, Invariance, PTL
=============================================================================

----------------------------- MODULE Threadpool -----------------------------
(***************************************************************************)
(* hpc_server/src/Threadpool.cc with everything it stands on: TaskQueue    *)
(* (TaskQueue.cc), Thread (Thread.cc), MutextLock and MutexLockGuard       *)
(* (MutexLock.cc, MutextLock.h) and Condition (Condition.cc).              *)
(*                                                                         *)
(* One thread, the Owner, constructs the pool, starts it, is the only one  *)
(* that calls add_task, and stops or destroys it (main() or IcerServo,     *)
(* whose IO thread runs onMessage).  The workers run thread_func.          *)
(*                                                                         *)
(* A step is what a thread does between two points where another thread    *)
(* can tell the difference: a lock, an unlock, one read or write of an     *)
(* unprotected variable (flag, _isExit, the size read by stop()), entering *)
(* or leaving a condition variable.  The unprotected reads are data races; *)
(* flag and _isExit are single bytes, and the size of a deque that only a  *)
(* worker is popping reads as its value before or after the pop, so each   *)
(* is read in one step.  A condition variable is the set of threads asleep *)
(* on it; a thread that has left the set still has to take the mutex back. *)
(***************************************************************************)
EXTENDS Integers, Sequences, FiniteSets

CONSTANTS Workers,   \* the threads of Threadpool::_threads
          Owner,     \* the thread that owns the pool
          Tasks,     \* the tasks the Owner may add, each once
          NoTask,    \* the empty std::function (nullptr)
          NoThread,  \* nobody holds the mutex
          QueSize,   \* TaskQueue::_que_size
          FlagInit   \* the values the never-initialised TaskQueue::flag may hold

ASSUME ThreadpoolAssumption ==
    /\ Owner \notin Workers
    /\ NoThread \notin Workers \cup {Owner}
    /\ NoTask \notin Tasks
    /\ QueSize \in Nat
    /\ FlagInit \subseteq BOOLEAN

VARIABLES
    \* TaskQueue
    que,        \* _que
    flag,       \* flag: "keep waiting", cleared by wake_up
    mutex,      \* the pthread mutex in _mutex: its holder or NoThread
    isLocking,  \* MutextLock::_isLocking
    notEmpty,   \* the threads asleep in _notEmpty.wait()
    notFull,    \* the threads asleep in _notFull.wait()
    \* Threadpool
    isExit,     \* _isExit
    running,    \* the workers whose Thread::_is_running is set
    \* the threads
    pc,         \* pc[t]: where thread t is
    arg,        \* the task the Owner is pushing
    task,       \* task[w]: the local variable of thread_func
    \* history
    submitted,  \* the tasks that were put in the queue
    finished    \* the tasks that have returned

queueVars == <<que, flag, mutex, isLocking, notEmpty, notFull>>
poolVars == <<isExit, running>>
historyVars == <<submitted, finished>>
vars == <<queueVars, poolVars, pc, arg, task, historyVars>>

Threads == Workers \cup {Owner}

OwnerPC == {"start", "idle", "push_lock", "push_test", "push_wait",
            "push_waiting", "push_insert", "push_unlock", "push_notify",
            "stop_poll", "stop_exit", "wake_flag", "wake_notify", "join",
            "stopped", "destroyed"}
WorkerPC == {"unborn", "loop", "pop_lock", "pop_test", "pop_wait",
             "pop_waiting", "pop_take", "pop_unlock", "run", "done"}

Init ==
    /\ que = <<>>
    /\ flag \in FlagInit
    /\ mutex = NoThread
    /\ isLocking = FALSE
    /\ notEmpty = {}
    /\ notFull = {}
    /\ isExit = FALSE
    /\ running = {}
    /\ pc = [t \in Threads |-> IF t = Owner THEN "start" ELSE "unborn"]
    /\ arg = NoTask
    /\ task = [w \in Workers |-> NoTask]
    /\ submitted = {}
    /\ finished = {}

-----------------------------------------------------------------------------
(* The primitives.                                                         *)

Goto(t, from, to) == pc[t] = from /\ pc' = [pc EXCEPT ![t] = to]

empty == que = <<>>
full == Len(que) = QueSize

(* MutextLock::lock.  lock() records the state after it has the mutex,     *)
(* unlock() before it lets it go.                                          *)
Lock(t) == mutex = NoThread /\ mutex' = t /\ isLocking' = TRUE
Unlock == mutex' = NoThread /\ isLocking' = FALSE

(* pthread_cond_wait gives the mutex up and takes it back by itself: it    *)
(* does not pass through MutextLock, and _isLocking is left as it is.      *)
CondRelease == mutex' = NoThread /\ UNCHANGED isLocking
CondReacquire(t) == mutex = NoThread /\ mutex' = t /\ UNCHANGED isLocking

(* Condition::notify wakes one thread of the set cond, if there is one:    *)
(* the sets of threads that may be asleep afterwards.                      *)
Notified(cond) == IF cond = {} THEN {cond} ELSE {cond \ {t} : t \in cond}

-----------------------------------------------------------------------------
(* The Owner: Threadpool::start.                                           *)

StartThread(w) ==
    /\ pc[Owner] = "start"
    /\ Goto(w, "unborn", "loop")
    /\ running' = running \cup {w}
    /\ UNCHANGED <<queueVars, isExit, arg, task, historyVars>>

StartReturns ==
    /\ \A w \in Workers : pc[w] # "unborn"
    /\ Goto(Owner, "start", "idle")
    /\ UNCHANGED <<queueVars, poolVars, arg, task, historyVars>>

(* The Owner: add_task, which is TaskQueue::push.                          *)

AddTask(t) ==
    /\ t \notin submitted
    /\ Goto(Owner, "idle", "push_lock")
    /\ arg' = t
    /\ UNCHANGED <<queueVars, poolVars, task, historyVars>>

PushLock ==
    /\ Goto(Owner, "push_lock", "push_test")
    /\ Lock(Owner)
    /\ UNCHANGED <<que, flag, notEmpty, notFull, poolVars, arg, task, historyVars>>

PushTest ==
    /\ Goto(Owner, "push_test", IF full THEN "push_wait" ELSE "push_insert")
    /\ UNCHANGED <<queueVars, poolVars, arg, task, historyVars>>

\* mutation: waits on the wrong condition variable
PushWaitNotEmpty ==
    /\ Goto(Owner, "push_wait", "push_waiting")
    /\ CondRelease
    /\ notEmpty' = notEmpty \cup {Owner}
    /\ UNCHANGED <<que, flag, notFull, poolVars, arg, task, historyVars>>

PushWait ==
    /\ Goto(Owner, "push_wait", "push_waiting")
    /\ CondRelease
    /\ notFull' = notFull \cup {Owner}
    /\ UNCHANGED <<que, flag, notEmpty, poolVars, arg, task, historyVars>>

PushReacquire ==
    /\ Owner \notin notFull
    /\ Goto(Owner, "push_waiting", "push_test")
    /\ CondReacquire(Owner)
    /\ UNCHANGED <<que, flag, notEmpty, notFull, poolVars, arg, task, historyVars>>

PushInsert ==
    /\ Goto(Owner, "push_insert", "push_unlock")
    /\ que' = Append(que, arg)
    /\ submitted' = submitted \cup {arg}
    /\ UNCHANGED <<flag, mutex, isLocking, notEmpty, notFull, poolVars, arg,
                   task, finished>>

PushUnlock ==
    /\ Goto(Owner, "push_unlock", "push_notify")
    /\ Unlock
    /\ UNCHANGED <<que, flag, notEmpty, notFull, poolVars, arg, task, historyVars>>

\* mutation: push does not signal
PushNotifyNobody ==
    /\ Goto(Owner, "push_notify", "idle")
    /\ arg' = NoTask
    /\ UNCHANGED <<queueVars, poolVars, task, historyVars>>

PushNotify ==
    /\ Goto(Owner, "push_notify", "idle")
    /\ notEmpty' \in Notified(notEmpty)
    /\ arg' = NoTask
    /\ UNCHANGED <<que, flag, mutex, isLocking, notFull, poolVars, task, historyVars>>

(* The Owner: Threadpool::stop and TaskQueue::wake_up, neither of which    *)
(* takes the mutex, then the destructors.                                  *)

Stop ==
    /\ ~isExit
    /\ Goto(Owner, "idle", "stop_poll")
    /\ UNCHANGED <<queueVars, poolVars, arg, task, historyVars>>

\* mutation: stop() does not wait for the queue to drain
StopPollOnce ==
    /\ Goto(Owner, "stop_poll", "stop_exit")
    /\ UNCHANGED <<queueVars, poolVars, arg, task, historyVars>>

StopPoll ==
    /\ empty
    /\ Goto(Owner, "stop_poll", "stop_exit")
    /\ UNCHANGED <<queueVars, poolVars, arg, task, historyVars>>

StopExit ==
    /\ Goto(Owner, "stop_exit", "wake_flag")
    /\ isExit' = TRUE
    /\ UNCHANGED <<queueVars, running, arg, task, historyVars>>

WakeFlag ==
    /\ Goto(Owner, "wake_flag", "wake_notify")
    /\ flag' = FALSE
    /\ UNCHANGED <<que, mutex, isLocking, notEmpty, notFull, poolVars, arg,
                   task, historyVars>>

\* mutation: notify in place of notify_all
WakeNotifyOne ==
    /\ Goto(Owner, "wake_notify", "join")
    /\ notEmpty' \in Notified(notEmpty)
    /\ UNCHANGED <<que, flag, mutex, isLocking, notFull, poolVars, arg, task,
                   historyVars>>

WakeNotifyAll ==
    /\ Goto(Owner, "wake_notify", "join")
    /\ notEmpty' = {}
    /\ UNCHANGED <<que, flag, mutex, isLocking, notFull, poolVars, arg, task,
                   historyVars>>

Join(w) ==
    /\ pc[Owner] = "join"
    /\ w \in running
    /\ pc[w] = "done"
    /\ running' = running \ {w}
    /\ UNCHANGED <<queueVars, isExit, pc, arg, task, historyVars>>

\* mutation: stop() does not join every worker
StopReturnsEarly ==
    /\ Goto(Owner, "join", "stopped")
    /\ UNCHANGED <<queueVars, poolVars, arg, task, historyVars>>

StopReturns ==
    /\ running = {}
    /\ Goto(Owner, "join", "stopped")
    /\ UNCHANGED <<queueVars, poolVars, arg, task, historyVars>>

(* ~Threadpool after stop(): _isExit is set, the members are destroyed.    *)
Destroy ==
    /\ isExit
    /\ Goto(Owner, "stopped", "destroyed")
    /\ UNCHANGED <<queueVars, poolVars, arg, task, historyVars>>

-----------------------------------------------------------------------------
(* A worker: thread_func, get_task and TaskQueue::pop.                     *)

Loop(w) ==
    /\ Goto(w, "loop", IF isExit THEN "done" ELSE "pop_lock")
    /\ UNCHANGED <<queueVars, poolVars, arg, task, historyVars>>

PopLock(w) ==
    /\ Goto(w, "pop_lock", "pop_test")
    /\ Lock(w)
    /\ UNCHANGED <<que, flag, notEmpty, notFull, poolVars, arg, task, historyVars>>

PopTest(w) ==
    /\ Goto(w, "pop_test", IF flag /\ empty THEN "pop_wait" ELSE "pop_take")
    /\ UNCHANGED <<queueVars, poolVars, arg, task, historyVars>>

PopWait(w) ==
    /\ Goto(w, "pop_wait", "pop_waiting")
    /\ CondRelease
    /\ notEmpty' = notEmpty \cup {w}
    /\ UNCHANGED <<que, flag, notFull, poolVars, arg, task, historyVars>>

\* mutation: "if" in place of "while" in pop
PopReacquireIf(w) ==
    /\ w \notin notEmpty
    /\ Goto(w, "pop_waiting", "pop_take")
    /\ CondReacquire(w)
    /\ UNCHANGED <<que, flag, notEmpty, notFull, poolVars, arg, task, historyVars>>

PopReacquire(w) ==
    /\ w \notin notEmpty
    /\ Goto(w, "pop_waiting", "pop_test")
    /\ CondReacquire(w)
    /\ UNCHANGED <<que, flag, notEmpty, notFull, poolVars, arg, task, historyVars>>

\* mutation: pop does not signal _notFull
PopTakeSilent(w) ==
    /\ flag
    /\ Goto(w, "pop_take", "pop_unlock")
    /\ task' = [task EXCEPT ![w] = Head(que)]
    /\ que' = Tail(que)
    /\ UNCHANGED <<flag, mutex, isLocking, notEmpty, notFull, poolVars, arg,
                   historyVars>>

\* mutation: the task is read with front() and left in the queue
PopTakeFront(w) ==
    /\ flag
    /\ Goto(w, "pop_take", "pop_unlock")
    /\ task' = [task EXCEPT ![w] = Head(que)]
    /\ notFull' \in Notified(notFull)
    /\ UNCHANGED <<que, flag, mutex, isLocking, notEmpty, poolVars, arg, historyVars>>

(* flag is read a second time, after the loop.                             *)
PopTake(w) ==
    /\ flag
    /\ Goto(w, "pop_take", "pop_unlock")
    /\ task' = [task EXCEPT ![w] = Head(que)]
    /\ que' = Tail(que)
    /\ notFull' \in Notified(notFull)
    /\ UNCHANGED <<flag, mutex, isLocking, notEmpty, poolVars, arg, historyVars>>

PopNull(w) ==
    /\ ~flag
    /\ Goto(w, "pop_take", "pop_unlock")
    /\ UNCHANGED <<queueVars, poolVars, arg, task, historyVars>>

PopUnlock(w) ==
    /\ Goto(w, "pop_unlock", IF task[w] # NoTask THEN "run" ELSE "loop")
    /\ Unlock
    /\ UNCHANGED <<que, flag, notEmpty, notFull, poolVars, arg, task, historyVars>>

Run(w) ==
    /\ Goto(w, "run", "loop")
    /\ finished' = finished \cup {task[w]}
    /\ task' = [task EXCEPT ![w] = NoTask]
    /\ UNCHANGED <<queueVars, poolVars, arg, submitted>>

(* "虚假唤醒": pthread_cond_wait may return without a signal.              *)
SpuriousWake(t) ==
    /\ t \in notEmpty \cup notFull
    /\ notEmpty' = notEmpty \ {t}
    /\ notFull' = notFull \ {t}
    /\ UNCHANGED <<que, flag, mutex, isLocking, poolVars, pc, arg, task, historyVars>>

-----------------------------------------------------------------------------

OwnerStep ==
    \/ \E w \in Workers : StartThread(w) \/ Join(w)
    \/ StartReturns
    \/ PushLock \/ PushTest \/ PushWait \/ PushReacquire
    \/ PushInsert \/ PushUnlock \/ PushNotify
    \/ StopPoll \/ StopExit \/ WakeFlag \/ WakeNotifyAll \/ StopReturns

(* What the Owner does next is up to the program that uses the pool.       *)
OwnerCall == Stop \/ Destroy \/ \E t \in Tasks : AddTask(t)

WorkerStep(w) ==
    \/ Loop(w) \/ PopLock(w) \/ PopTest(w) \/ PopWait(w) \/ PopReacquire(w)
    \/ PopTake(w) \/ PopNull(w) \/ PopUnlock(w) \/ Run(w)

Next ==
    \/ OwnerStep
    \/ OwnerCall
    \/ \E w \in Workers : WorkerStep(w)
    \/ \E t \in Threads : SpuriousWake(t)

Spec == Init /\ [][Next]_vars

(* Every thread is scheduled, tasks return, and no thread is kept from the *)
(* mutex for ever when it is free again and again.  Nothing is assumed of  *)
(* the calls of the Owner and of spurious wake-ups.                        *)
Fairness ==
    /\ WF_vars(OwnerStep)
    /\ SF_vars(PushLock) /\ SF_vars(PushReacquire)
    /\ \A w \in Workers : /\ WF_vars(WorkerStep(w))
                          /\ SF_vars(PopLock(w)) /\ SF_vars(PopReacquire(w))

FairSpec == Spec /\ Fairness

-----------------------------------------------------------------------------
(* Properties.                                                             *)

TypeOK ==
    /\ que \in Seq(Tasks)
    /\ flag \in BOOLEAN
    /\ mutex \in Threads \cup {NoThread}
    /\ isLocking \in BOOLEAN
    /\ notEmpty \subseteq Workers
    /\ notFull \subseteq {Owner}
    /\ isExit \in BOOLEAN
    /\ running \subseteq Workers
    /\ pc \in [Threads -> OwnerPC \cup WorkerPC]
    /\ pc[Owner] \in OwnerPC /\ \A w \in Workers : pc[w] \in WorkerPC
    /\ arg \in Tasks \cup {NoTask}
    /\ task \in [Workers -> Tasks \cup {NoTask}]
    /\ submitted \subseteq Tasks
    /\ finished \subseteq Tasks

(* TaskQueue.cc:47-52: front() and pop() are never called on an empty      *)
(* queue, although flag is read twice and changed without the mutex.       *)
TakeFindsTask ==
    \A w \in Workers : pc[w] = "pop_take" /\ flag => que # <<>>

(* TaskQueue.cc:38: tasks are never left in the queue with every worker    *)
(* asleep, unless the signal that will wake one is about to be sent.       *)
QueuedTaskWakes ==
    Workers # {} /\ que # <<>> /\ Workers \subseteq notEmpty
        => pc[Owner] \in {"push_unlock", "push_notify"}

(* TaskQueue.cc:53: the Owner sleeps in push only while the queue is full. *)
PusherSleepsWhenFull == notFull # {} => full

(* MutexLock.cc:13 and the destructors of Condition: when the pool is      *)
(* destroyed the mutex is free and known to be free (the assertion), no    *)
(* thread sleeps on a condition variable and every worker has ended.       *)
DestroyedClean ==
    pc[Owner] = "destroyed" =>
        /\ ~isLocking /\ mutex = NoThread
        /\ notEmpty = {} /\ notFull = {}
        /\ \A w \in Workers : pc[w] = "done"

(* Threadpool.cc:41-55: once stop() has returned every task that was added *)
(* has been run.                                                           *)
StopLosesNoTask ==
    pc[Owner] \in {"stopped", "destroyed"} => finished = submitted

(* Threadpool.cc:57-79 implements TaskPool: a worker is busy from the moment it has   *)
(* taken a task (TaskQueue.cc:52) until the call returns.                  *)
Pool == INSTANCE TaskPool WITH buffer <- que, busy <- task

ImplementsTaskPool == Pool!Spec

(* With fair scheduling it also implements the promise of TaskPool that    *)
(* queued tasks are taken and taken tasks finish.                          *)
ImplementsFairTaskPool == Pool!FairSpec

(* Threadpool.cc:57-60: add_task returns.                                  *)
AddTaskReturns == pc[Owner] = "push_lock" ~> pc[Owner] = "idle"

(* Threadpool.cc:49-53: stop() returns if no worker is between its test of *)
(* flag and its sleep when wake_up broadcasts.                             *)
WakeReachesSleepers ==
    (pc[Owner] = "wake_notify" /\ \A w \in Workers : pc[w] # "pop_wait")
        ~> pc[Owner] = "stopped"

(* Threadpool.cc:73-75 takes every worker to be blocked already in         *)
(* get_task() when _isExit is set, so that wake_up reaches it: stop()      *)
(* returns.                                                                *)
StopAlwaysReturns == pc[Owner] = "stop_poll" /\ empty ~> pc[Owner] = "stopped"

(* TestTcpServer.cc:70: the work is handed to the pool; a task that is in  *)
(* the queue is run.                                                       *)
QueuedTaskIsRun == \A t \in Tasks : t \in submitted ~> t \in finished
=============================================================================

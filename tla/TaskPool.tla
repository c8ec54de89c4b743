------------------------------ MODULE TaskPool ------------------------------
(***************************************************************************)
(* What Threadpool (hpc_server/src/Threadpool.cc) promises to the thread   *)
(* that calls add_task: a task that was accepted waits in a queue of at    *)
(* most QueSize tasks, is taken from it in the order of acceptance by one  *)
(* worker, and is run by that worker once.  Threads, locks and condition   *)
(* variables are left to Threadpool.tla, which implements this module.     *)
(***************************************************************************)
EXTENDS Integers, Sequences, FiniteSets

CONSTANTS Workers,  \* the threads of the pool
          Tasks,    \* the tasks that may be handed to add_task, each once
          NoTask,   \* the empty std::function
          QueSize   \* TaskQueue::_que_size

VARIABLES buffer,     \* accepted tasks no worker has taken, oldest first
          busy,       \* busy[w]: the task worker w has taken and not finished
          submitted,  \* the tasks add_task has accepted
          finished    \* the tasks that have been run to their end

vars == <<buffer, busy, submitted, finished>>

Init ==
    /\ buffer = <<>>
    /\ busy = [w \in Workers |-> NoTask]
    /\ submitted = {}
    /\ finished = {}

(* add_task: the task enters the queue when there is room for it. *)
Submit(t) ==
    /\ t \notin submitted
    /\ Len(buffer) < QueSize
    /\ buffer' = Append(buffer, t)
    /\ submitted' = submitted \cup {t}
    /\ UNCHANGED <<busy, finished>>

(* get_task: an idle worker takes the oldest task. *)
Take(w) ==
    /\ buffer # <<>>
    /\ busy[w] = NoTask
    /\ busy' = [busy EXCEPT ![w] = Head(buffer)]
    /\ buffer' = Tail(buffer)
    /\ UNCHANGED <<submitted, finished>>

(* thread_func: the call of the task returns. *)
Finish(w) ==
    /\ busy[w] # NoTask
    /\ finished' = finished \cup {busy[w]}
    /\ busy' = [busy EXCEPT ![w] = NoTask]
    /\ UNCHANGED <<buffer, submitted>>

Next ==
    \/ \E t \in Tasks : Submit(t)
    \/ \E w \in Workers : Take(w) \/ Finish(w)

Spec == Init /\ [][Next]_vars

(* A pool that keeps running: queued tasks are taken, taken tasks finish.  *)
FairSpec ==
    /\ Spec
    /\ WF_vars(\E w \in Workers : Take(w))
    /\ \A w \in Workers : WF_vars(Finish(w))

-----------------------------------------------------------------------------

TypeOK ==
    /\ buffer \in Seq(Tasks)
    /\ busy \in [Workers -> Tasks \cup {NoTask}]
    /\ submitted \subseteq Tasks
    /\ finished \subseteq Tasks

Queued == {buffer[i] : i \in 1..Len(buffer)}
Running == {busy[w] : w \in Workers} \ {NoTask}

Accounted == submitted = Queued \cup Running \cup finished
InOnePlace ==
    /\ Queued \cap Running = {}
    /\ Queued \cap finished = {}
    /\ Running \cap finished = {}
QueuedOnce == \A i, j \in 1..Len(buffer) : buffer[i] = buffer[j] => i = j
RunningOnce ==
    \A v, w \in Workers : busy[v] = busy[w] => v = w \/ busy[v] = NoTask

(* Threadpool.cc:57-78 loses no task and runs none twice: an accepted task *)
(* is in exactly one place, and it is there only once.                     *)
ExactlyOnce == Accounted /\ InOnePlace /\ QueuedOnce /\ RunningOnce
=============================================================================

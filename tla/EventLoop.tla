------------------------------ MODULE EventLoop ------------------------------
(***************************************************************************)
(* How other threads make the IO thread run something: run_in_loop, wakeup,*)
(* hand_read and do_pending_functors of hpc_server/src/EventLoop.cc, with  *)
(* loop() and unloop().  The sockets the same loop serves are in           *)
(* Server.tla; here an epoll_wait that reports only sockets is a time-out. *)
(*                                                                         *)
(* A functor may call run_in_loop while it runs: functors are called with  *)
(* the mutex released (EventLoop.cc:160-167).                              *)
(***************************************************************************)
EXTENDS Integers, Sequences, FiniteSets

CONSTANTS Callers,   \* the threads that call run_in_loop: the pool's workers
          IO,        \* the thread in loop()
          Functors,  \* the functors that may be posted, each once
          NoFunctor,
          NoThread   \* nobody holds _mutex

ASSUME EventLoopAssumption ==
    /\ IO \notin Callers
    /\ NoThread \notin Callers \cup {IO}
    /\ NoFunctor \notin Functors

VARIABLES
    isLooping,  \* _isLooping
    mutex,      \* _mutex: its holder or NoThread
    pending,    \* _pendingFunctors
    eventfd,    \* the counter of _eventfd
    tmp,        \* do_pending_functors: the functors taken and not called yet
    pc,         \* pc[t]: where thread t is
    arg,        \* arg[t]: the functor thread t is posting
    posted,     \* history: the functors in the order run_in_loop stored them
    ran         \* history: the functors in the order they were called

vars == <<isLooping, mutex, pending, eventfd, tmp, pc, arg, posted, ran>>

Threads == Callers \cup {IO}

\* run_in_loop; "home" is where the calling thread was.
PostPC == {"home", "post_lock", "post_push", "post_unlock", "post_wakeup"}
\* loop() and what it calls; the IO thread calls functors when it is "home".
LoopPC == {"start", "check", "wait", "read", "swap_lock", "swap", "swap_unlock",
           "ended"}

Init ==
    /\ isLooping = FALSE
    /\ mutex = NoThread
    /\ pending = <<>>
    /\ eventfd = 0
    /\ tmp = <<>>
    /\ pc = [t \in Threads |-> IF t = IO THEN "start" ELSE "home"]
    /\ arg = [t \in Threads |-> NoFunctor]
    /\ posted = <<>>
    /\ ran = <<>>

Goto(t, from, to) == pc[t] = from /\ pc' = [pc EXCEPT ![t] = to]
Lock(t) == mutex = NoThread /\ mutex' = t
Unlock == mutex' = NoThread

Fresh(f) ==
    /\ \A i \in 1..Len(posted) : posted[i] # f
    /\ \A t \in Threads : arg[t] # f

-----------------------------------------------------------------------------
(* run_in_loop, in a worker or in a functor the IO thread is calling.      *)

RunInLoop(t, f) ==
    /\ Fresh(f)
    /\ t = IO => tmp # <<>>
    /\ Goto(t, "home", "post_lock")
    /\ arg' = [arg EXCEPT ![t] = f]
    /\ UNCHANGED <<isLooping, mutex, pending, eventfd, tmp, posted, ran>>

PostLock(t) ==
    /\ Goto(t, "post_lock", "post_push")
    /\ Lock(t)
    /\ UNCHANGED <<isLooping, pending, eventfd, tmp, arg, posted, ran>>

PostPush(t) ==
    /\ Goto(t, "post_push", "post_unlock")
    /\ pending' = Append(pending, arg[t])
    /\ posted' = Append(posted, arg[t])
    /\ UNCHANGED <<isLooping, mutex, eventfd, tmp, arg, ran>>

PostUnlock(t) ==
    /\ Goto(t, "post_unlock", "post_wakeup")
    /\ Unlock
    /\ UNCHANGED <<isLooping, pending, eventfd, tmp, arg, posted, ran>>

(* wakeup: the write adds one to the counter.                              *)
Wakeup(t) ==
    /\ Goto(t, "post_wakeup", "home")
    /\ eventfd' = eventfd + 1
    /\ arg' = [arg EXCEPT ![t] = NoFunctor]
    /\ UNCHANGED <<isLooping, mutex, pending, tmp, posted, ran>>

-----------------------------------------------------------------------------
(* The IO thread: loop, wait_epollfd, hand_read, do_pending_functors.      *)

LoopStart ==
    /\ Goto(IO, "start", "check")
    /\ isLooping' = TRUE
    /\ UNCHANGED <<mutex, pending, eventfd, tmp, arg, posted, ran>>

LoopCheck ==
    /\ Goto(IO, "check", IF isLooping THEN "wait" ELSE "ended")
    /\ UNCHANGED <<isLooping, mutex, pending, eventfd, tmp, arg, posted, ran>>

(* epoll_wait is level triggered: _eventfd is reported while its counter   *)
(* is not zero.                                                            *)
EpollEvent ==
    /\ eventfd > 0
    /\ Goto(IO, "wait", "read")
    /\ UNCHANGED <<isLooping, mutex, pending, eventfd, tmp, arg, posted, ran>>

\* mutation: epoll_wait without a time-out
EpollNoTimeout == FALSE

EpollTimeout ==
    /\ eventfd = 0
    /\ Goto(IO, "wait", "check")
    /\ UNCHANGED <<isLooping, mutex, pending, eventfd, tmp, arg, posted, ran>>

HandRead ==
    /\ Goto(IO, "read", "swap_lock")
    /\ eventfd' = 0
    /\ UNCHANGED <<isLooping, mutex, pending, tmp, arg, posted, ran>>

SwapLock ==
    /\ Goto(IO, "swap_lock", "swap")
    /\ Lock(IO)
    /\ UNCHANGED <<isLooping, pending, eventfd, tmp, arg, posted, ran>>

\* mutation: the pending functors are copied and not taken
SwapCopy ==
    /\ Goto(IO, "swap", "swap_unlock")
    /\ tmp' = pending
    /\ UNCHANGED <<isLooping, mutex, pending, eventfd, arg, posted, ran>>

Swap ==
    /\ Goto(IO, "swap", "swap_unlock")
    /\ tmp' = pending
    /\ pending' = tmp
    /\ UNCHANGED <<isLooping, mutex, eventfd, arg, posted, ran>>

\* mutation: the functors are called with the mutex held
SwapUnlockLate ==
    /\ Goto(IO, "swap_unlock", "home")
    /\ UNCHANGED <<isLooping, mutex, pending, eventfd, tmp, arg, posted, ran>>

SwapUnlock ==
    /\ Goto(IO, "swap_unlock", "home")
    /\ Unlock
    /\ UNCHANGED <<isLooping, pending, eventfd, tmp, arg, posted, ran>>

CallFunctor ==
    /\ pc[IO] = "home"
    /\ tmp # <<>>
    /\ ran' = Append(ran, Head(tmp))
    /\ tmp' = Tail(tmp)
    /\ UNCHANGED <<isLooping, mutex, pending, eventfd, pc, arg, posted>>

\* mutation: the counter is read after the functors have been called
FunctorsDoneRead ==
    /\ tmp = <<>>
    /\ Goto(IO, "home", "check")
    /\ eventfd' = 0
    /\ UNCHANGED <<isLooping, mutex, pending, tmp, arg, posted, ran>>

FunctorsDone ==
    /\ tmp = <<>>
    /\ Goto(IO, "home", "check")
    /\ UNCHANGED <<isLooping, mutex, pending, eventfd, tmp, arg, posted, ran>>

(* unloop, from any thread: it does nothing before loop() has begun.       *)
Unloop ==
    /\ isLooping
    /\ isLooping' = FALSE
    /\ UNCHANGED <<mutex, pending, eventfd, tmp, pc, arg, posted, ran>>

-----------------------------------------------------------------------------

PostStep(t) == PostLock(t) \/ PostPush(t) \/ PostUnlock(t) \/ Wakeup(t)

LoopStep ==
    \/ LoopStart \/ LoopCheck \/ EpollEvent \/ EpollTimeout
    \/ HandRead \/ SwapLock \/ Swap \/ SwapUnlock
    \/ CallFunctor \/ FunctorsDone

Next ==
    \/ \E t \in Threads : PostStep(t) \/ \E f \in Functors : RunInLoop(t, f)
    \/ LoopStep
    \/ Unloop

Spec == Init /\ [][Next]_vars

(* Every thread is scheduled, functors return, and nobody is kept from a   *)
(* mutex that is free again and again.  Calls and unloop() need not happen.*)
Fairness ==
    /\ \A t \in Threads : WF_vars(PostStep(t)) /\ SF_vars(PostLock(t))
    /\ WF_vars(LoopStep) /\ SF_vars(SwapLock)

FairSpec == Spec /\ Fairness

-----------------------------------------------------------------------------
(* Properties.                                                             *)

TypeOK ==
    /\ isLooping \in BOOLEAN
    /\ mutex \in Threads \cup {NoThread}
    /\ pending \in Seq(Functors)
    /\ eventfd \in Nat
    /\ tmp \in Seq(Functors)
    /\ pc \in [Threads -> PostPC \cup LoopPC]
    /\ \A t \in Callers : pc[t] \in PostPC
    /\ arg \in [Threads -> Functors \cup {NoFunctor}]
    /\ posted \in Seq(Functors)
    /\ ran \in Seq(Functors)

(* EventLoop.cc:51-57, 86-91: a stored functor is never left behind: the   *)
(* counter tells the loop of it, or its poster is about to, or the loop    *)
(* is on its way to fetch it.                                              *)
NoFunctorStranded ==
    pending # <<>> =>
        \/ eventfd > 0
        \/ \E t \in Threads : pc[t] \in {"post_unlock", "post_wakeup"}
        \/ pc[IO] \in {"swap_lock", "swap"}

(* EventLoop.cc:51-57, 158-168: for those who call run_in_loop the loop is *)
(* a queue: what mutex, swap and eventfd do in several steps is one step   *)
(* that stores a functor and one that calls the oldest, and none is called *)
(* twice.                                                                  *)
Queue == INSTANCE FunctorQueue WITH waiting <- tmp \o pending,
                                    called <- {ran[i] : i \in 1..Len(ran)}
ImplementsFunctorQueue == Queue!Spec

(* EventLoop.cc:51-57: run_in_loop returns, also when a functor calls it.  *)
RunInLoopReturns == \A t \in Threads : pc[t] = "post_lock" ~> pc[t] = "home"

Ran(f) == \E i \in 1..Len(ran) : ran[i] = f

(* EventLoop.cc:51-57: a stored functor is called unless the loop ends.    *)
FunctorIsCalled ==
    \A f \in Functors :
        (\E i \in 1..Len(posted) : posted[i] = f) /\ pc[IO] # "start"
            ~> Ran(f) \/ ~isLooping

(* EventLoop.cc:32-46: unloop() ends a loop that has begun, although it    *)
(* wakes nobody.                                                           *)
UnloopEndsLoop ==
    (pc[IO] # "start" /\ ~isLooping) ~> pc[IO] = "ended"
=============================================================================

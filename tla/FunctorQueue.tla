----------------------------- MODULE FunctorQueue -----------------------------
(***************************************************************************)
(* What EventLoop::run_in_loop and do_pending_functors (hpc_server/src/    *)
(* EventLoop.cc) promise to the threads that hand functors to the loop: a  *)
(* functor that was stored waits its turn, and the IO thread calls those   *)
(* that wait one by one, the oldest first, each once.  The mutex, _eventfd *)
(* and the swap are left to EventLoop.tla, which implements this module;   *)
(* Server.tla, where run_in_loop is one step, implements it too.           *)
(***************************************************************************)
EXTENDS Sequences, Integers

CONSTANT Functors  \* the functors that may be stored, each once

VARIABLES waiting, \* the functors stored and not called, oldest first
          called   \* the functors that have been called

vars == <<waiting, called>>

Waiting == {waiting[i] : i \in 1..Len(waiting)}

Init ==
    /\ waiting = <<>>
    /\ called = {}

(* run_in_loop. *)
Post(f) ==
    /\ f \notin Waiting \cup called
    /\ waiting' = Append(waiting, f)
    /\ UNCHANGED called

(* do_pending_functors: the next one. *)
Call ==
    /\ waiting # <<>>
    /\ called' = called \cup {Head(waiting)}
    /\ waiting' = Tail(waiting)

Next == Call \/ \E f \in Functors : Post(f)

Spec == Init /\ [][Next]_vars
=============================================================================

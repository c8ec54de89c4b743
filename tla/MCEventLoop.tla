----------------------------- MODULE MCEventLoop -----------------------------
(* EventLoop for TLC: two workers that post to the loop, three functors.   *)
EXTENDS EventLoop, TLC
=============================================================================

---------------------------- MODULE MCThreadpool ----------------------------
(* Threadpool for TLC; the configurations give the constants their values. *)
EXTENDS Threadpool
=============================================================================

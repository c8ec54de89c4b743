------------------------------- MODULE MCServer -------------------------------
(* Server for TLC. *)
EXTENDS Server, TLC

(* Sound in runs without liveness only.                                    *)
Symmetry == Permutations(Conns) \cup Permutations(Workers)
=============================================================================

-------------------------------- MODULE Powers --------------------------------
(* The powers of 2, which the code writes as shifts.                       *)
EXTENDS Integers

(* 1 << n.                                                                 *)
Power[n \in Nat] == IF n = 0 THEN 1 ELSE 2 * Power[n - 1]
=============================================================================

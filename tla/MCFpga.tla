-------------------------------- MODULE MCFpga --------------------------------
(* Words and chars of three bits, so that bytes from 4 on are negative:    *)
(* indices of two bits, the second of which lies across two words, for as  *)
(* many registers as a char can say; indices of one bit, of none and of a  *)
(* whole word; no registers, and one more than a char can say.             *)
EXTENDS Fpga

MCHeaders == {<<2, 3>>, <<1, 2>>, <<0, 2>>, <<3, 1>>, <<2, 0>>, <<0, 4>>}
=============================================================================

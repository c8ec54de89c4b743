------------------------------- MODULE MCStream -------------------------------
(* A message of one byte, an empty one and one of two bytes, with lengths  *)
(* of two bytes, over socket buffers smaller than a message with its       *)
(* length and than an answer with its length.                              *)
EXTENDS Stream

MCSizes == <<1, 0, 2>>
=============================================================================

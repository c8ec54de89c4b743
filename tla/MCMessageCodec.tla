---------------------------- MODULE MCMessageCodec ----------------------------
(* Every command and one that is none, one word and one half-word that are *)
(* not the defaults.                                                       *)
EXTENDS MessageCodec

MCWords == {<<1, 2, 3, 4>>}
MCHalves == {<<5, 6>>}
MCBytes == Commands \cup {200}
=============================================================================

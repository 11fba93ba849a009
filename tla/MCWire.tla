--------------------------------- MODULE MCWire ---------------------------------
(* Model-checking instances of Wire. *)
EXTENDS Wire
=================================================================================

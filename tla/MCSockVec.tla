-------------------------------- MODULE MCSockVec --------------------------------
(* Model-checking instance of SockVec. *)
EXTENDS SockVec
==================================================================================

------------------------------- MODULE MCBuffer -------------------------------
(* Model-checking instance of Buffer. *)
EXTENDS Buffer
================================================================================

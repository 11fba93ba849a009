----------------------------- MODULE MCLoadMemcache -----------------------------
(* Model-checking instances of LoadMemcache. *)
EXTENDS LoadMemcache
=============================================================================

------------------------------- MODULE MCSockBuf -------------------------------
(* Model-checking instances of SockBuf. *)
EXTENDS SockBuf

(* The synthetic protocol: a fixed-size request, a header-only response. *)
SynReqLen == [k \in Kinds |-> {2}]
SynBodies == [k \in Kinds |-> {0}]

(* A byte counts to two. *)
Bits == [n \in 1 .. BodyLenEnd |-> 2 ^ n]

(* Memcache: a SET request is longer than a GET request, and only the      *)
(* response to a GET has a body.                                           *)
MemReqLen == [k \in Kinds |-> IF k = "set" THEN {3} ELSE {2}]
MemBodies == [k \in Kinds |-> IF k = "set" THEN {0} ELSE {0, 3}]

================================================================================

----------------------------- MODULE BoundedQueue -----------------------------
(***************************************************************************)
(* What the circular buffer of client/buffer.hh promises its users: a FIFO *)
(* queue of at most Capacity items.  Every operation answers with the      *)
(* items it hands out, always from the front of the queue; a request that  *)
(* the queue cannot satisfy, and no other, is refused and leaves the queue *)
(* alone.                                                                  *)
(***************************************************************************)
EXTENDS Integers, Sequences

CONSTANTS Values, Capacity

VARIABLES q,      \* the items, oldest first
          out     \* the last request and the answer to it

qvars == <<q, out>>

Answer(op, len, items) == [op |-> op, len |-> len, ok |-> TRUE, items |-> items]
Refusal(op, len)       == [op |-> op, len |-> len, ok |-> FALSE, items |-> << >>]

Free == Capacity - Len(q)

(* A range-for over a full queue visits nothing: begin() and end() are     *)
(* then the same iterator.                                                 *)
Visited == IF Free = 0 THEN << >> ELSE q

Init ==
  /\ q = << >>
  /\ out = Answer("none", 0, << >>)

(* Room for len items is prepared and 1 .. len of them are committed. *)
Put(len) ==
  \/ /\ len \in 1 .. Free
     /\ \E n \in 1 .. len : \E vs \in [1 .. n -> Values] : q' = q \o vs
     /\ out' = Answer("put", len, << >>)
  \/ /\ len \notin 1 .. Free
     /\ q' = q
     /\ out' = Refusal("put", len)

(* As many of len items as fit are added, or fewer, but at least one. *)
PutSome(len) ==
  \/ /\ len > 0 /\ Free > 0
     /\ \E n \in 1 .. Free :
          /\ n <= len
          /\ \E vs \in [1 .. n -> Values] : q' = q \o vs
     /\ out' = Answer("queue", len, << >>)
  \/ /\ len = 0 \/ Free = 0
     /\ q' = q
     /\ out' = Refusal("queue", len)

(* As many of the first len items as there are, or fewer, but at least one. *)
TakeSome(len) ==
  \/ /\ len > 0 /\ q # << >>
     /\ \E n \in 1 .. Len(q) :
          /\ n <= len
          /\ q' = SubSeq(q, n + 1, Len(q))
          /\ out' = Answer("dequeue", len, SubSeq(q, 1, n))
  \/ /\ len = 0 \/ q = << >>
     /\ q' = q
     /\ out' = Refusal("dequeue", len)

Discard(len) ==
  \/ /\ len \in 0 .. Len(q)
     /\ q' = SubSeq(q, len + 1, Len(q))
     /\ out' = Answer("drop", len, << >>)
  \/ /\ len > Len(q)
     /\ q' = q
     /\ out' = Refusal("drop", len)

Look(len) ==
  /\ q' = q
  /\ \/ /\ len \in 1 .. Len(q)
        /\ out' = Answer("peek", len, SubSeq(q, 1, len))
     \/ /\ len \notin 1 .. Len(q)
        /\ out' = Refusal("peek", len)

LookLast ==
  /\ q' = q
  /\ \/ /\ q # << >>
        /\ out' = Answer("last", 1, <<q[Len(q)]>>)
     \/ /\ q = << >>
        /\ out' = Refusal("last", 1)

VisitAll ==
  /\ q' = q
  /\ out' = Answer("for", 0, Visited)

Next ==
  \/ \E len \in 0 .. Capacity + 1 :
       Put(len) \/ PutSome(len) \/ TakeSome(len) \/ Discard(len) \/ Look(len)
  \/ LookLast
  \/ VisitAll

Spec == Init /\ [][Next]_qvars

================================================================================

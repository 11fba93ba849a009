------------------------------- MODULE BufferOps -------------------------------
(***************************************************************************)
(* The pointer arithmetic of the circular buffer (client/buffer.hh).       *)
(*                                                                         *)
(* A pointer into buf_ is its offset from buf_, so bufcap() is BUFSZ and   *)
(* nullptr is NullPtr.  A buffer's control state is a record of its three  *)
(* fields head_, tail_ and used_; the operators below compute the result   *)
(* and the new control state of each method, and the *_throws operators    *)
(* say when the method throws instead.  The stored items themselves are    *)
(* the business of module Buffer.                                          *)
(***************************************************************************)
EXTENDS Integers

CONSTANT BUFSZ          \* number of slots of the buffer (a template parameter)

ASSUME BufszAssumption == BUFSZ \in Nat \ {0}

Slots   == 0 .. BUFSZ - 1
NullPtr == -1

Control == [head : Slots, tail : Slots, used : 0 .. BUFSZ]

(* buffer(): an empty buffer. *)
EmptyControl == [head |-> 0, tail |-> 0, used |-> 0]

space(b) == BUFSZ - b.used

-----------------------------------------------------------------------------
(* Adding items. *)

(* queue_prep and queue_commit reject the same requests, in the same order. *)
queue_throws(b, len) ==
  \/ len = 0
  \/ b.used = BUFSZ
  \/ len > space(b)

(* A queue_prep that leaves the last slot before the end unused. *)
queue_prep_split_early(b, len) ==
  IF b.head <= b.tail /\ len >= BUFSZ - b.tail
  THEN [p1 |-> b.tail, n1 |-> BUFSZ - b.tail - 1, p2 |-> 0]
  ELSE [p1 |-> b.tail, n1 |-> len, p2 |-> NullPtr]

(* Where len new items go: n1 slots from p1, the other len - n1 from p2. *)
queue_prep(b, len) ==
  IF b.head <= b.tail /\ len >= BUFSZ - b.tail
  THEN [p1 |-> b.tail, n1 |-> BUFSZ - b.tail, p2 |-> 0]
  ELSE [p1 |-> b.tail, n1 |-> len, p2 |-> NullPtr]

(* A queue_commit that forgets to wrap when the free tail is used up exactly. *)
queue_commit_late_wrap(b, len) ==
  [b EXCEPT !.tail = IF b.head <= b.tail /\ len > BUFSZ - b.tail
                     THEN len - (BUFSZ - b.tail)
                     ELSE b.tail + len,
            !.used = @ + len]

(* A queue_commit that always restarts at buf_ when it reaches the end. *)
queue_commit_to_start(b, len) ==
  [b EXCEPT !.tail = IF b.head <= b.tail /\ len >= BUFSZ - b.tail
                     THEN 0
                     ELSE b.tail + len,
            !.used = @ + len]

queue_commit(b, len) ==
  [b EXCEPT !.tail = IF b.head <= b.tail /\ len >= BUFSZ - b.tail
                     THEN len - (BUFSZ - b.tail)
                     ELSE b.tail + len,
            !.used = @ + len]

(* queue() first cuts the request down to the space left, then takes only  *)
(* the contiguous part of it.                                              *)
queue_request(b, len) == IF len > space(b) /\ space(b) > 0 THEN space(b) ELSE len

queue(b, len) == queue_prep(b, queue_request(b, len))

-----------------------------------------------------------------------------
(* Inspecting and removing items. *)

(* A last() that does not wrap. *)
last_unwrapped(b) == IF b.tail = 0 THEN 0 ELSE b.tail - 1

last(b) == IF b.tail = 0 THEN BUFSZ - 1 ELSE b.tail - 1

peek_throws(b, len) ==
  \/ len = 0
  \/ b.used = 0
  \/ len > b.used

(* Where the first len items are: n1 of them from p1, the rest from p2. *)
peek(b, len) ==
  IF b.head >= b.tail /\ len > BUFSZ - b.head
  THEN [p1 |-> b.head, n1 |-> BUFSZ - b.head, p2 |-> 0]
  ELSE [p1 |-> b.head, n1 |-> len, p2 |-> NullPtr]

drop_throws(b, len) == len # 0 /\ (b.used = 0 \/ len > b.used)

drop(b, len) ==
  IF len = 0 THEN b
  ELSE [b EXCEPT !.head = IF b.head >= b.tail /\ len >= BUFSZ - b.head
                          THEN len - (BUFSZ - b.head)
                          ELSE b.head + len,
                 !.used = @ - len]

(* dequeue() cuts the request down to the items there are. *)
dequeue_request(b, len) == IF len > b.used THEN b.used ELSE len

-----------------------------------------------------------------------------
(* The iterator: a pointer and the two ends of the wrapped-around span. *)

Iterators == [ptr : Slots, span1_end : {BUFSZ, NullPtr}, span2_start : {0, NullPtr}]

iterator_at(b, p) ==
  IF b.used = 0 \/ b.head < b.tail
  THEN [ptr |-> p, span1_end |-> NullPtr, span2_start |-> NullPtr]
  ELSE [ptr |-> p, span1_end |-> BUFSZ, span2_start |-> 0]

(* A begin() that starts at buf_ when the items wrap around. *)
begin_at_buf(b) == iterator_at(b, IF b.head <= b.tail THEN b.head ELSE 0)

begin(b) == iterator_at(b, b.head)
end(b)   == iterator_at(b, b.tail)

(* operator++ *)
increment(i) ==
  [i EXCEPT !.ptr = IF i.ptr + 1 = i.span1_end THEN i.span2_start ELSE i.ptr + 1]

-----------------------------------------------------------------------------
(* The two segments that queue_prep and peek hand out, as their callers    *)
(* use them: the k-th item is in the first segment as long as it fits.     *)
SegmentSlot(seg, k) ==
  IF k <= seg.n1 THEN seg.p1 + k - 1 ELSE seg.p2 + (k - seg.n1) - 1

(* The slot of the k-th oldest item. *)
ItemSlot(b, k) ==
  IF b.head + k - 1 < BUFSZ THEN b.head + k - 1 ELSE b.head + k - 1 - BUFSZ

================================================================================

---------------------------- MODULE BufferOpsProofs ----------------------------
(***************************************************************************)
(* What the pointer arithmetic of buffer.hh keeps, for every buffer size:  *)
(* the facts about head_, tail_ and used_ that the proofs about the buffer *)
(* itself and about the bytes of the requests in it have in common.        *)
(***************************************************************************)
EXTENDS BufferOps, TLAPS

(* A control state whose three fields agree. *)
GoodControl(c) ==
  /\ c \in Control
  /\ c.tail = IF c.head + c.used < BUFSZ THEN c.head + c.used
                                         ELSE c.head + c.used - BUFSZ

(* queue_commit, on whatever it does not reject, keeps the fields of the   *)
(* control state consistent and counts the new items.                      *)
LEMMA CommitGood ==
  ASSUME NEW c, GoodControl(c), NEW n \in Nat, ~ queue_throws(c, n)
  PROVE  /\ GoodControl(queue_commit(c, n))
         /\ queue_commit(c, n).head = c.head
         /\ queue_commit(c, n).used = c.used + n
<1> DEFINE d == queue_commit(c, n)
<1>1. /\ c.head \in Slots /\ c.tail \in Slots /\ c.used \in 0 .. BUFSZ
      /\ DOMAIN c = {"head", "tail", "used"}
  BY DEF GoodControl, Control
<1> DEFINE t == IF c.head <= c.tail /\ n >= BUFSZ - c.tail
                THEN n - (BUFSZ - c.tail) ELSE c.tail + n
<1>2. d = [head |-> c.head, tail |-> d.tail, used |-> c.used + n] /\ d.tail = t
  <2>1. d = [c EXCEPT !.tail = t, !.used = c.used + n]
    BY DEF queue_commit
  <2> HIDE DEF d, t
  <2> QED
    BY <1>1, <2>1 DEF GoodControl, Control
<1>3. d.tail \in Slots /\ c.used + n \in 0 .. BUFSZ
  BY <1>1, <1>2, BufszAssumption DEF GoodControl, Slots, queue_throws, space
<1>4. d.tail = IF c.head + (c.used + n) < BUFSZ THEN c.head + (c.used + n)
                                                ELSE c.head + (c.used + n) - BUFSZ
  BY <1>1, <1>2, BufszAssumption DEF GoodControl, Slots, queue_throws, space
<1> QED
  BY <1>1, <1>2, <1>3, <1>4 DEF GoodControl, Control

(* drop keeps the fields consistent as well. *)
LEMMA DropGood ==
  ASSUME NEW c, GoodControl(c), NEW n \in Nat, ~ drop_throws(c, n)
  PROVE  /\ GoodControl(drop(c, n))
         /\ drop(c, n).used = c.used - n
         /\ \A k \in 1 .. c.used - n : ItemSlot(drop(c, n), k) = ItemSlot(c, k + n)
<1> DEFINE d == drop(c, n)
<1>1. /\ c.head \in Slots /\ c.tail \in Slots /\ c.used \in 0 .. BUFSZ
      /\ DOMAIN c = {"head", "tail", "used"}
  BY DEF GoodControl, Control
<1>2. CASE n = 0
  BY <1>1, <1>2 DEF drop, ItemSlot, Slots
<1>3. CASE n # 0
  <2>1. /\ d = [head |-> d.head, tail |-> c.tail, used |-> c.used - n]
        /\ d.head = IF c.head >= c.tail /\ n >= BUFSZ - c.head
                    THEN n - (BUFSZ - c.head) ELSE c.head + n
    BY <1>1, <1>3 DEF drop, GoodControl, Control
  <2>2. d.head \in Slots /\ c.used - n \in 0 .. BUFSZ
    BY <1>1, <1>3, <2>1, BufszAssumption DEF GoodControl, Slots, drop_throws
  <2>3. c.tail = IF d.head + (c.used - n) < BUFSZ THEN d.head + (c.used - n)
                                                  ELSE d.head + (c.used - n) - BUFSZ
    BY <1>1, <1>3, <2>1, BufszAssumption DEF GoodControl, Slots, drop_throws
  <2>4. \A k \in 1 .. c.used - n : ItemSlot(d, k) = ItemSlot(c, k + n)
    BY <1>1, <1>3, <2>1, BufszAssumption
    DEF GoodControl, Slots, drop_throws, ItemSlot
  <2> QED
    BY <1>1, <2>1, <2>2, <2>3, <2>4 DEF GoodControl, Control
<1> QED
  BY <1>2, <1>3

(* drop moves the head on by the number of items, around the end. *)
LEMMA DropHead ==
  ASSUME NEW c, GoodControl(c), NEW n \in 1 .. c.used
  PROVE  drop(c, n).head = IF c.head + n < BUFSZ THEN c.head + n ELSE c.head + n - BUFSZ
<1>1. /\ c.head \in Slots /\ c.tail \in Slots /\ c.used \in 0 .. BUFSZ
      /\ DOMAIN c = {"head", "tail", "used"}
  BY DEF GoodControl, Control
<1>2. drop(c, n).head = IF c.head >= c.tail /\ n >= BUFSZ - c.head
                        THEN n - (BUFSZ - c.head) ELSE c.head + n
  BY <1>1, BufszAssumption DEF drop, GoodControl, Control
<1> QED
  BY <1>1, <1>2, BufszAssumption DEF GoodControl, Slots

(* The segments of queue_prep are the slots that come after the items, in  *)
(* order, and these are free.                                              *)
LEMMA PrepSlots ==
  ASSUME NEW c, GoodControl(c), NEW len \in Nat, ~ queue_throws(c, len),
         NEW k \in 1 .. len
  PROVE  /\ SegmentSlot(queue_prep(c, len), k) = ItemSlot(c, c.used + k)
         /\ ItemSlot(c, c.used + k) \in Slots
         /\ \A j \in 1 .. c.used : ItemSlot(c, j) # ItemSlot(c, c.used + k)
BY BufszAssumption
DEF GoodControl, Control, Slots, queue_throws, space, queue_prep, SegmentSlot, ItemSlot

(* Different items are in different slots. *)
LEMMA SlotsDistinct ==
  ASSUME NEW c, GoodControl(c), NEW j \in 1 .. BUFSZ, NEW k \in 1 .. BUFSZ,
         ItemSlot(c, j) = ItemSlot(c, k)
  PROVE  j = k
BY BufszAssumption DEF GoodControl, Control, Slots, ItemSlot

(* The segments of peek are the slots of the first items, in order. *)
LEMMA PeekSlots ==
  ASSUME NEW c, GoodControl(c), NEW len \in Nat, ~ peek_throws(c, len),
         NEW k \in 1 .. len
  PROVE  /\ SegmentSlot(peek(c, len), k) = ItemSlot(c, k)
         /\ ItemSlot(c, k) \in Slots
BY BufszAssumption
DEF GoodControl, Control, Slots, peek_throws, peek, SegmentSlot, ItemSlot

================================================================================

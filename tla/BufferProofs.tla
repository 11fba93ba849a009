------------------------------ MODULE BufferProofs ------------------------------
(***************************************************************************)
(* Proofs about the circular buffer, for every size and every set of       *)
(* items.  Everything rests on TailAgrees: head_, tail_ and used_ are      *)
(* redundant, and each method of buffer.hh keeps them consistent.          *)
(***************************************************************************)
EXTENDS Buffer, BufferOpsProofs, SequenceTheorems, TLAPS

-----------------------------------------------------------------------------
(* What every reachable buffer satisfies. *)

Items == Values \cup {Blank}

Stored ==
  /\ buf \in [Slots -> Items]
  /\ GoodControl(b)
  /\ \A k \in 1 .. b.used : buf[ItemSlot(b, k)] \in Values

(* The items of a buffer are a sequence of values as long as used_ says. *)
LEMMA ContentsSeq ==
  ASSUME Stored
  PROVE  /\ b.used \in 0 .. BUFSZ
         /\ Contents \in Seq(Values)
         /\ Len(Contents) = b.used
         /\ \A k \in 1 .. b.used : Contents[k] = buf[ItemSlot(b, k)]
<1>1. b.used \in 0 .. BUFSZ
  BY DEF Stored, GoodControl, Control
<1>2. Contents \in [1 .. b.used -> Values]
  BY DEF Contents, Stored
<1>3. Contents \in Seq(Values) /\ Len(Contents) = b.used
  BY <1>1, <1>2, BufszAssumption
<1> QED
  BY <1>1, <1>3 DEF Contents

(* Copying n items to the segments of queue_prep(len) and committing n of  *)
(* them appends them to the queue, for every n up to len.                  *)
LEMMA PutAppends ==
  ASSUME Stored, NEW len \in Nat, ~ queue_throws(b, len),
         NEW n \in 1 .. len, NEW vs \in [1 .. n -> Values],
         buf' = Filled(queue_prep(b, len), vs), b' = queue_commit(b, n)
  PROVE  Stored' /\ Contents' = Contents \o vs
<1> DEFINE seg == queue_prep(b, len)
<1>1. vs \in Seq(Values) /\ Len(vs) = n
  BY BufszAssumption
<1>2. /\ b.used \in 0 .. BUFSZ /\ b.used + n <= BUFSZ
      /\ ~ queue_throws(b, n)
  BY BufszAssumption DEF Stored, GoodControl, Control, queue_throws, space
<1>3. /\ GoodControl(b') /\ b'.used = b.used + n /\ b'.head = b.head
  BY <1>2, CommitGood DEF Stored
<1>4. \A k \in 1 .. BUFSZ : ItemSlot(b', k) = ItemSlot(b, k)
  BY <1>3 DEF ItemSlot
<1>5. \A k \in 1 .. n : /\ SegmentSlot(seg, k) = ItemSlot(b, b.used + k)
                        /\ ItemSlot(b, b.used + k) \in Slots
                        /\ \A j \in 1 .. b.used : ItemSlot(b, j) # ItemSlot(b, b.used + k)
  BY PrepSlots DEF Stored
<1>6. \A j, k \in 1 .. n : SegmentSlot(seg, j) = SegmentSlot(seg, k) => j = k
  <2> SUFFICES ASSUME NEW j \in 1 .. n, NEW k \in 1 .. n,
                      SegmentSlot(seg, j) = SegmentSlot(seg, k)
               PROVE  j = k
    OBVIOUS
  <2>1. b.used + j \in 1 .. BUFSZ /\ b.used + k \in 1 .. BUFSZ
    BY <1>2, BufszAssumption
  <2>2. ItemSlot(b, b.used + j) = ItemSlot(b, b.used + k)
    BY <1>5
  <2>3. b.used + j = b.used + k
    BY <2>1, <2>2, SlotsDistinct DEF Stored
  <2> QED
    BY <1>2, <2>3
<1>7. \A k \in 1 .. n : buf'[ItemSlot(b, b.used + k)] = vs[k]
  <2> SUFFICES ASSUME NEW k \in 1 .. n
               PROVE  buf'[ItemSlot(b, b.used + k)] = vs[k]
    OBVIOUS
  <2> DEFINE c == CHOOSE j \in 1 .. Len(vs) : SegmentSlot(seg, j) = SegmentSlot(seg, k)
  <2>1. c \in 1 .. n /\ SegmentSlot(seg, c) = SegmentSlot(seg, k)
    BY <1>1
  <2>2. c = k
    BY <2>1, <1>6
  <2>3. buf'[SegmentSlot(seg, k)] = vs[c]
    BY <1>1, <1>5 DEF Filled
  <2> QED
    BY <2>2, <2>3, <1>5
<1>8. \A k \in 1 .. b.used : buf'[ItemSlot(b, k)] = buf[ItemSlot(b, k)]
  <2> SUFFICES ASSUME NEW k \in 1 .. b.used
               PROVE  buf'[ItemSlot(b, k)] = buf[ItemSlot(b, k)]
    OBVIOUS
  <2>1. ItemSlot(b, k) \in Slots
    BY <1>2, BufszAssumption, SMTT(30) DEF Stored, GoodControl, Control, Slots, ItemSlot
  <2>2. ~ \E j \in 1 .. Len(vs) : SegmentSlot(seg, j) = ItemSlot(b, k)
    BY <1>1, <1>5
  <2> QED
    BY <2>1, <2>2 DEF Filled
<1>9. buf' \in [Slots -> Items]
  <2>1. \A x \in Slots : (\E k \in 1 .. Len(vs) : SegmentSlot(seg, k) = x)
          => vs[CHOOSE k \in 1 .. Len(vs) : SegmentSlot(seg, k) = x] \in Items
    BY <1>1 DEF Items
  <2> QED
    BY <2>1 DEF Filled, Stored
<1>10. \A k \in 1 .. b.used + n :
         buf'[ItemSlot(b', k)] = IF k <= b.used THEN Contents[k] ELSE vs[k - b.used]
  <2> SUFFICES ASSUME NEW k \in 1 .. b.used + n
               PROVE  buf'[ItemSlot(b, k)] = IF k <= b.used THEN Contents[k]
                                                            ELSE vs[k - b.used]
    BY <1>2, <1>4, BufszAssumption
  <2>1. CASE k <= b.used
    BY <1>2, <1>8, <2>1, ContentsSeq
  <2>2. CASE k > b.used
    <3>1. k - b.used \in 1 .. n /\ b.used + (k - b.used) = k
      BY <1>2, <2>2
    <3> QED
      BY <1>2, <1>7, <2>2, <3>1
  <2> QED
    BY <1>2, <2>1, <2>2
<1>11. \A k \in 1 .. b'.used : buf'[ItemSlot(b', k)] \in Values
  BY <1>2, <1>3, <1>10, ContentsSeq, SMTT(30)
<1>12. Stored'
  BY <1>3, <1>9, <1>11 DEF Stored
<1>13. Contents' \in Seq(Values) /\ Len(Contents') = b.used + n
       /\ \A k \in 1 .. b.used + n : Contents'[k] = buf'[ItemSlot(b', k)]
  BY <1>2, <1>3, <1>11 DEF Contents
<1>14. /\ Contents \o vs \in Seq(Values)
       /\ Len(Contents \o vs) = b.used + n
       /\ \A k \in 1 .. b.used + n :
            (Contents \o vs)[k] = IF k <= b.used THEN Contents[k] ELSE vs[k - b.used]
  <2>1. Contents \in Seq(Values) /\ Len(Contents) = b.used
    BY ContentsSeq
  <2> HIDE DEF Contents
  <2>2. /\ Contents \o vs \in Seq(Values)
        /\ Len(Contents \o vs) = Len(Contents) + Len(vs)
        /\ \A k \in 1 .. Len(Contents) + Len(vs) :
             (Contents \o vs)[k] = IF k <= Len(Contents) THEN Contents[k]
                                   ELSE vs[k - Len(Contents)]
    BY <1>1, <2>1, ConcatProperties, Zenon
  <2> QED
    BY <1>1, <2>1, <2>2
<1>15. Contents' = Contents \o vs
  BY <1>10, <1>13, <1>14, <1>2, SeqEqual
<1> QED
  BY <1>12, <1>15

(* The first n items, read through the segments of peek, are the first n   *)
(* items of the queue.                                                     *)
LEMMA PeekItems ==
  ASSUME Stored, NEW len \in Nat, ~ peek_throws(b, len), NEW n \in 1 .. len
  PROVE  /\ ItemsIn(peek(b, len), n) = SubSeq(Contents, 1, n)
         /\ SubSeq(Contents, 1, n) \in Seq(Values)
<1> DEFINE s == ItemsIn(peek(b, len), n)
<1>1. n <= b.used /\ b.used \in Nat
  BY BufszAssumption DEF peek_throws, Stored, GoodControl, Control
<1>2. \A k \in 1 .. n : /\ buf[SegmentSlot(peek(b, len), k)] = Contents[k]
                        /\ Contents[k] \in Values
  BY <1>1, PeekSlots, ContentsSeq DEF Stored
<1>3. s \in Seq(Values) /\ Len(s) = n /\ \A k \in 1 .. n : s[k] = Contents[k]
  BY <1>2 DEF ItemsIn
<1>4. /\ SubSeq(Contents, 1, n) \in Seq(Values)
      /\ Len(SubSeq(Contents, 1, n)) = n
      /\ \A k \in 1 .. n : SubSeq(Contents, 1, n)[k] = Contents[k]
  <2> HIDE DEF Contents
  <2> QED
    BY <1>2, SubSeqProperties
<1>5. s = SubSeq(Contents, 1, n)
  <2> HIDE DEF s, Contents
  <2> QED
    BY <1>3, <1>4, SeqEqual
<1> QED
  BY <1>4, <1>5

(* drop(n) removes the first n items and keeps the rest. *)
LEMMA DropRemoves ==
  ASSUME Stored, NEW n \in Nat, ~ drop_throws(b, n), b' = drop(b, n), buf' = buf
  PROVE  Stored' /\ Contents' = SubSeq(Contents, n + 1, Len(Contents))
<1>1. b.used \in 0 .. BUFSZ /\ n <= b.used
  BY BufszAssumption DEF Stored, GoodControl, Control, drop_throws
<1>2. /\ GoodControl(b') /\ b'.used = b.used - n
      /\ \A k \in 1 .. b.used - n : ItemSlot(b', k) = ItemSlot(b, k + n)
  BY DropGood DEF Stored
<1>3. \A k \in 1 .. b.used - n : /\ k + n \in 1 .. b.used
                                 /\ buf'[ItemSlot(b', k)] = Contents[k + n]
                                 /\ Contents[k + n] \in Values
  <2> SUFFICES ASSUME NEW k \in 1 .. b.used - n
               PROVE  /\ k + n \in 1 .. b.used
                      /\ buf'[ItemSlot(b', k)] = Contents[k + n]
                      /\ Contents[k + n] \in Values
    OBVIOUS
  <2>1. k + n \in 1 .. b.used
    BY <1>1
  <2>2. Contents[k + n] = buf[ItemSlot(b, k + n)] /\ Contents[k + n] \in Values
    BY <2>1, ContentsSeq DEF Stored
  <2> QED
    BY <1>2, <2>1, <2>2
<1>4. Stored'
  BY <1>2, <1>3 DEF Stored
<1>5. /\ Contents' \in Seq(Values) /\ Len(Contents') = b.used - n
      /\ \A k \in 1 .. b.used - n : Contents'[k] = Contents[k + n]
  <2>1. Contents' = [k \in 1 .. b.used - n |-> buf'[ItemSlot(b', k)]]
    BY <1>2 DEF Contents
  <2> HIDE DEF Contents
  <2> QED
    BY <1>1, <1>3, <2>1
<1> DEFINE t == SubSeq(Contents, n + 1, b.used)
<1>6. /\ t \in Seq(Values) /\ Len(t) = b.used - n
      /\ \A k \in 1 .. b.used - n : t[k] = Contents[k + n]
  <2>1. \A i \in n + 1 .. b.used : Contents[i] \in Values
    BY <1>1, ContentsSeq DEF Stored
  <2> HIDE DEF Contents
  <2>2. /\ t \in Seq(Values)
        /\ Len(t) = IF n + 1 <= b.used THEN b.used - (n + 1) + 1 ELSE 0
        /\ \A i \in 1 .. b.used - (n + 1) + 1 : t[i] = Contents[n + 1 + i - 1]
    BY <1>1, <2>1, SubSeqProperties
  <2> HIDE DEF t
  <2> QED
    BY <1>1, <2>2
<1>7. Contents' = t
  <2> HIDE DEF t, Contents
  <2> QED
    BY <1>5, <1>6, SeqEqual
<1> QED
  BY <1>1, <1>4, <1>7, ContentsSeq

-----------------------------------------------------------------------------
(* The inductive invariant: the buffer is well formed, and a running       *)
(* range-for stands at the item after the ones it has visited, except that *)
(* in a full buffer it is over as soon as it starts.                       *)

OutOK == out \in [op : Ops, len : 0 .. BUFSZ + 1, ok : BOOLEAN, items : Seq(Items)]

AtItem(k) == it = iterator_at(b, ItemSlot(b, k))

Iterating ==
  \/ it = NoIterator /\ visited = << >>
  \/ it = end(b) /\ visited = << >> /\ b.used = BUFSZ
  \/ /\ b.used < BUFSZ
     /\ visited \in Seq(Values)
     /\ Len(visited) <= b.used
     /\ \A k \in 1 .. Len(visited) : visited[k] = buf[ItemSlot(b, k)]
     /\ AtItem(Len(visited) + 1)

IInv == Stored /\ OutOK /\ Iterating

(* The inductive invariant gives the invariants that TLC checks. *)
LEMMA IInvTypeOK ==
  ASSUME IInv
  PROVE  TypeOK
<1>1. buf \in [Slots -> Items] /\ b \in Control /\ b.used \in 0 .. BUFSZ
  BY DEF IInv, Stored, GoodControl, Control
<1>2. visited \in Seq(Items)
  <2>1. << >> \in Seq(Items)
    OBVIOUS
  <2>2. visited \in Seq(Values) => visited \in Seq(Items)
    BY SeqMonotonic DEF Items
  <2> QED
    BY <2>1, <2>2 DEF IInv, Iterating
<1>3. \A p \in Slots : iterator_at(b, p) \in Iterators
  BY DEF iterator_at, Iterators
<1>4. CASE it = NoIterator
  BY <1>1, <1>2, <1>4 DEF TypeOK, IInv, OutOK, Items
<1>5. CASE it = end(b)
  <2>1. it \in Iterators
    BY <1>1, <1>3, <1>5 DEF end, Control
  <2> QED
    BY <1>1, <1>2, <2>1 DEF TypeOK, IInv, OutOK, Items
<1>6. CASE b.used < BUFSZ /\ visited \in Seq(Values) /\ Len(visited) <= b.used
           /\ AtItem(Len(visited) + 1)
  <2>1. ItemSlot(b, Len(visited) + 1) \in Slots
    BY <1>1, <1>6, BufszAssumption DEF ItemSlot, Control, Slots
  <2>2. it \in Iterators
    BY <1>3, <1>6, <2>1 DEF AtItem
  <2> QED
    BY <1>1, <1>2, <2>2 DEF TypeOK, IInv, OutOK, Items
<1> QED
  BY <1>4, <1>5, <1>6 DEF IInv, Iterating

(* An iterator that begin(), end() or operator++ returned is not the       *)
(* default one.                                                            *)
LEMMA IteratorPointsSomewhere ==
  ASSUME Stored, NEW p \in Slots
  PROVE  iterator_at(b, p) # NoIterator
<1>1. iterator_at(b, p).ptr = p
  BY DEF iterator_at
<1>2. NoIterator.ptr = -1
  BY DEF NoIterator, NullPtr
<1> QED
  BY <1>1, <1>2, BufszAssumption DEF Slots

(* When the buffer is not full, the slots after the items and the one      *)
(* where end() stands are the same.                                        *)
LEMMA EndIsAfterItems ==
  ASSUME Stored, b.used < BUFSZ
  PROVE  end(b) = iterator_at(b, ItemSlot(b, b.used + 1))
<1>1. ItemSlot(b, b.used + 1) = b.tail
  BY BufszAssumption DEF Stored, GoodControl, Control, Slots, ItemSlot
<1> QED
  BY <1>1 DEF end

(* operator++ moves from one item to the next, and from the last to end(). *)
LEMMA IncrementAdvances ==
  ASSUME Stored, b.used < BUFSZ, NEW k \in 1 .. b.used
  PROVE  increment(iterator_at(b, ItemSlot(b, k))) = iterator_at(b, ItemSlot(b, k + 1))
<1>1. /\ b.head \in Slots /\ b.tail \in Slots /\ b.used \in 1 .. BUFSZ - 1
  BY BufszAssumption DEF Stored, GoodControl, Control
<1>2. CASE b.head < b.tail
  <2>1. ItemSlot(b, k) + 1 = ItemSlot(b, k + 1) /\ ItemSlot(b, k) + 1 # -1
    BY <1>1, <1>2, BufszAssumption, SMTT(30) DEF Stored, GoodControl, Slots, ItemSlot
  <2> QED
    BY <1>2, <2>1 DEF increment, iterator_at, NullPtr
<1>3. CASE ~ (b.head < b.tail)
  <2>1. (IF ItemSlot(b, k) + 1 = BUFSZ THEN 0 ELSE ItemSlot(b, k) + 1) = ItemSlot(b, k + 1)
    BY <1>1, BufszAssumption DEF Slots, ItemSlot
  <2> QED
    BY <1>1, <1>3, <2>1 DEF increment, iterator_at
<1> QED
  BY <1>2, <1>3

-----------------------------------------------------------------------------
LEMMA InitOK ==
  ASSUME Init
  PROVE  IInv /\ Abstract!Init
<1>1. b \in Control /\ b.used = 0 /\ GoodControl(b)
  BY BufszAssumption DEF Init, EmptyControl, Control, Slots, GoodControl
<1>2. Stored
  BY <1>1 DEF Init, Stored, Items
<1>3. Contents = << >>
  BY <1>1 DEF Contents
<1>4. OutOK
  BY BufszAssumption DEF Init, OutOK, Returns, Ops
<1>5. Iterating
  BY DEF Init, Iterating
<1> QED
  BY <1>2, <1>3, <1>4, <1>5
  DEF Init, IInv, Abstract!Init, Abstract!Answer, Returns

(* A refused call changes nothing but the answer. *)
LEMMA RefuseOK ==
  ASSUME Stored, NEW op \in Ops, NEW len \in 0 .. BUFSZ + 1, Refuse(op, len)
  PROVE  Stored' /\ Contents' = Contents /\ OutOK' /\ out' = Abstract!Refusal(op, len)
<1>1. out' = [op |-> op, len |-> len, ok |-> FALSE, items |-> << >>]
  BY DEF Refuse, Throws
<1>2. << >> \in Seq(Items)
  OBVIOUS
<1> QED
  BY <1>1, <1>2 DEF Refuse, Stored, Contents, OutOK, Abstract!Refusal

(* So is an answer typed when its items are values. *)
LEMMA ReturnsOK ==
  ASSUME NEW op \in Ops, NEW len \in 0 .. BUFSZ + 1, NEW s \in Seq(Values),
         out' = Returns(op, len, s)
  PROVE  OutOK' /\ out' = Abstract!Answer(op, len, s)
<1>1. s \in Seq(Items)
  BY SeqMonotonic DEF Items
<1> QED
  BY <1>1 DEF OutOK, Returns, Abstract!Answer

LEMMA NothingReturnedOK ==
  ASSUME NEW op \in Ops, NEW len \in 0 .. BUFSZ + 1, out' = Returns(op, len, << >>)
  PROVE  OutOK' /\ out' = Abstract!Answer(op, len, << >>)
<1>1. << >> \in Seq(Values)
  OBVIOUS
<1> QED
  BY <1>1, ReturnsOK

LEMMA PutOK ==
  ASSUME Stored, NEW len \in 0 .. BUFSZ + 1, NEW n \in 1 .. BUFSZ,
         NEW vs \in [1 .. n -> Values], PrepFillCommit(len, vs)
  PROVE  Stored' /\ OutOK' /\ Abstract!Put(len)
<1>1. b.used \in 0 .. BUFSZ /\ Len(Contents) = b.used /\ Contents \in Seq(Values)
  BY ContentsSeq
<1>2. Len(vs) = n
  BY BufszAssumption
<1>3. queue_throws(b, len) <=> len \notin 1 .. Abstract!Free
  BY <1>1, BufszAssumption DEF queue_throws, space, Abstract!Free
<1>4. CASE queue_throws(b, len) /\ Refuse("put", len)
  BY <1>3, <1>4, RefuseOK DEF Ops, Abstract!Put
<1>5. CASE /\ ~ queue_throws(b, len)
           /\ Len(vs) \in 1 .. len
           /\ buf' = Filled(queue_prep(b, len), vs)
           /\ b' = queue_commit(b, Len(vs))
           /\ out' = Returns("put", len, << >>)
  <2>1. len \in Nat /\ n \in 1 .. len
    BY <1>2, <1>5
  <2>2. Stored' /\ Contents' = Contents \o vs
    BY <1>2, <1>5, <2>1, PutAppends
  <2>3. OutOK' /\ out' = Abstract!Answer("put", len, << >>)
    BY <1>5, NothingReturnedOK DEF Ops
  <2> HIDE DEF Contents
  <2> QED
    BY <1>3, <1>5, <2>1, <2>2, <2>3 DEF Abstract!Put
<1> QED
  BY <1>4, <1>5 DEF PrepFillCommit

LEMMA QueueOK ==
  ASSUME Stored, NEW len \in 0 .. BUFSZ + 1, NEW n \in 1 .. BUFSZ,
         NEW vs \in [1 .. n -> Values], Queue(len, vs)
  PROVE  Stored' /\ OutOK' /\ Abstract!PutSome(len)
<1> DEFINE r == queue_request(b, len)
           seg == queue(b, len)
<1>1. b.used \in 0 .. BUFSZ /\ Len(Contents) = b.used /\ Contents \in Seq(Values)
  BY ContentsSeq
<1>2. Len(vs) = n
  BY BufszAssumption
<1>3. /\ r \in Nat /\ r <= len
      /\ queue_throws(b, r) <=> (len = 0 \/ Abstract!Free = 0)
  BY <1>1, BufszAssumption DEF queue_request, queue_throws, space, Abstract!Free
<1>4. CASE queue_throws(b, r) /\ Refuse("queue", len)
  BY <1>3, <1>4, RefuseOK DEF Ops, Abstract!PutSome
<1>5. CASE /\ ~ queue_throws(b, r)
           /\ Len(vs) = seg.n1
           /\ buf' = Filled(seg, vs)
           /\ b' = queue_commit(b, seg.n1)
           /\ out' = Returns("queue", len, << >>)
  <2>1. seg = queue_prep(b, r) /\ seg.n1 = n
    BY <1>2, <1>5 DEF queue
  <2>2. n \in 1 .. r /\ r <= BUFSZ - b.used
    BY <1>1, <1>3, <1>5, <2>1, BufszAssumption DEF queue_prep, queue_throws, space
  <2>3. Stored' /\ Contents' = Contents \o vs
    <3> HIDE DEF r, seg
    <3> QED
      BY <1>3, <1>5, <2>1, <2>2, PutAppends
  <2>4. OutOK' /\ out' = Abstract!Answer("queue", len, << >>)
    BY <1>5, NothingReturnedOK DEF Ops
  <2>5. n \in 1 .. Abstract!Free /\ n <= len /\ len > 0 /\ Abstract!Free > 0
    BY <1>1, <1>3, <2>2, BufszAssumption DEF Abstract!Free
  <2> HIDE DEF Contents
  <2> QED
    BY <2>3, <2>4, <2>5 DEF Abstract!PutSome
<1> QED
  BY <1>4, <1>5 DEF Queue

LEMMA LastOK ==
  ASSUME Stored, Last
  PROVE  Stored' /\ OutOK' /\ Abstract!LookLast
<1>1. b.used \in 0 .. BUFSZ /\ Len(Contents) = b.used /\ Contents \in Seq(Values)
  BY ContentsSeq
<1>2. 1 \in 0 .. BUFSZ + 1
  BY BufszAssumption
<1>3. CASE b.used = 0 /\ Refuse("last", 1)
  <2>1. Contents = << >>
    <3> HIDE DEF Contents
    <3> QED
      BY <1>1, <1>3
  <2> QED
    BY <1>2, <1>3, <2>1, RefuseOK DEF Ops, Abstract!LookLast
<1>4. CASE b.used # 0 /\ out' = Returns("last", 1, <<buf[last(b)]>>)
           /\ buf' = buf /\ b' = b
  <2>1. last(b) = ItemSlot(b, b.used)
    BY <1>1, <1>4, BufszAssumption DEF Stored, GoodControl, Control, Slots, last, ItemSlot
  <2>2. b.used \in 1 .. b.used
    BY <1>1, <1>4, BufszAssumption
  <2>3. buf[last(b)] = Contents[b.used] /\ Contents[b.used] \in Values
    BY <2>1, <2>2, ContentsSeq DEF Stored
  <2>4. Contents # << >>
    <3> HIDE DEF Contents
    <3> QED
      BY <1>1, <1>4
  <2>5. <<Contents[b.used]>> \in Seq(Values)
    BY <2>3
  <2>6. OutOK' /\ out' = Abstract!Answer("last", 1, <<Contents[Len(Contents)]>>)
    BY <1>1, <1>2, <1>4, <2>3, <2>5, ReturnsOK DEF Ops
  <2>7. Stored' /\ Contents' = Contents
    BY <1>4 DEF Stored, Contents
  <2> QED
    BY <2>4, <2>6, <2>7 DEF Abstract!LookLast
<1> QED
  BY <1>3, <1>4 DEF Last

LEMMA PeekOK ==
  ASSUME Stored, NEW len \in 0 .. BUFSZ + 1, Peek(len)
  PROVE  Stored' /\ OutOK' /\ Abstract!Look(len)
<1>1. b.used \in 0 .. BUFSZ /\ Len(Contents) = b.used /\ Contents \in Seq(Values)
  BY ContentsSeq
<1>2. peek_throws(b, len) <=> len \notin 1 .. Len(Contents)
  BY <1>1, BufszAssumption DEF peek_throws
<1>3. CASE peek_throws(b, len) /\ Refuse("peek", len)
  BY <1>2, <1>3, RefuseOK DEF Ops, Abstract!Look
<1>4. CASE ~ peek_throws(b, len) /\ out' = Returns("peek", len, ItemsIn(peek(b, len), len))
           /\ buf' = buf /\ b' = b
  <2>1. len \in Nat /\ len \in 1 .. len
    BY <1>1, <1>2, <1>4
  <2>2. /\ ItemsIn(peek(b, len), len) = SubSeq(Contents, 1, len)
        /\ SubSeq(Contents, 1, len) \in Seq(Values)
    BY <1>4, <2>1, PeekItems
  <2>3. OutOK' /\ out' = Abstract!Answer("peek", len, SubSeq(Contents, 1, len))
    BY <1>4, <2>2, ReturnsOK DEF Ops
  <2>4. Stored' /\ Contents' = Contents
    BY <1>4 DEF Stored, Contents
  <2> QED
    BY <1>2, <1>4, <2>3, <2>4 DEF Abstract!Look
<1> QED
  BY <1>3, <1>4 DEF Peek

LEMMA DropOK ==
  ASSUME Stored, NEW len \in 0 .. BUFSZ + 1, Drop(len)
  PROVE  Stored' /\ OutOK' /\ Abstract!Discard(len)
<1>1. b.used \in 0 .. BUFSZ /\ Len(Contents) = b.used /\ Contents \in Seq(Values)
  BY ContentsSeq
<1>2. drop_throws(b, len) <=> len > Len(Contents)
  BY <1>1, BufszAssumption DEF drop_throws
<1>3. CASE drop_throws(b, len) /\ Refuse("drop", len)
  BY <1>2, <1>3, RefuseOK DEF Ops, Abstract!Discard
<1>4. CASE ~ drop_throws(b, len) /\ b' = drop(b, len) /\ buf' = buf
           /\ out' = Returns("drop", len, << >>)
  <2>1. len \in Nat /\ len \in 0 .. Len(Contents)
    BY <1>1, <1>2, <1>4
  <2>2. Stored' /\ Contents' = SubSeq(Contents, len + 1, Len(Contents))
    BY <1>4, <2>1, DropRemoves
  <2>3. OutOK' /\ out' = Abstract!Answer("drop", len, << >>)
    BY <1>4, NothingReturnedOK DEF Ops
  <2> QED
    BY <2>1, <2>2, <2>3 DEF Abstract!Discard
<1> QED
  BY <1>3, <1>4 DEF Drop

LEMMA DequeueOK ==
  ASSUME Stored, NEW len \in 0 .. BUFSZ + 1, Dequeue(len)
  PROVE  Stored' /\ OutOK' /\ Abstract!TakeSome(len)
<1> DEFINE r == dequeue_request(b, len)
           n == peek(b, r).n1
<1>1. b.used \in 0 .. BUFSZ /\ Len(Contents) = b.used /\ Contents \in Seq(Values)
  BY ContentsSeq
<1>2. /\ r \in Nat /\ r <= len /\ r <= b.used
      /\ peek_throws(b, r) <=> (len = 0 \/ b.used = 0)
  BY <1>1, BufszAssumption DEF peek_throws, dequeue_request
<1>3. b.used = 0 <=> Contents = << >>
  <2> HIDE DEF Contents
  <2> QED
    BY <1>1
<1>4. CASE peek_throws(b, r) /\ Refuse("dequeue", len)
  BY <1>2, <1>3, <1>4, RefuseOK DEF Ops, Abstract!TakeSome
<1>5. CASE /\ ~ peek_throws(b, r)
           /\ b' = drop(b, n) /\ buf' = buf
           /\ out' = Returns("dequeue", len, ItemsIn(peek(b, r), n))
  <2>1. n \in 1 .. r /\ ~ drop_throws(b, n)
    BY <1>1, <1>2, <1>5, BufszAssumption
    DEF peek, peek_throws, drop_throws, Stored, GoodControl, Control, Slots
  <2>2. /\ ItemsIn(peek(b, r), n) = SubSeq(Contents, 1, n)
        /\ SubSeq(Contents, 1, n) \in Seq(Values)
    <3> HIDE DEF r, n
    <3> QED
      BY <1>2, <1>5, <2>1, PeekItems
  <2>3. Stored' /\ Contents' = SubSeq(Contents, n + 1, Len(Contents))
    <3> HIDE DEF r, n
    <3> QED
      BY <1>2, <1>5, <2>1, DropRemoves
  <2>4. OutOK' /\ out' = Abstract!Answer("dequeue", len, SubSeq(Contents, 1, n))
    BY <1>5, <2>2, ReturnsOK DEF Ops
  <2>5. len > 0 /\ Contents # << >> /\ n \in 1 .. Len(Contents) /\ n <= len
    BY <1>1, <1>2, <1>3, <1>5, <2>1
  <2> HIDE DEF r, n, Contents
  <2> QED
    BY <2>3, <2>4, <2>5 DEF Abstract!TakeSome
<1> QED
  BY <1>4, <1>5 DEF Dequeue

-----------------------------------------------------------------------------
(* Range-for loops. *)

LEMMA NoIteratorIsNotEnd ==
  ASSUME Stored
  PROVE  end(b) # NoIterator
<1>1. b.tail \in Slots
  BY DEF Stored, GoodControl, Control
<1> QED
  BY <1>1, IteratorPointsSomewhere DEF end

(* A loop over a buffer that is not full is at its end exactly when it has *)
(* visited every item.                                                     *)
LEMMA AtEndIffAllVisited ==
  ASSUME Stored, b.used < BUFSZ, NEW k \in 1 .. b.used + 1, AtItem(k)
  PROVE  it = end(b) <=> k = b.used + 1
<1>1. end(b) = iterator_at(b, ItemSlot(b, b.used + 1))
  BY EndIsAfterItems
<1>2. \A p : iterator_at(b, p).ptr = p
  BY DEF iterator_at
<1>3. b.used + 1 \in 1 .. BUFSZ /\ k \in 1 .. BUFSZ
  BY BufszAssumption DEF Stored, GoodControl, Control
<1>4. ItemSlot(b, k) = ItemSlot(b, b.used + 1) => k = b.used + 1
  BY <1>3, SlotsDistinct DEF Stored
<1> QED
  BY <1>1, <1>2, <1>4 DEF AtItem

LEMMA ForBeginOK ==
  ASSUME IInv, ForBegin
  PROVE  IInv' /\ UNCHANGED <<Contents, out>>
<1>1. Stored' /\ OutOK' /\ Contents' = Contents
  BY DEF IInv, Stored, OutOK, Contents, ForBegin
<1>2. b.used \in 0 .. BUFSZ /\ b.head \in Slots
  BY DEF IInv, Stored, GoodControl, Control
<1>3. CASE b.used = BUFSZ
  <2>1. b.head = b.tail
    BY <1>2, <1>3, BufszAssumption DEF IInv, Stored, GoodControl, Slots
  <2> QED
    BY <1>1, <1>3, <2>1 DEF IInv, Iterating, ForBegin, begin, end, iterator_at
<1>4. CASE b.used < BUFSZ
  <2>1. ItemSlot(b, 1) = b.head
    BY <1>2, BufszAssumption DEF ItemSlot, Slots
  <2>2. AtItem(1)'
    BY <2>1 DEF AtItem, ForBegin, begin, ItemSlot
  <2>3. /\ visited' = << >> /\ visited' \in Seq(Values) /\ Len(visited') = 0
    BY DEF ForBegin
  <2>4. Iterating'
    BY <1>2, <1>4, <2>2, <2>3 DEF Iterating, ForBegin
  <2> QED
    BY <1>1, <2>4 DEF IInv, ForBegin
<1> QED
  BY <1>2, <1>3, <1>4, BufszAssumption

LEMMA ForStepOK ==
  ASSUME IInv, ForStep
  PROVE  IInv' /\ UNCHANGED <<Contents, out>>
<1> DEFINE k == Len(visited) + 1
<1>1. Stored' /\ OutOK' /\ Contents' = Contents
  BY DEF IInv, Stored, OutOK, Contents, ForStep
<1>2. /\ b.used < BUFSZ
      /\ visited \in Seq(Values)
      /\ Len(visited) <= b.used
      /\ \A j \in 1 .. Len(visited) : visited[j] = buf[ItemSlot(b, j)]
      /\ AtItem(k)
  BY DEF IInv, Iterating, ForStep
<1>3. b.used \in 0 .. BUFSZ - 1 /\ Len(visited) \in Nat /\ k \in 1 .. b.used + 1
  BY <1>2, BufszAssumption DEF IInv, Stored, GoodControl, Control
<1>4. k \in 1 .. b.used
  <2>1. k # b.used + 1
    BY <1>2, <1>3, AtEndIffAllVisited DEF IInv, ForStep
  <2> QED
    BY <1>3, <2>1
<1>5. it.ptr = ItemSlot(b, k) /\ buf[ItemSlot(b, k)] \in Values
  BY <1>2, <1>4 DEF AtItem, iterator_at, IInv, Stored
<1>6. it' = iterator_at(b, ItemSlot(b, k + 1))
  BY <1>2, <1>4, IncrementAdvances DEF ForStep, AtItem, IInv
<1>7. /\ visited' \in Seq(Values) /\ Len(visited') = k
      /\ \A j \in 1 .. k : visited'[j] = buf[ItemSlot(b, j)]
  <2>1. visited' = Append(visited, buf[ItemSlot(b, k)])
    BY <1>5 DEF ForStep
  <2> QED
    BY <1>2, <1>3, <1>5, <2>1
<1>8. Iterating'
  <2>1. b' = b /\ buf' = buf
    BY DEF ForStep
  <2>2. AtItem(Len(visited) + 1)'
    BY <1>6, <1>7, <2>1 DEF AtItem
  <2> QED
    BY <1>2, <1>4, <1>7, <2>1, <2>2 DEF Iterating
<1> QED
  BY <1>1, <1>8 DEF IInv, ForStep

LEMMA ForEndOK ==
  ASSUME IInv, ForEnd
  PROVE  IInv' /\ Abstract!VisitAll
<1>1. Stored' /\ Contents' = Contents
  BY DEF IInv, Stored, Contents, ForEnd
<1>2. b.used \in 0 .. BUFSZ /\ Len(Contents) = b.used /\ Contents \in Seq(Values)
  BY ContentsSeq DEF IInv
<1>3. it # NoIterator
  BY NoIteratorIsNotEnd DEF IInv, ForEnd
<1>4. visited \in Seq(Values) /\ visited = Abstract!Visited
  <2>1. CASE it = end(b) /\ visited = << >> /\ b.used = BUFSZ
    BY <1>2, <2>1, BufszAssumption DEF Abstract!Visited, Abstract!Free
  <2>2. CASE /\ b.used < BUFSZ
             /\ visited \in Seq(Values)
             /\ Len(visited) <= b.used
             /\ \A k \in 1 .. Len(visited) : visited[k] = buf[ItemSlot(b, k)]
             /\ AtItem(Len(visited) + 1)
    <3>1. Len(visited) = b.used
      <4>1. Len(visited) + 1 \in 1 .. b.used + 1
        BY <1>2, <2>2
      <4>2. Len(visited) + 1 = b.used + 1
        BY <2>2, <4>1, AtEndIffAllVisited DEF IInv, ForEnd
      <4> QED
        BY <1>2, <2>2, <4>2
    <3>2. \A k \in 1 .. b.used : visited[k] = Contents[k]
      BY <2>2, <3>1, ContentsSeq DEF IInv
    <3> HIDE DEF Contents
    <3>3. visited = Contents
      BY <1>2, <2>2, <3>1, <3>2, SeqEqual
    <3> QED
      BY <1>2, <2>2, <3>3, BufszAssumption DEF Abstract!Visited, Abstract!Free
  <2> QED
    BY <1>3, <2>1, <2>2 DEF IInv, Iterating
<1>5. OutOK' /\ out' = Abstract!Answer("for", 0, Abstract!Visited)
  <2>1. 0 \in 0 .. BUFSZ + 1
    BY BufszAssumption
  <2> QED
    BY <1>4, <2>1, ReturnsOK DEF Ops, ForEnd
<1>6. Iterating'
  BY DEF Iterating, ForEnd
<1> QED
  BY <1>1, <1>5, <1>6 DEF IInv, Abstract!VisitAll

-----------------------------------------------------------------------------
(* A method call does not touch a range-for, and there is none. *)
LEMMA MethodOK ==
  ASSUME IInv, Method
  PROVE  Iterating'
<1>1. it = NoIterator /\ it' = NoIterator /\ visited' = visited
  BY DEF Method
<1>2. CASE b.used < BUFSZ /\ visited \in Seq(Values) /\ Len(visited) <= b.used
           /\ AtItem(Len(visited) + 1)
  <2>1. ItemSlot(b, Len(visited) + 1) \in Slots
    BY <1>2, BufszAssumption
    DEF IInv, Stored, GoodControl, Control, Slots, ItemSlot
  <2> QED
    BY <1>1, <1>2, <2>1, IteratorPointsSomewhere DEF IInv, AtItem
<1> QED
  BY <1>1, <1>2 DEF IInv, Iterating

LEMMA NextOK ==
  ASSUME IInv, [Next]_vars
  PROVE  IInv' /\ [Abstract!Next]_<<Contents, out>>
<1>1. ASSUME NEW len \in 0 .. BUFSZ + 1, NEW n \in 1 .. BUFSZ,
             NEW vs \in [1 .. n -> Values],
             PrepFillCommit(len, vs) \/ Queue(len, vs)
      PROVE  IInv' /\ Abstract!Next
  <2>1. Iterating'
    BY <1>1, MethodOK DEF PrepFillCommit, Queue
  <2>2. CASE PrepFillCommit(len, vs)
    BY <2>1, <2>2, PutOK DEF IInv, Abstract!Next
  <2>3. CASE Queue(len, vs)
    BY <2>1, <2>3, QueueOK DEF IInv, Abstract!Next
  <2> QED
    BY <1>1, <2>2, <2>3
<1>2. ASSUME NEW len \in 0 .. BUFSZ + 1, Peek(len) \/ Drop(len) \/ Dequeue(len)
      PROVE  IInv' /\ Abstract!Next
  <2>1. Iterating'
    BY <1>2, MethodOK DEF Peek, Drop, Dequeue
  <2>2. CASE Peek(len)
    BY <2>1, <2>2, PeekOK DEF IInv, Abstract!Next
  <2>3. CASE Drop(len)
    BY <2>1, <2>3, DropOK DEF IInv, Abstract!Next
  <2>4. CASE Dequeue(len)
    BY <2>1, <2>4, DequeueOK DEF IInv, Abstract!Next
  <2> QED
    BY <1>2, <2>2, <2>3, <2>4
<1>3. CASE Last
  <2>1. Iterating'
    BY <1>3, MethodOK DEF Last
  <2> QED
    BY <1>3, <2>1, LastOK DEF IInv, Abstract!Next
<1>4. CASE ForBegin
  BY <1>4, ForBeginOK
<1>5. CASE ForStep
  BY <1>5, ForStepOK
<1>6. CASE ForEnd
  BY <1>6, ForEndOK DEF Abstract!Next
<1>7. CASE UNCHANGED vars
  BY <1>7 DEF vars, IInv, Stored, OutOK, Iterating, AtItem, Contents
<1> QED
  BY <1>1, <1>2, <1>3, <1>4, <1>5, <1>6, <1>7 DEF Next

(* The inductive invariant holds throughout. *)
THEOREM Invariance == Spec => []IInv
<1>1. Init => IInv
  BY InitOK
<1>2. IInv /\ [Next]_vars => IInv'
  BY NextOK
<1> QED
  BY <1>1, <1>2, PTL DEF Spec

-----------------------------------------------------------------------------
(* The fields of the buffer stay in their ranges: no pointer of buffer.hh  *)
(* leaves buf_, and every answer is made of what slots can hold.           *)
THEOREM TypeCorrect == Spec => []TypeOK
<1>1. IInv => TypeOK
  BY IInvTypeOK
<1> QED
  BY <1>1, Invariance, PTL

(* head_, tail_ and used_ never disagree, whatever the size of the buffer  *)
(* and the sequence of calls.                                              *)
THEOREM TailAlwaysAgrees == Spec => []TailAgrees
<1>1. IInv => TailAgrees
  BY DEF IInv, Stored, GoodControl, TailAgrees
<1> QED
  BY <1>1, Invariance, PTL

(* Preparing room and committing less than was prepared never touches an   *)
(* item that is still in the queue, and puts the new ones in their order.  *)
THEOREM PrepAlwaysMatchesCommit == Spec => []PrepMatchesCommit
<1>1. IInv => PrepMatchesCommit
  <2> SUFFICES ASSUME IInv, NEW len \in 1 .. space(b), NEW n \in 1 .. len,
                      NEW k \in 1 .. n
               PROVE  LET new == ItemSlot(queue_commit(b, n), b.used + k) IN
                        /\ SegmentSlot(queue_prep(b, len), k) = new
                        /\ new \in Slots
                        /\ \A j \in 1 .. b.used : ItemSlot(b, j) # new
    BY DEF PrepMatchesCommit
  <2>1. GoodControl(b) /\ b.used \in 0 .. BUFSZ
    BY DEF IInv, Stored, GoodControl, Control
  <2>2. /\ len \in Nat /\ n \in Nat /\ k \in 1 .. len
        /\ ~ queue_throws(b, len) /\ ~ queue_throws(b, n)
    BY <2>1, BufszAssumption DEF space, queue_throws
  <2>3. queue_commit(b, n).head = b.head
    BY <2>1, <2>2, CommitGood
  <2>4. ItemSlot(queue_commit(b, n), b.used + k) = ItemSlot(b, b.used + k)
    BY <2>3 DEF ItemSlot
  <2> QED
    BY <2>1, <2>2, <2>4, PrepSlots
<1> QED
  BY <1>1, Invariance, PTL

(* A range-for over a buffer that is not full visits its items in queue    *)
(* order, and all of them.                                                 *)
THEOREM ForLoopAlwaysVisitsQueue == Spec => []ForLoopVisitsQueue
<1>1. IInv => ForLoopVisitsQueue
  <2> SUFFICES ASSUME IInv, it # NoIterator, b.used < BUFSZ
               PROVE  /\ visited = SubSeq(Contents, 1, Len(visited))
                      /\ it = end(b) => visited = Contents
    BY DEF ForLoopVisitsQueue
  <2>1. b.used \in 0 .. BUFSZ - 1 /\ Len(Contents) = b.used /\ Contents \in Seq(Values)
    BY ContentsSeq, BufszAssumption DEF IInv
  <2>2. /\ visited \in Seq(Values)
        /\ Len(visited) <= b.used
        /\ \A k \in 1 .. Len(visited) : visited[k] = buf[ItemSlot(b, k)]
        /\ AtItem(Len(visited) + 1)
    BY <2>1 DEF IInv, Iterating
  <2>3. Len(visited) \in Nat /\ Len(visited) + 1 \in 1 .. b.used + 1
    BY <2>1, <2>2
  <2>4. \A k \in 1 .. Len(visited) : visited[k] = Contents[k]
    <3>1. \A k \in 1 .. Len(visited) : k \in 1 .. b.used
      BY <2>1, <2>2, <2>3
    <3> QED
      BY <2>2, <3>1, ContentsSeq DEF IInv
  <2> DEFINE m == Len(visited)
             p == SubSeq(Contents, 1, m)
  <2>5. p \in Seq(Values) /\ Len(p) = m /\ \A k \in 1 .. m : p[k] = Contents[k]
    <3>1. \A k \in 1 .. m : Contents[k] \in Values
      BY <2>2, <2>4
    <3> HIDE DEF Contents, m
    <3> QED
      BY <2>3, <3>1, SubSeqProperties DEF m
  <2>6. visited = p
    <3> HIDE DEF Contents, p
    <3> QED
      BY <2>2, <2>4, <2>5, SeqEqual
  <2>7. ASSUME it = end(b)
        PROVE  visited = Contents
    <3>1. Len(visited) + 1 = b.used + 1
      BY <2>2, <2>3, <2>7, AtEndIffAllVisited DEF IInv
    <3>2. Len(visited) = Len(Contents)
      BY <2>1, <2>3, <3>1
    <3> HIDE DEF Contents
    <3> QED
      BY <2>1, <2>2, <2>4, <3>2, SeqEqual
  <2> QED
    BY <2>6, <2>7
<1> QED
  BY <1>1, Invariance, PTL

(* The circular buffer is a bounded FIFO queue, for every size: it refuses *)
(* exactly what a queue of BUFSZ items cannot do, and what it hands out is *)
(* what was put in, in order.                                              *)
THEOREM BufferIsQueue == Spec => ImplementsQueue
<1>1. Init => Abstract!Init
  BY InitOK
<1>2. IInv /\ [Next]_vars => [Abstract!Next]_<<Contents, out>>
  BY NextOK
<1> QED
  BY <1>1, <1>2, Invariance, PTL
  DEF Spec, ImplementsQueue, Abstract!Spec, Abstract!qvars

================================================================================

--------------------------------- MODULE Buffer ---------------------------------
(***************************************************************************)
(* The circular buffer of client/buffer.hh: its slots, its control state,  *)
(* and one action per method, used the way client/socket_buf.cc and the    *)
(* generators use it.  The four queues of a Sock and the request queue of  *)
(* a generator are instances of this class.                                *)
(***************************************************************************)
EXTENDS BufferOps, Sequences

CONSTANTS Values,     \* the items that are stored
          Blank       \* a slot nothing has been stored in yet

ASSUME BlankAssumption == Blank \notin Values

VARIABLES
  buf,      \* buf_: the slots
  b,        \* head_, tail_ and used_
  out,      \* what the last method returned, or that it threw
  it,       \* the iterator of a running range-for, or NoIterator
  visited   \* the items this range-for has produced so far

vars == <<buf, b, out, it, visited>>

(* buffer_iterator(): points nowhere. *)
NoIterator == [ptr |-> NullPtr, span1_end |-> NullPtr, span2_start |-> NullPtr]

Returns(op, len, items) == [op |-> op, len |-> len, ok |-> TRUE, items |-> items]
Throws(op, len)         == [op |-> op, len |-> len, ok |-> FALSE, items |-> << >>]

(* The first n items of the segments a method handed out. *)
ItemsIn(seg, n) == [k \in 1 .. n |-> buf[SegmentSlot(seg, k)]]

(* The slots after the caller has copied the items vs into the segments. *)
Filled(seg, vs) ==
  [s \in Slots |->
     IF \E k \in 1 .. Len(vs) : SegmentSlot(seg, k) = s
     THEN vs[CHOOSE k \in 1 .. Len(vs) : SegmentSlot(seg, k) = s]
     ELSE buf[s]]

-----------------------------------------------------------------------------
Init ==
  /\ buf = [s \in Slots |-> Blank]
  /\ b = EmptyControl
  /\ out = Returns("none", 0, << >>)
  /\ it = NoIterator
  /\ visited = << >>

(* A method call; range-for loops do not change the queue they run over. *)
Method == it = NoIterator /\ UNCHANGED <<it, visited>>

Refuse(op, len) ==
  /\ out' = Throws(op, len)
  /\ UNCHANGED <<buf, b>>

(* queue_prep(len), copy the items vs, queue_commit(Len(vs)): a read of up *)
(* to len bytes in Sock::rx, and with Len(vs) = len a Sock::write.         *)
PrepFillCommit(len, vs) ==
  /\ Method
  /\ \/ /\ queue_throws(b, len)
        /\ Refuse("put", len)
     \/ /\ ~ queue_throws(b, len)
        /\ Len(vs) \in 1 .. len
        /\ buf' = Filled(queue_prep(b, len), vs)
        /\ b' = queue_commit(b, Len(vs))
        /\ out' = Returns("put", len, << >>)

(* queue(len), and the caller stores to the whole array it is given: as    *)
(* many of the items vs as fit in it.  queue_emplace(v) is len = 1.        *)
Queue(len, vs) ==
  LET seg == queue(b, len) IN
  /\ Method
  /\ \/ /\ queue_throws(b, queue_request(b, len))
        /\ Refuse("queue", len)
     \/ /\ ~ queue_throws(b, queue_request(b, len))
        /\ Len(vs) = seg.n1
        /\ buf' = Filled(seg, vs)
        /\ b' = queue_commit(b, seg.n1)
        /\ out' = Returns("queue", len, << >>)

Last ==
  /\ Method
  /\ \/ /\ b.used = 0
        /\ Refuse("last", 1)
     \/ /\ b.used # 0
        /\ out' = Returns("last", 1, <<buf[last(b)]>>)
        /\ UNCHANGED <<buf, b>>

Peek(len) ==
  /\ Method
  /\ \/ /\ peek_throws(b, len)
        /\ Refuse("peek", len)
     \/ /\ ~ peek_throws(b, len)
        /\ out' = Returns("peek", len, ItemsIn(peek(b, len), len))
        /\ UNCHANGED <<buf, b>>

(* drop(len); clear() is drop(items()). *)
Drop(len) ==
  /\ Method
  /\ \/ /\ drop_throws(b, len)
        /\ Refuse("drop", len)
     \/ /\ ~ drop_throws(b, len)
        /\ b' = drop(b, len)
        /\ out' = Returns("drop", len, << >>)
        /\ UNCHANGED buf

(* dequeue(len): the contiguous part of the first len items. *)
Dequeue(len) ==
  LET n   == dequeue_request(b, len)
      seg == peek(b, n)
  IN
  /\ Method
  /\ \/ /\ peek_throws(b, n)
        /\ Refuse("dequeue", len)
     \/ /\ ~ peek_throws(b, n)
        /\ b' = drop(b, seg.n1)
        /\ out' = Returns("dequeue", len, ItemsIn(seg, seg.n1))
        /\ UNCHANGED buf

(* for (auto &x : buffer) *)
ForBegin ==
  /\ it = NoIterator
  /\ it' = begin(b)
  /\ visited' = << >>
  /\ UNCHANGED <<buf, b, out>>

ForStep ==
  /\ it \notin {NoIterator, end(b)}
  /\ visited' = Append(visited, buf[it.ptr])
  /\ it' = increment(it)
  /\ UNCHANGED <<buf, b, out>>

ForEnd ==
  /\ it = end(b)
  /\ it' = NoIterator
  /\ visited' = << >>
  /\ out' = Returns("for", 0, visited)
  /\ UNCHANGED <<buf, b>>

Next ==
  \/ \E len \in 0 .. BUFSZ + 1 :
       \/ \E n \in 1 .. BUFSZ : \E vs \in [1 .. n -> Values] :
            PrepFillCommit(len, vs) \/ Queue(len, vs)
       \/ Peek(len)
       \/ Drop(len)
       \/ Dequeue(len)
  \/ Last
  \/ ForBegin
  \/ ForStep
  \/ ForEnd

Spec == Init /\ [][Next]_vars

-----------------------------------------------------------------------------
(* The queue that the buffer represents. *)
Contents == [k \in 1 .. b.used |-> buf[ItemSlot(b, k)]]

Abstract == INSTANCE BoundedQueue WITH q <- Contents, Capacity <- BUFSZ

Ops == {"none", "put", "queue", "last", "peek", "drop", "dequeue", "for"}

TypeOK ==
  /\ buf \in [Slots -> Values \cup {Blank}]
  /\ b \in Control
  /\ out \in [op : Ops, len : 0 .. BUFSZ + 1, ok : BOOLEAN, 
              items : Seq(Values \cup {Blank})]
  /\ it \in Iterators \cup {NoIterator}
  /\ visited \in Seq(Values \cup {Blank})

(* tail_ is one past the last item, modulo the size of the buffer: the     *)
(* three fields that every method of buffer.hh updates never disagree.     *)
TailAgrees ==
  b.tail = IF b.head + b.used < BUFSZ THEN b.head + b.used
                                      ELSE b.head + b.used - BUFSZ

(* Whatever queue_prep hands out for len items is free space inside the    *)
(* buffer, and is exactly where queue_commit then expects the new items,   *)
(* in order, also when less than what was prepared is committed (a short   *)
(* read in Sock::rx).                                                      *)
PrepMatchesCommit ==
  \A len \in 1 .. space(b) : \A n \in 1 .. len : \A k \in 1 .. n :
    LET new == ItemSlot(queue_commit(b, n), b.used + k) IN
    /\ SegmentSlot(queue_prep(b, len), k) = new
    /\ new \in Slots
    /\ \A j \in 1 .. b.used : ItemSlot(b, j) # new

(* A range-for over the buffer produces its items in queue order, and when *)
(* it stops it has produced them all, unless the buffer is full.           *)
ForLoopVisitsQueue ==
  it # NoIterator /\ b.used < BUFSZ =>
    /\ visited = SubSeq(Contents, 1, Len(visited))
    /\ it = end(b) => visited = Contents

(* The buffer implements the bounded FIFO queue. *)
ImplementsQueue == Abstract!Spec

================================================================================

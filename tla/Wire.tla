---------------------------------- MODULE Wire ----------------------------------
(***************************************************************************)
(* The bytes of requests on their way through wbuf_: how the generators    *)
(* and the loader put a request together (Sock::write, write_emplace,      *)
(* write_prepare and write_commit on the segments of queue_prep) and what  *)
(* Sock::tx hands to the kernel (the segments of peek).                    *)
(*                                                                         *)
(* The byte that belongs at position p of the stream of requests is p      *)
(* itself, so a byte is right if it is its own position.  Where the code   *)
(* copies from beyond an object, or leaves memory as it is, a byte is      *)
(* Garbage or whatever was there.                                          *)
(***************************************************************************)
EXTENDS BufferOps, Sequences

CONSTANTS
  Kinds,              \* kinds of request that are sent, within DOMAIN Layout
  PKT,                \* sizeof(req_pkt)
  HDR, EXTRAS,        \* sizeof(MemcHeader), sizeof(MemcExtrasSet)
  keysize, valsize,   \* options of the memcache programs
  KEYLEN_MOD,         \* 2^16: keylen of MemcHeader is a uint16_t
  BODYLEN_MOD,        \* 2^32: bodylen of MemcHeader is a uint32_t
  NReqs               \* bound: requests in a behaviour

(* Nothing in the code checks the sizes of keys and values.  A body that   *)
(* does not fit into bodylen does not fit into the buffer either.          *)
ASSUME WireAssumption ==
  /\ {PKT, HDR, EXTRAS, KEYLEN_MOD} \subseteq Nat \ {0}
  /\ keysize \in Nat /\ valsize \in Nat
  /\ BODYLEN_MOD \in Nat /\ BODYLEN_MOD > BUFSZ
  /\ NReqs \in Nat

(* A request as the calls that write it. *)
Emplace(n) == [call |-> "emplace", len |-> n]
Write(n)   == [call |-> "write", len |-> n]
Commit(n)  == [call |-> "commit", len |-> n]

(* The key size as a uint16_t: choose_key returns one, and MemcHeader      *)
(* takes one.                                                              *)
keylen == keysize % KEYLEN_MOD

(* What _send_request of Synthetic and of Memcache and send_request of the *)
(* loader call; a synthetic request is copied like an emplaced object.     *)
(* The loader writes the whole of its key.                                 *)
SynPacket  == <<Emplace(PKT)>>
GetPacket  == <<Emplace(HDR), Write(keylen)>>
SetPacket  == <<Emplace(HDR), Emplace(EXTRAS), Write(keylen), Commit(valsize)>>
LoadPacket == <<Emplace(HDR), Emplace(EXTRAS), Write(keysize), Write(valsize)>>

Layout == [synthetic |-> SynPacket, get |-> GetPacket, set |-> SetPacket,
           load |-> LoadPacket]

ASSUME KindsAssumption == Kinds \subseteq DOMAIN Layout

(* A header whose body length leaves the extras out. *)
bodylen_no_extras(kind) == keylen + (IF kind = "get" THEN 0 ELSE valsize)

(* The body length in the header, from the arguments of MemcHeader. *)
bodylen(kind) ==
  LET el == IF kind = "get" THEN 0 ELSE EXTRAS
      vl == IF kind = "get" THEN 0 ELSE valsize
  IN  (el + keylen + vl) % BODYLEN_MOD

VARIABLES
  wbuf,     \* head_, tail_ and used_ of the buffer
  mem,      \* its bytes
  todo,     \* calls left to make for the current request
  written,  \* length of the stream so far
  objs,     \* history: what was written where: [call, start, len]
  reqs,     \* history: the requests: [kind, start]
  wire,     \* bytes the kernel has accepted
  err

vars == <<wbuf, mem, todo, written, objs, reqs, wire, err>>

Garbage == 0

Init ==
  /\ wbuf = EmptyControl /\ mem = [s \in Slots |-> Garbage]
  /\ todo = << >> /\ written = 0 /\ objs = << >> /\ reqs = << >>
  /\ wire = << >> /\ err = FALSE

-----------------------------------------------------------------------------
NewRequest(kind) ==
  /\ ~ err /\ todo = << >> /\ Len(reqs) < NReqs
  /\ todo' = Layout[kind]
  /\ reqs' = Append(reqs, [kind |-> kind, start |-> written])
  /\ UNCHANGED <<wbuf, mem, written, objs, wire, err>>

(* A write that copies the second part from the start of the data. *)
Copied_restart(call, seg, k) ==
  CASE k <= seg.n1    -> written + k
    [] call = "write" -> written + k - seg.n1
    [] OTHER          -> Garbage

(* The k-th byte a call copies.  The second part of an emplaced object is  *)
(* copied from &t + n1, which is n1 objects further on, not n1 bytes.      *)
Copied(call, seg, k) ==
  IF call = "emplace" /\ k > seg.n1 THEN Garbage ELSE written + k

Fill(call, seg, len) ==
  IF call = "commit" THEN mem
  ELSE [s \in Slots |->
          IF \E k \in 1 .. len : SegmentSlot(seg, k) = s
          THEN Copied(call, seg, CHOOSE k \in 1 .. len : SegmentSlot(seg, k) = s)
          ELSE mem[s]]

(* One call: prepare, copy, commit; a buffer without room ends the process. *)
Call ==
  /\ ~ err /\ todo # << >>
  /\ LET c == Head(todo) IN
     IF queue_throws(wbuf, c.len)
     THEN err' = TRUE /\ UNCHANGED <<wbuf, mem, todo, written, objs>>
     ELSE /\ mem' = Fill(c.call, queue_prep(wbuf, c.len), c.len)
          /\ wbuf' = queue_commit(wbuf, c.len)
          /\ objs' = Append(objs, [call |-> c.call, start |-> written, len |-> c.len])
          /\ written' = written + c.len
          /\ todo' = Tail(todo)
          /\ UNCHANGED err
  /\ UNCHANGED <<reqs, wire>>

(* A turn of tx(): the kernel takes some of all there is. *)
Tx ==
  /\ ~ err /\ todo = << >> /\ wbuf.used > 0
  /\ \E n \in 1 .. wbuf.used :
       /\ LET seg == peek(wbuf, wbuf.used)
          IN  wire' = wire \o [k \in 1 .. n |-> mem[SegmentSlot(seg, k)]]
       /\ wbuf' = drop(wbuf, n)
  /\ UNCHANGED <<mem, todo, written, objs, reqs, err>>

Next == (\E kind \in Kinds : NewRequest(kind)) \/ Call \/ Tx

Spec == Init /\ [][Next]_vars

-----------------------------------------------------------------------------
(* The buffer's control state is well-formed and agrees with the stream:   *)
(* it holds what was written and not sent.                                 *)
TypeOK ==
  /\ wbuf \in Control
  /\ mem \in [Slots -> 0 .. written]
  /\ written \in Nat /\ written = Len(wire) + wbuf.used
  /\ todo \in Seq([call : {"emplace", "write", "commit"}, len : Nat])
  /\ wire \in Seq(0 .. written) /\ err \in BOOLEAN

Object(p) == CHOOSE i \in DOMAIN objs : p \in objs[i].start + 1 .. objs[i].start + objs[i].len

(* Position p lies after the end of buf_ in an object that starts before it. *)
AfterWrap(p) == (p - 1) % BUFSZ < objs[Object(p)].start % BUFSZ

(* Whatever the alignment, the partial writes and the mix of calls, every  *)
(* byte that reaches the kernel is the byte that belongs there, except in  *)
(* a value that is never filled in and in the second part of an emplaced   *)
(* object that wraps: the misplaced copy of write_emplace damages nothing  *)
(* but that object's own tail (Sock::write, write_emplace, Sock::tx).      *)
DamageConfined ==
  \A p \in DOMAIN wire :
    \/ wire[p] = p
    \/ objs[Object(p)].call = "commit"
    \/ objs[Object(p)].call = "emplace" /\ AfterWrap(p)

(* Where request i ends. *)
ReqEnd(i) == IF i = Len(reqs) THEN written ELSE reqs[i + 1].start

(* Bytes of the loader's key that keylen does not count. *)
Uncounted(kind) == IF kind = "load" THEN keysize - keylen ELSE 0

(* For keys and values of any size, the body length a memcache header      *)
(* announces is what follows it up to the next request, whichever calls    *)
(* wrote it; only a key of the loader that is longer than keylen can count *)
(* makes it too short, by just what was not counted (MemcHeader, the       *)
(* generator's _send_request, the loader's send_request).                  *)
FramesAddUp ==
  todo = << >> =>
    \A i \in DOMAIN reqs :
      reqs[i].kind # "synthetic" =>
        reqs[i].start + HDR + bodylen(reqs[i].kind) + Uncounted(reqs[i].kind) = ReqEnd(i)

(* "total body length (key + extra + value)": what a memcache header       *)
(* announces is all that follows it (MemcHeader::bodylen, memcache.hh:86). *)
BodyLengthTotal ==
  todo = << >> =>
    \A i \in DOMAIN reqs :
      reqs[i].kind # "synthetic" => reqs[i].start + HDR + bodylen(reqs[i].kind) = ReqEnd(i)

(* "Write by constructing in-place": an object reaches the kernel as it    *)
(* was constructed (write_emplace, socket_buf.hh:135).                     *)
EmplacedIntact ==
  \A p \in DOMAIN wire : objs[Object(p)].call = "emplace" => wire[p] = p

=================================================================================

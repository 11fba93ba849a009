------------------------------- MODULE WireProofs -------------------------------
(***************************************************************************)
(* Proofs about the bytes of requests in wbuf_, for every size of buffer,  *)
(* object, key and value.  The pointer arithmetic comes from               *)
(* BufferOpsProofs; what is added here is that the slots keep step with    *)
(* the positions of the stream, and that the objects tile it.              *)
(***************************************************************************)
EXTENDS Wire, BufferOpsProofs, SequenceTheorems, TLAPS

(* Object i of a history o covers the positions after its start; Covering  *)
(* is the object a position lies in, as in Object.                         *)
Span(o, i) == o[i].start + 1 .. o[i].start + o[i].len

Covering(o, p) == CHOOSE i \in DOMAIN o : p \in Span(o, i)

Calls == {"emplace", "write", "commit"}

Objects == [call : Calls, start : Nat, len : Nat \ {0}]

(* The objects of a history cover the positions up to w, without gap or    *)
(* overlap.                                                                *)
Tiled(o, w) ==
  /\ w \in Nat
  /\ o \in Seq(Objects)
  /\ \A i \in 1 .. Len(o) : o[i].start + o[i].len <= w
  /\ \A i, j \in 1 .. Len(o) : i < j => o[i].start + o[i].len <= o[j].start
  /\ \A p \in 1 .. w : \E i \in 1 .. Len(o) : p \in Span(o, i)

(* The buffer holds the positions that were written and not sent, and its  *)
(* head is at the slot of the first of them.                               *)
Aligned ==
  /\ GoodControl(wbuf)
  /\ wire \in Seq(Nat)
  /\ written = Len(wire) + wbuf.used
  /\ wbuf.head = Len(wire) % BUFSZ

(* A byte v at position p is the one that belongs there, or one of the two *)
(* excuses of DamageConfined holds.                                        *)
Right(o, p, v) ==
  \/ v = p
  \/ o[Covering(o, p)].call = "commit"
  \/ /\ o[Covering(o, p)].call = "emplace"
     /\ (p - 1) % BUFSZ < o[Covering(o, p)].start % BUFSZ

(* What is in the buffer, and everything that left it. *)
Held ==
  /\ mem \in [Slots -> 0 .. written]
  /\ \A k \in 1 .. wbuf.used : Right(objs, Len(wire) + k, mem[ItemSlot(wbuf, k)])

Sent ==
  /\ wire \in Seq(0 .. written)
  /\ \A p \in 1 .. Len(wire) : Right(objs, p, wire[p])

(* The length of the first j calls of a request, and of all of them. *)
CallLen(kind, i) == IF i \in 1 .. Len(Layout[kind]) THEN Layout[kind][i].len ELSE 0

Upto(kind, j) ==
  (IF j >= 1 THEN CallLen(kind, 1) ELSE 0) + (IF j >= 2 THEN CallLen(kind, 2) ELSE 0)
    + (IF j >= 3 THEN CallLen(kind, 3) ELSE 0) + (IF j >= 4 THEN CallLen(kind, 4) ELSE 0)

Total(kind) == Upto(kind, 4)

(* Request r has j of its calls behind it.  Until it is complete nothing   *)
(* of it leaves the buffer.                                                *)
Stage(r, j) ==
  /\ todo = SubSeq(Layout[r.kind], j + 1, Len(Layout[r.kind]))
  /\ written = r.start + Upto(r.kind, j)
  /\ Upto(r.kind, j) <= BUFSZ
  /\ todo # << >> => Upto(r.kind, j) <= wbuf.used

(* Requests follow each other without a gap; each one but the last is      *)
(* complete and fitted into the buffer.                                    *)
Requests ==
  /\ reqs \in Seq([kind : DOMAIN Layout, start : Nat])
  /\ \A i \in 1 .. Len(reqs) - 1 :
       /\ reqs[i + 1].start = reqs[i].start + Total(reqs[i].kind)
       /\ Total(reqs[i].kind) <= BUFSZ
  /\ reqs = << >> => todo = << >>
  /\ reqs # << >> => \E j \in 0 .. Len(Layout[reqs[Len(reqs)].kind]) :
                       Stage(reqs[Len(reqs)], j)

IInv == err \in BOOLEAN /\ Tiled(objs, written) /\ Aligned /\ Held /\ Sent /\ Requests

-----------------------------------------------------------------------------
(* A number is its quotient times the modulus plus its remainder. *)
LEMMA Division ==
  ASSUME NEW x \in Nat, NEW n \in Nat \ {0}
  PROVE  x \div n \in Nat /\ x % n \in 0 .. n - 1 /\ x = n * (x \div n) + (x % n)
OBVIOUS

(* Remainders are unique. *)
LEMMA Remainder ==
  ASSUME NEW q \in Nat, NEW n \in Nat \ {0}, NEW r \in 0 .. n - 1
  PROVE  (n * q + r) % n = r
OBVIOUS

(* Going at most once around the buffer. *)
LEMMA Around ==
  ASSUME NEW x \in Nat, NEW l \in 0 .. BUFSZ
  PROVE  /\ x % BUFSZ \in Slots
         /\ (x + l) % BUFSZ = IF (x % BUFSZ) + l < BUFSZ THEN (x % BUFSZ) + l
                                                         ELSE (x % BUFSZ) + l - BUFSZ
<1> DEFINE q == x \div BUFSZ
           r == x % BUFSZ
<1>1. BUFSZ \in Nat \ {0}
  BY BufszAssumption
<1>2. q \in Nat /\ r \in 0 .. BUFSZ - 1 /\ x = BUFSZ * q + r
  BY <1>1, Division
<1> HIDE DEF q
<1>3. CASE r + l < BUFSZ
  <2>1. r + l \in 0 .. BUFSZ - 1
    BY <1>1, <1>2, <1>3
  <2>2. (BUFSZ * q + (r + l)) % BUFSZ = r + l
    BY <1>1, <1>2, <2>1, Remainder
  <2>3. x + l = BUFSZ * q + (r + l)
    <3> DEFINE m == BUFSZ * q
    <3>1. m \in Nat /\ x = m + r
      BY <1>1, <1>2
    <3> HIDE DEF m, r
    <3>2. x + l = m + (r + l)
      BY <1>1, <1>2, <3>1
    <3> QED
      BY <3>2 DEF m
  <2> QED
    BY <1>2, <1>3, <2>2, <2>3 DEF Slots
<1>4. CASE ~ (r + l < BUFSZ)
  <2>1. r + l - BUFSZ \in 0 .. BUFSZ - 1 /\ q + 1 \in Nat
    BY <1>1, <1>2, <1>4
  <2>2. (BUFSZ * (q + 1) + (r + l - BUFSZ)) % BUFSZ = r + l - BUFSZ
    <3> HIDE DEF r
    <3> QED
      BY <1>1, <1>2, <2>1, Remainder
  <2>3. x + l = BUFSZ * (q + 1) + (r + l - BUFSZ)
    <3> DEFINE m == BUFSZ * q
    <3>1. m \in Nat /\ x = m + r /\ BUFSZ * (q + 1) = m + BUFSZ
      BY <1>1, <1>2
    <3> HIDE DEF m, r
    <3> QED
      BY <1>1, <1>2, <3>1
  <2> QED
    BY <1>2, <1>4, <2>2, <2>3 DEF Slots
<1> QED
  BY <1>3, <1>4

-----------------------------------------------------------------------------
(* The history of objects. *)

(* A position lies in one object only. *)
LEMMA OneObject ==
  ASSUME NEW o, NEW w, Tiled(o, w), NEW i \in 1 .. Len(o), NEW p \in Span(o, i)
  PROVE  Covering(o, p) = i
<1> DEFINE c == Covering(o, p)
<1>1. DOMAIN o = 1 .. Len(o) /\ Len(o) \in Nat /\ \A j \in 1 .. Len(o) : o[j] \in Objects
  BY DEF Tiled
<1>2. c \in 1 .. Len(o) /\ p \in Span(o, c)
  BY <1>1 DEF Covering
<1> HIDE DEF c
<1>3. /\ o[c].start \in Nat /\ o[c].len \in Nat
      /\ o[i].start \in Nat /\ o[i].len \in Nat
  BY <1>1, <1>2 DEF Objects
<1>4. /\ p \in o[c].start + 1 .. o[c].start + o[c].len
      /\ p \in o[i].start + 1 .. o[i].start + o[i].len
  BY <1>2 DEF Span
<1>5. ~ (c < i)
  <2>1. c < i => o[c].start + o[c].len <= o[i].start
    BY <1>2 DEF Tiled
  <2> QED
    BY <2>1, <1>3, <1>4
<1>6. ~ (i < c)
  <2>1. i < c => o[i].start + o[i].len <= o[c].start
    BY <1>2 DEF Tiled
  <2> QED
    BY <2>1, <1>3, <1>4
<1>7. c = i
  BY <1>1, <1>2, <1>5, <1>6
<1> QED
  BY <1>7 DEF c

(* What appending an object does to a history. *)
Grown(o, w, x, q) ==
  /\ Tiled(o, w) /\ x \in Objects /\ x.start = w
  /\ q = Append(o, x)

LEMMA GrownParts ==
  ASSUME NEW o, NEW w, NEW x, NEW q, Grown(o, w, x, q)
  PROVE  /\ q \in Seq(Objects) /\ Len(o) \in Nat /\ Len(q) = Len(o) + 1
         /\ \A i \in 1 .. Len(o) : q[i] = o[i] /\ o[i] \in Objects
         /\ q[Len(o) + 1] = x
BY AppendProperties DEF Grown, Tiled

(* A new object starts where the last one ended. *)
LEMMA GrownTiled ==
  ASSUME NEW o, NEW w, NEW x, NEW q, Grown(o, w, x, q)
  PROVE  Tiled(q, w + x.len)
<1> DEFINE n == x.len
<1>1. w \in Nat /\ n \in Nat \ {0} /\ x.start = w
  BY DEF Grown, Objects, Tiled
<1>2. /\ q \in Seq(Objects) /\ Len(o) \in Nat /\ Len(q) = Len(o) + 1
      /\ \A i \in 1 .. Len(o) : q[i] = o[i] /\ o[i] \in Objects
      /\ q[Len(o) + 1] = x
  BY GrownParts
<1>3. /\ \A i \in 1 .. Len(o) : o[i].start + o[i].len <= w
      /\ \A i, j \in 1 .. Len(o) : i < j => o[i].start + o[i].len <= o[j].start
      /\ \A p \in 1 .. w : \E i \in 1 .. Len(o) : p \in Span(o, i)
  BY DEF Grown, Tiled
<1>4. \A i \in 1 .. Len(q) : q[i].start + q[i].len <= w + n
  <2> SUFFICES ASSUME NEW i \in 1 .. Len(q) PROVE q[i].start + q[i].len <= w + n
    OBVIOUS
  <2>1. CASE i \in 1 .. Len(o)
    <3>1. q[i] = o[i] /\ o[i].start \in Nat /\ o[i].len \in Nat
          /\ o[i].start + o[i].len <= w
      BY <2>1, <1>2, <1>3 DEF Objects
    <3> QED
      BY <3>1, <1>1
  <2>2. CASE i = Len(o) + 1
    BY <2>2, <1>1, <1>2
  <2> QED
    BY <2>1, <2>2, <1>2
<1>5. \A i, j \in 1 .. Len(q) : i < j => q[i].start + q[i].len <= q[j].start
  <2> SUFFICES ASSUME NEW i \in 1 .. Len(q), NEW j \in 1 .. Len(q), i < j
               PROVE  q[i].start + q[i].len <= q[j].start
    OBVIOUS
  <2>1. i \in 1 .. Len(o) /\ q[i] = o[i]
    BY <1>2
  <2>2. CASE j \in 1 .. Len(o)
    BY <2>1, <2>2, <1>2, <1>3
  <2>3. CASE j = Len(o) + 1
    BY <2>1, <2>3, <1>1, <1>2, <1>3
  <2> QED
    BY <2>2, <2>3, <1>2
<1>6. \A p \in 1 .. w + n : \E i \in 1 .. Len(q) : p \in Span(q, i)
  <2> SUFFICES ASSUME NEW p \in 1 .. w + n PROVE \E i \in 1 .. Len(q) : p \in Span(q, i)
    OBVIOUS
  <2>1. CASE p \in 1 .. w
    <3>1. PICK i \in 1 .. Len(o) : p \in Span(o, i)
      BY <1>3, <2>1
    <3>2. i \in 1 .. Len(q) /\ q[i] = o[i]
      BY <1>2
    <3> QED
      BY <3>1, <3>2 DEF Span
  <2>2. CASE p \in w + 1 .. w + n
    <3>1. Len(o) + 1 \in 1 .. Len(q) /\ q[Len(o) + 1].start = w /\ q[Len(o) + 1].len = n
      BY <1>1, <1>2
    <3> QED
      BY <3>1, <2>2 DEF Span
  <2> QED
    BY <2>1, <2>2, <1>1
<1>7. w + n \in Nat
  BY <1>1
<1> QED
  BY <1>2, <1>4, <1>5, <1>6, <1>7 DEF Tiled

(* Positions keep their objects, and the new ones lie in the new object. *)
LEMMA GrownCovering ==
  ASSUME NEW o, NEW w, NEW x, NEW q, Grown(o, w, x, q)
  PROVE  /\ \A p \in 1 .. w : q[Covering(q, p)] = o[Covering(o, p)]
         /\ \A k \in 1 .. x.len : q[Covering(q, w + k)] = x
<1>1. w \in Nat /\ x.len \in Nat /\ x.start = w /\ Tiled(o, w)
  BY DEF Grown, Objects, Tiled
<1>2. /\ Len(o) \in Nat /\ Len(q) = Len(o) + 1
      /\ \A i \in 1 .. Len(o) : q[i] = o[i]
      /\ q[Len(o) + 1] = x
  BY GrownParts
<1>3. Tiled(q, w + x.len)
  BY GrownTiled
<1>4. ASSUME NEW p \in 1 .. w PROVE q[Covering(q, p)] = o[Covering(o, p)]
  <2>1. PICK i \in 1 .. Len(o) : p \in Span(o, i)
    BY <1>1 DEF Tiled
  <2>2. i \in 1 .. Len(q) /\ q[i] = o[i]
    BY <1>2
  <2>3. p \in Span(q, i)
    BY <2>1, <2>2 DEF Span
  <2>4. Covering(o, p) = i
    BY <1>1, <2>1, OneObject
  <2>5. Covering(q, p) = i
    BY <1>3, <2>2, <2>3, OneObject
  <2> QED
    BY <2>2, <2>4, <2>5
<1>5. ASSUME NEW k \in 1 .. x.len PROVE q[Covering(q, w + k)] = x
  <2>1. Len(o) + 1 \in 1 .. Len(q)
    BY <1>2
  <2>2. w + k \in Span(q, Len(o) + 1)
    BY <1>1, <1>2 DEF Span
  <2>3. Covering(q, w + k) = Len(o) + 1
    BY <1>3, <2>1, <2>2, OneObject
  <2> QED
    BY <1>2, <2>3
<1> QED
  BY <1>4, <1>5

(* A byte that was right, or had an excuse, keeps it. *)
LEMMA RightKept ==
  ASSUME NEW o, NEW w, NEW x, NEW q, Grown(o, w, x, q), NEW p \in 1 .. w, NEW v,
         Right(o, p, v)
  PROVE  Right(q, p, v)
<1>1. q[Covering(q, p)] = o[Covering(o, p)]
  BY GrownCovering
<1> QED
  BY <1>1 DEF Right

-----------------------------------------------------------------------------
(* The calls of a request. *)

CallRecs == [call : Calls, len : Nat]

(* keylen is a number, and no more than the key is long. *)
LEMMA KeylenType == keylen \in Nat /\ keysize \in Nat /\ keylen <= keysize
<1>1. keysize \in Nat /\ KEYLEN_MOD \in Nat \ {0}
  BY WireAssumption
<1> QED
  BY <1>1 DEF keylen

(* A request is one to four calls. *)
LEMMA LayoutCalls ==
  ASSUME NEW kind \in DOMAIN Layout
  PROVE  Layout[kind] \in Seq(CallRecs) /\ Len(Layout[kind]) \in 1 .. 4
<1>1. /\ Emplace(PKT) \in CallRecs /\ Emplace(HDR) \in CallRecs /\ Emplace(EXTRAS) \in CallRecs
      /\ Write(keylen) \in CallRecs /\ Write(keysize) \in CallRecs
      /\ Write(valsize) \in CallRecs /\ Commit(valsize) \in CallRecs
  BY WireAssumption, KeylenType DEF CallRecs, Calls, Emplace, Write, Commit
<1>2. kind \in {"synthetic", "get", "set", "load"}
  BY DEF Layout
<1>3. CASE kind = "synthetic"
  <2>1. Layout[kind] = <<Emplace(PKT)>>
    BY <1>3 DEF Layout, SynPacket
  <2> QED
    BY <1>1, <2>1
<1>4. CASE kind = "get"
  <2>1. Layout[kind] = <<Emplace(HDR), Write(keylen)>>
    BY <1>4 DEF Layout, GetPacket
  <2> QED
    BY <1>1, <2>1
<1>5. CASE kind = "set"
  <2>1. Layout[kind] = <<Emplace(HDR), Emplace(EXTRAS), Write(keylen), Commit(valsize)>>
    BY <1>5 DEF Layout, SetPacket
  <2> QED
    BY <1>1, <2>1
<1>6. CASE kind = "load"
  <2>1. Layout[kind] = <<Emplace(HDR), Emplace(EXTRAS), Write(keysize), Write(valsize)>>
    BY <1>6 DEF Layout, LoadPacket
  <2> QED
    BY <1>1, <2>1
<1> QED
  BY <1>2, <1>3, <1>4, <1>5, <1>6

(* The length written grows by the length of each call. *)
LEMMA UptoGrows ==
  ASSUME NEW kind \in DOMAIN Layout
  PROVE  /\ \A j \in 0 .. Len(Layout[kind]) : Upto(kind, j) \in Nat
         /\ Upto(kind, 0) = 0
         /\ Upto(kind, Len(Layout[kind])) = Total(kind)
         /\ \A j \in 0 .. Len(Layout[kind]) - 1 :
              Upto(kind, j + 1) = Upto(kind, j) + Layout[kind][j + 1].len
<1> DEFINE n == Len(Layout[kind])
           l(i) == Layout[kind][i].len
<1>1. n \in 1 .. 4 /\ \A i \in 1 .. n : l(i) \in Nat
  <2> DEFINE L == Layout[kind]
  <2>1. L \in Seq(CallRecs) /\ Len(L) \in 1 .. 4
    BY LayoutCalls
  <2> HIDE DEF L
  <2>2. \A i \in 1 .. Len(L) : L[i] \in CallRecs
    BY <2>1
  <2>3. \A i \in 1 .. Len(L) : L[i].len \in Nat
    BY <2>2 DEF CallRecs
  <2> QED
    BY <2>1, <2>3 DEF L
<1>2. \A i \in 1 .. 4 : CallLen(kind, i) = IF i <= n THEN l(i) ELSE 0
  BY <1>1 DEF CallLen
<1> HIDE DEF n, l
<1>3. \A i \in 1 .. 4 : CallLen(kind, i) \in Nat
  BY <1>1, <1>2
<1>4. \A j \in 0 .. n : Upto(kind, j) \in Nat
  BY <1>1, <1>3 DEF Upto
<1>5. Upto(kind, 0) = 0
  BY DEF Upto
<1>6. Upto(kind, n) = Total(kind)
  BY <1>1, <1>2, <1>3 DEF Upto, Total
<1>7. \A j \in 0 .. n - 1 : Upto(kind, j + 1) = Upto(kind, j) + l(j + 1)
  BY <1>1, <1>2, <1>3 DEF Upto
<1> QED
  BY <1>4, <1>5, <1>6, <1>7 DEF n, l

(* The calls left: there are none exactly when all have been made, and the *)
(* next one is the one after those.                                        *)
LEMMA CallsLeft ==
  ASSUME NEW kind \in DOMAIN Layout, NEW j \in 0 .. Len(Layout[kind]), NEW t,
         t = SubSeq(Layout[kind], j + 1, Len(Layout[kind]))
  PROVE  /\ t \in Seq(CallRecs)
         /\ t = << >> <=> j = Len(Layout[kind])
         /\ t # << >> => /\ j + 1 \in 1 .. Len(Layout[kind])
                         /\ Head(t) = Layout[kind][j + 1]
                         /\ Head(t) \in CallRecs
                         /\ Tail(t) = SubSeq(Layout[kind], j + 1 + 1, Len(Layout[kind]))
<1> DEFINE L == Layout[kind]
           n == Len(L)
<1>1. L \in Seq(CallRecs) /\ n \in 1 .. 4 /\ j \in 0 .. n
  BY LayoutCalls
<1> HIDE DEF L
<1>2. \A i \in 1 .. n : L[i] \in CallRecs
  BY <1>1
<1>3. /\ t \in Seq(CallRecs) /\ Len(t) = n - j
      /\ \A i \in 1 .. n - j : t[i] = L[j + i]
  BY <1>1, <1>2, SubSeqProperties DEF L
<1>4. t = << >> <=> j = n
  <2>1. t = << >> <=> Len(t) = 0
    BY <1>3, EmptySeq
  <2> HIDE DEF n
  <2> QED
    BY <1>1, <1>3, <2>1
<1>5. ASSUME t # << >>
      PROVE  /\ j + 1 \in 1 .. n /\ Head(t) = L[j + 1] /\ Head(t) \in CallRecs
             /\ Tail(t) = SubSeq(L, j + 1 + 1, n)
  <2>1. j + 1 \in 1 .. n /\ n - j \in Nat /\ 1 \in 1 .. n - j
    <3> HIDE DEF n
    <3> QED
      BY <1>1, <1>4, <1>5
  <2>2. Head(t) = t[1]
    BY <1>3, <1>5
  <2>3. Head(t) = L[j + 1] /\ Head(t) \in CallRecs
    BY <1>2, <1>3, <2>1, <2>2
  <2> DEFINE u == Tail(t)
             s == SubSeq(L, j + 1 + 1, n)
  <2>4. u \in Seq(CallRecs) /\ Len(u) = n - j - 1 /\ \A i \in 1 .. n - j - 1 : u[i] = t[i + 1]
    BY <1>1, <1>3, <1>5, <2>1, HeadTailProperties
  <2>5. s \in Seq(CallRecs) /\ Len(s) = n - j - 1 /\ \A i \in 1 .. n - j - 1 : s[i] = L[j + 1 + i]
    <3>1. \A i \in j + 1 + 1 .. n : L[i] \in CallRecs
      BY <1>1, <1>2
    <3>2. /\ s \in Seq(CallRecs)
          /\ Len(s) = IF j + 1 + 1 <= n THEN n - (j + 1 + 1) + 1 ELSE 0
          /\ \A i \in 1 .. n - (j + 1 + 1) + 1 : s[i] = L[j + 1 + 1 + i - 1]
      <4> HIDE DEF n
      <4> QED
        BY <1>1, <2>1, <3>1, SubSeqProperties
    <3> HIDE DEF s, n
    <3> QED
      BY <1>1, <2>1, <3>2
  <2> HIDE DEF u, s
  <2>6. \A i \in 1 .. n - j - 1 : u[i] = s[i]
    <3> SUFFICES ASSUME NEW i \in 1 .. n - j - 1 PROVE u[i] = s[i]
      OBVIOUS
    <3>1. i + 1 \in 1 .. n - j /\ j + (i + 1) = j + 1 + i
      BY <2>1, <1>1
    <3> QED
      BY <3>1, <1>3, <2>4, <2>5
  <2>7. u = s
    BY <2>4, <2>5, <2>6, SeqEqual
  <2> QED
    BY <2>1, <2>3, <2>7 DEF u, s
<1> QED
  BY <1>3, <1>4, <1>5 DEF L

(* The calls left are calls. *)
LEMMA TodoCalls ==
  ASSUME Requests
  PROVE  todo \in Seq(CallRecs)
<1>1. CASE reqs = << >>
  BY <1>1 DEF Requests
<1>2. CASE reqs # << >>
  <2> DEFINE r == reqs[Len(reqs)]
  <2>1. r.kind \in DOMAIN Layout
    <3>1. reqs \in Seq([kind : DOMAIN Layout, start : Nat])
      BY DEF Requests
    <3>2. Len(reqs) \in 1 .. Len(reqs)
      BY <1>2, <3>1
    <3>3. r \in [kind : DOMAIN Layout, start : Nat]
      BY <3>1, <3>2, ElementOfSeq
    <3> QED
      BY <3>3
  <2>2. PICK j \in 0 .. Len(Layout[r.kind]) : Stage(r, j)
    BY <1>2 DEF Requests
  <2> HIDE DEF r
  <2> QED
    BY <2>1, <2>2, CallsLeft DEF Stage
<1> QED
  BY <1>1, <1>2

-----------------------------------------------------------------------------
(* What a call puts into the buffer. *)

(* The tail is at the slot of the next position to be written. *)
LEMMA TailAt ==
  ASSUME Aligned
  PROVE  /\ written \in Nat /\ Len(wire) \in Nat /\ wbuf.used \in 0 .. BUFSZ
         /\ wbuf.tail = written % BUFSZ
<1>1. Len(wire) \in Nat /\ wbuf.used \in 0 .. BUFSZ /\ wbuf.head \in Slots
  BY DEF Aligned, GoodControl, Control
<1>2. /\ written = Len(wire) + wbuf.used /\ wbuf.head = Len(wire) % BUFSZ
      /\ wbuf.tail = IF wbuf.head + wbuf.used < BUFSZ THEN wbuf.head + wbuf.used
                                                      ELSE wbuf.head + wbuf.used - BUFSZ
  BY DEF Aligned, GoodControl
<1>3. (Len(wire) + wbuf.used) % BUFSZ =
        IF (Len(wire) % BUFSZ) + wbuf.used < BUFSZ THEN (Len(wire) % BUFSZ) + wbuf.used
                                                 ELSE (Len(wire) % BUFSZ) + wbuf.used - BUFSZ
  BY <1>1, Around
<1>4. wbuf.tail = written % BUFSZ
  BY <1>2, <1>3
<1> QED
  BY <1>1, <1>2, <1>4, BufszAssumption

(* The second segment of queue_prep lies after the end of buf_: what goes  *)
(* there comes before the slot where the call started.                     *)
LEMMA SecondSegment ==
  ASSUME Aligned, NEW len \in Nat, ~ queue_throws(wbuf, len), NEW k \in 1 .. len,
         k > queue_prep(wbuf, len).n1
  PROVE  (written + k - 1) % BUFSZ < written % BUFSZ
<1> DEFINE t == wbuf.tail
           l == k - 1
<1>1. /\ written \in Nat /\ wbuf.used \in 0 .. BUFSZ /\ t = written % BUFSZ
      /\ wbuf.head \in Slots /\ t \in Slots
  BY TailAt DEF Aligned, GoodControl, Control
<1>2. len <= BUFSZ - wbuf.used
  BY <1>1, BufszAssumption DEF queue_throws, space
<1>3. wbuf.head <= t /\ len >= BUFSZ - t /\ k > BUFSZ - t
  <2>1. wbuf.head <= t /\ len >= BUFSZ - t
    BY DEF queue_prep
  <2> QED
    BY <2>1 DEF queue_prep
<1>4. l \in 0 .. BUFSZ /\ written + k - 1 = written + l
  BY <1>1, <1>2, BufszAssumption
<1>5. (written + l) % BUFSZ = IF (written % BUFSZ) + l < BUFSZ THEN (written % BUFSZ) + l
                                                  ELSE (written % BUFSZ) + l - BUFSZ
  BY <1>1, <1>4, Around
<1>6. (written + l) % BUFSZ = IF t + l < BUFSZ THEN t + l ELSE t + l - BUFSZ
  BY <1>1, <1>5
<1>7. t + l >= BUFSZ /\ t + l - BUFSZ < t
  BY <1>1, <1>2, <1>3, BufszAssumption DEF Slots
<1> HIDE DEF t
<1>8. (written + l) % BUFSZ < t
  BY <1>1, <1>6, <1>7, <1>4, BufszAssumption DEF Slots
<1> QED
  BY <1>1, <1>4, <1>8

(* A call keeps the bytes in the buffer and puts its own after them. *)
LEMMA FillBytes ==
  ASSUME GoodControl(wbuf), written \in Nat, mem \in [Slots -> 0 .. written],
         NEW c \in CallRecs, ~ queue_throws(wbuf, c.len)
  PROVE  LET seg == queue_prep(wbuf, c.len)
             f   == Fill(c.call, seg, c.len)
         IN  /\ f \in [Slots -> 0 .. written + c.len]
             /\ \A k \in 1 .. wbuf.used : f[ItemSlot(wbuf, k)] = mem[ItemSlot(wbuf, k)]
             /\ c.call # "commit" =>
                  \A k \in 1 .. c.len :
                    f[ItemSlot(wbuf, wbuf.used + k)] = Copied(c.call, seg, k)
<1> DEFINE n == c.len
           seg == queue_prep(wbuf, n)
           f == Fill(c.call, seg, n)
           u == wbuf.used
<1>1. n \in Nat \ {0} /\ u \in 0 .. BUFSZ /\ u + n <= BUFSZ
  <2>1. n \in Nat \ {0} /\ u \in 0 .. BUFSZ
    BY DEF CallRecs, GoodControl, Control, queue_throws
  <2> QED
    BY <2>1, BufszAssumption DEF queue_throws, space
<1>2. \A k \in 1 .. n : /\ SegmentSlot(seg, k) = ItemSlot(wbuf, u + k)
                        /\ ItemSlot(wbuf, u + k) \in Slots
                        /\ \A j \in 1 .. u : ItemSlot(wbuf, j) # ItemSlot(wbuf, u + k)
  BY <1>1, PrepSlots
<1>3. \A k \in 1 .. u : ItemSlot(wbuf, k) \in Slots
  <2>1. wbuf.head \in Slots
    BY DEF GoodControl, Control
  <2> QED
    BY <1>1, <2>1, BufszAssumption, SMTT(30) DEF Slots, ItemSlot
<1>4. CASE c.call = "commit"
  <2>1. f = mem
    BY <1>4 DEF Fill
  <2>2. \A s \in Slots : mem[s] \in 0 .. written + n
    BY <1>1
  <2> QED
    BY <1>4, <2>1, <2>2
<1>5. CASE c.call # "commit"
  <2> DEFINE at(s) == CHOOSE k \in 1 .. n : SegmentSlot(seg, k) = s
             hit(s) == \E k \in 1 .. n : SegmentSlot(seg, k) = s
  <2>1. f = [s \in Slots |-> IF hit(s) THEN Copied(c.call, seg, at(s)) ELSE mem[s]]
    BY <1>5 DEF Fill
  <2>2. \A s \in Slots : hit(s) => at(s) \in 1 .. n /\ SegmentSlot(seg, at(s)) = s
    OBVIOUS
  <2>3. \A k \in 1 .. n : Copied(c.call, seg, k) \in 0 .. written + n
    BY <1>1 DEF Copied, Garbage
  <2>4. \A k \in 1 .. n : hit(ItemSlot(wbuf, u + k)) /\ at(ItemSlot(wbuf, u + k)) = k
    <3> SUFFICES ASSUME NEW k \in 1 .. n
                 PROVE  hit(ItemSlot(wbuf, u + k)) /\ at(ItemSlot(wbuf, u + k)) = k
      OBVIOUS
    <3> DEFINE s == ItemSlot(wbuf, u + k)
               m == at(s)
    <3>1. s \in Slots /\ hit(s)
      BY <1>2
    <3>2. m \in 1 .. n /\ SegmentSlot(seg, m) = s
      BY <2>2, <3>1
    <3> HIDE DEF m
    <3>3. ItemSlot(wbuf, u + m) = ItemSlot(wbuf, u + k)
      BY <1>2, <3>2
    <3>4. u + m \in 1 .. BUFSZ /\ u + k \in 1 .. BUFSZ
      BY <1>1, <3>2, BufszAssumption
    <3>5. u + m = u + k
      BY <3>3, <3>4, SlotsDistinct
    <3>6. m = k
      BY <1>1, <3>2, <3>5
    <3> QED
      BY <3>1, <3>6 DEF m
  <2>5. \A k \in 1 .. u : ~ hit(ItemSlot(wbuf, k))
    BY <1>2
  <2> HIDE DEF f, hit, at
  <2>6. f \in [Slots -> 0 .. written + n]
    <3>1. \A s \in Slots : mem[s] \in 0 .. written + n
      BY <1>1
    <3>2. \A s \in Slots : (IF hit(s) THEN Copied(c.call, seg, at(s)) ELSE mem[s]) \in 0 .. written + n
      BY <2>2, <2>3, <3>1
    <3> HIDE DEF seg, n
    <3> QED
      BY <2>1, <3>2
  <2>7. \A k \in 1 .. u : f[ItemSlot(wbuf, k)] = mem[ItemSlot(wbuf, k)]
    BY <1>3, <2>1, <2>5
  <2>8. \A k \in 1 .. n : f[ItemSlot(wbuf, u + k)] = Copied(c.call, seg, k)
    BY <1>2, <2>1, <2>4
  <2> QED
    BY <2>6, <2>7, <2>8 DEF f
<1> QED
  BY <1>4, <1>5

-----------------------------------------------------------------------------
(* Each action keeps the invariant. *)

(* The first state. *)
LEMMA InitIInv ==
  ASSUME Init
  PROVE  IInv
<1>1. /\ wbuf = [head |-> 0, tail |-> 0, used |-> 0] /\ mem = [s \in Slots |-> 0]
      /\ todo = << >> /\ written = 0 /\ objs = << >> /\ reqs = << >>
      /\ wire = << >> /\ err = FALSE
  BY DEF Init, EmptyControl, Garbage
<1>2. Tiled(objs, written)
  BY <1>1 DEF Tiled
<1>3. Aligned
  <2>1. 0 % BUFSZ = 0
    BY BufszAssumption
  <2>2. GoodControl(wbuf)
    BY <1>1, BufszAssumption DEF GoodControl, Control, Slots
  <2> QED
    BY <1>1, <2>1, <2>2 DEF Aligned
<1>4. Held
  BY <1>1 DEF Held
<1>5. Sent
  BY <1>1 DEF Sent
<1>6. Requests
  BY <1>1 DEF Requests
<1> QED
  BY <1>1, <1>2, <1>3, <1>4, <1>5, <1>6 DEF IInv

(* The last request, when there is one. *)
LEMMA LastRequest ==
  ASSUME Requests, reqs # << >>
  PROVE  /\ Len(reqs) \in Nat \ {0}
         /\ \A i \in 1 .. Len(reqs) : reqs[i].kind \in DOMAIN Layout /\ reqs[i].start \in Nat
<1>1. reqs \in Seq([kind : DOMAIN Layout, start : Nat])
  BY DEF Requests
<1>2. \A i \in 1 .. Len(reqs) : reqs[i] \in [kind : DOMAIN Layout, start : Nat]
  BY <1>1, ElementOfSeq
<1>3. Len(reqs) \in Nat \ {0}
  BY <1>1, EmptySeq
<1> QED
  BY <1>2, <1>3

(* With no call left the last request is complete. *)
LEMMA LastComplete ==
  ASSUME Requests, reqs # << >>, todo = << >>
  PROVE  LET r == reqs[Len(reqs)]
         IN  written = r.start + Total(r.kind) /\ Total(r.kind) <= BUFSZ
<1> DEFINE r == reqs[Len(reqs)]
<1>1. Len(reqs) \in 1 .. Len(reqs) /\ r.kind \in DOMAIN Layout
  BY LastRequest
<1>2. PICK j \in 0 .. Len(Layout[r.kind]) : Stage(r, j)
  BY DEF Requests
<1> HIDE DEF r
<1>3. j = Len(Layout[r.kind])
  BY <1>1, <1>2, CallsLeft DEF Stage
<1>4. Upto(r.kind, j) = Total(r.kind)
  BY <1>1, <1>3, UptoGrows
<1>5. written = r.start + Total(r.kind) /\ Total(r.kind) <= BUFSZ
  BY <1>2, <1>4 DEF Stage
<1> QED
  BY <1>5 DEF r

(* A new request starts at the end of a complete one. *)
LEMMA NewRequestStep ==
  ASSUME IInv, NEW kind \in Kinds, NewRequest(kind)
  PROVE  IInv'
<1>1. /\ todo = << >> /\ todo' = Layout[kind]
      /\ reqs' = Append(reqs, [kind |-> kind, start |-> written])
      /\ wbuf' = wbuf /\ mem' = mem /\ written' = written /\ objs' = objs /\ wire' = wire
      /\ err' = err
  BY DEF NewRequest
<1>2. /\ err' \in BOOLEAN /\ Tiled(objs', written') /\ Aligned' /\ Held' /\ Sent'
  BY <1>1 DEF IInv, Aligned, Held, Sent
<1>3. kind \in DOMAIN Layout /\ written \in Nat /\ BUFSZ \in Nat
  BY KindsAssumption, BufszAssumption DEF IInv, Tiled
<1> DEFINE R == [kind : DOMAIN Layout, start : Nat]
           x == [kind |-> kind, start |-> written]
           n == Len(reqs)
<1>4. reqs \in Seq(R) /\ x \in R /\ n \in Nat
  BY <1>3 DEF IInv, Requests
<1>5. /\ reqs' \in Seq(R) /\ Len(reqs') = n + 1 /\ reqs'[n + 1] = x
      /\ \A i \in 1 .. n : reqs'[i] = reqs[i]
  BY <1>1, <1>4, AppendProperties
<1>6. \A i \in 1 .. Len(reqs') - 1 :
        /\ reqs'[i + 1].start = reqs'[i].start + Total(reqs'[i].kind)
        /\ Total(reqs'[i].kind) <= BUFSZ
  <2> SUFFICES ASSUME NEW i \in 1 .. n
               PROVE  /\ reqs'[i + 1].start = reqs'[i].start + Total(reqs'[i].kind)
                      /\ Total(reqs'[i].kind) <= BUFSZ
    BY <1>4, <1>5
  <2>1. reqs'[i] = reqs[i]
    BY <1>5
  <2>2. CASE i \in 1 .. n - 1
    <3>1. i + 1 \in 1 .. n
      BY <1>4, <2>2
    <3>2. /\ reqs[i + 1].start = reqs[i].start + Total(reqs[i].kind)
          /\ Total(reqs[i].kind) <= BUFSZ
      BY <2>2 DEF IInv, Requests
    <3> QED
      BY <3>1, <3>2, <2>1, <1>5
  <2>3. CASE i = n
    <3>1. reqs # << >>
      BY <1>4, <2>3
    <3>2. written = reqs[i].start + Total(reqs[i].kind) /\ Total(reqs[i].kind) <= BUFSZ
      BY <1>1, <2>3, <3>1, LastComplete DEF IInv
    <3>3. reqs'[i + 1].start = written
      BY <1>5, <2>3
    <3> QED
      BY <2>1, <3>2, <3>3
  <2> QED
    BY <1>4, <2>2, <2>3
<1>7. reqs' # << >>
  BY <1>4, <1>5
<1>8. /\ todo' = SubSeq(Layout[kind], 0 + 1, Len(Layout[kind]))
      /\ written' = written + Upto(kind, 0) /\ Upto(kind, 0) <= BUFSZ
      /\ Upto(kind, 0) <= wbuf'.used /\ 0 \in 0 .. Len(Layout[kind])
  <2> DEFINE L == Layout[kind]
  <2>1. L \in Seq(CallRecs) /\ Len(L) \in 1 .. 4
    BY <1>3, LayoutCalls
  <2>2. Upto(kind, 0) = 0
    BY <1>3, UptoGrows
  <2>3. todo' = SubSeq(L, 0 + 1, Len(L))
    <3> HIDE DEF L
    <3>1. SubSeq(L, 1, Len(L)) = L
      BY <2>1
    <3> QED
      BY <1>1, <3>1 DEF L
  <2>4. wbuf'.used \in Nat
    BY <1>1, BufszAssumption DEF IInv, Aligned, GoodControl, Control
  <2>5. /\ written' = written + Upto(kind, 0) /\ Upto(kind, 0) <= BUFSZ
        /\ Upto(kind, 0) <= wbuf'.used
    BY <1>1, <1>3, <2>2, <2>4
  <2>6. 0 \in 0 .. Len(L)
    BY <2>1
  <2> QED
    BY <2>3, <2>5, <2>6
<1> DEFINE r == reqs[Len(reqs)]
<1>9. r' = x
  BY <1>4, <1>5
<1>10. Stage(r, 0)' /\ 0 \in 0 .. Len(Layout[r'.kind])
  <2>1. r'.kind = kind /\ r'.start = written
    BY <1>9
  <2> HIDE DEF r
  <2> QED
    BY <1>8, <2>1, Zenon DEF Stage
<1>11. Requests'
  <2> HIDE DEF x
  <2> QED
    BY <1>5, <1>6, <1>7, <1>10, Zenon DEF Requests
<1> QED
  BY <1>2, <1>11 DEF IInv

(* A call that the buffer has no room for ends the process. *)
LEMMA CallThrows ==
  ASSUME IInv, err' = TRUE,
         UNCHANGED <<wbuf, mem, todo, written, objs, reqs, wire>>
  PROVE  IInv'
<1>1. /\ wbuf' = wbuf /\ mem' = mem /\ todo' = todo /\ written' = written /\ objs' = objs
      /\ reqs' = reqs /\ wire' = wire
  OBVIOUS
<1>2. Tiled(objs', written') /\ Aligned' /\ Held' /\ Sent'
  BY <1>1 DEF IInv, Aligned, Held, Sent
<1>3. \A r, j : Stage(r, j) <=>
        /\ todo' = SubSeq(Layout[r.kind], j + 1, Len(Layout[r.kind]))
        /\ written' = r.start + Upto(r.kind, j)
        /\ Upto(r.kind, j) <= BUFSZ
        /\ todo' # << >> => Upto(r.kind, j) <= wbuf'.used
  BY <1>1 DEF Stage
<1>4. Requests'
  BY <1>1, <1>3 DEF IInv, Requests, Stage
<1> QED
  BY <1>2, <1>4 DEF IInv

(* What a call that finds room does. *)
Accepted(c) ==
  /\ ~ queue_throws(wbuf, c.len)
  /\ mem' = Fill(c.call, queue_prep(wbuf, c.len), c.len)
  /\ wbuf' = queue_commit(wbuf, c.len)
  /\ objs' = Append(objs, [call |-> c.call, start |-> written, len |-> c.len])
  /\ written' = written + c.len
  /\ wire' = wire

(* The object a call adds to the history. *)
New(c) == [call |-> c.call, start |-> written, len |-> c.len]

LEMMA AcceptedGrows ==
  ASSUME IInv, NEW c \in CallRecs, Accepted(c)
  PROVE  /\ Grown(objs, written, New(c), objs')
         /\ New(c).call = c.call /\ New(c).start = written /\ New(c).len = c.len
         /\ Tiled(objs', written')
<1>1. c.call \in Calls /\ c.len \in Nat \ {0} /\ written \in Nat /\ Tiled(objs, written)
  BY DEF CallRecs, IInv, Tiled, Accepted, queue_throws
<1>2. New(c) \in Objects /\ New(c).start = written /\ New(c).len = c.len /\ New(c).call = c.call
  BY <1>1 DEF New, Objects
<1>3. objs' = Append(objs, New(c))
  BY DEF Accepted, New
<1>4. Grown(objs, written, New(c), objs')
  BY <1>1, <1>2, <1>3 DEF Grown
<1>5. Tiled(objs', written + New(c).len)
  BY <1>4, GrownTiled
<1> QED
  BY <1>2, <1>4, <1>5 DEF Accepted

(* The buffer stays in step with the stream. *)
LEMMA AcceptedAligned ==
  ASSUME IInv, NEW c \in CallRecs, Accepted(c)
  PROVE  /\ Aligned' /\ wbuf'.used = wbuf.used + c.len
         /\ wbuf'.head = wbuf.head
         /\ wbuf.used \in Nat /\ wbuf.used + c.len <= BUFSZ
<1>1. c.len \in Nat /\ Aligned /\ GoodControl(wbuf) /\ ~ queue_throws(wbuf, c.len)
      /\ wire' = wire /\ written' = written + c.len
  BY DEF CallRecs, IInv, Aligned, Accepted
<1>2. /\ GoodControl(wbuf') /\ wbuf'.head = wbuf.head /\ wbuf'.used = wbuf.used + c.len
  BY <1>1, CommitGood DEF Accepted
<1>3. Len(wire) \in Nat /\ wbuf.used \in 0 .. BUFSZ /\ written = Len(wire) + wbuf.used
  BY <1>1, TailAt DEF Aligned
<1>4. written' = Len(wire') + wbuf'.used
  BY <1>1, <1>2, <1>3, BufszAssumption
<1>5. Aligned'
  BY <1>1, <1>2, <1>4 DEF Aligned
<1>6. wbuf.used + c.len <= BUFSZ
  BY <1>1, <1>3, BufszAssumption DEF queue_throws, space
<1> QED
  BY <1>2, <1>3, <1>5, <1>6, BufszAssumption

(* The bytes in the buffer stay, and those of the call are right or        *)
(* excused.                                                                *)
LEMMA AcceptedHeld ==
  ASSUME IInv, NEW c \in CallRecs, Accepted(c)
  PROVE  Held'
<1> DEFINE n == c.len
           u == wbuf.used
           h == Len(wire)
           seg == queue_prep(wbuf, n)
<1>1. /\ GoodControl(wbuf) /\ mem \in [Slots -> 0 .. written] /\ Aligned
      /\ ~ queue_throws(wbuf, n) /\ written' = written + n /\ wire' = wire
      /\ n \in Nat /\ c.call \in Calls
      /\ \A k \in 1 .. wbuf.used : Right(objs, Len(wire) + k, mem[ItemSlot(wbuf, k)])
  BY DEF IInv, Aligned, Held, Accepted, CallRecs
<1>2. h \in Nat /\ u \in Nat /\ written \in Nat /\ written = h + u
  BY <1>1, TailAt, BufszAssumption DEF Aligned
<1>3. /\ mem' \in [Slots -> 0 .. written + n]
      /\ \A k \in 1 .. u : mem'[ItemSlot(wbuf, k)] = mem[ItemSlot(wbuf, k)]
      /\ c.call # "commit" =>
           \A k \in 1 .. n : mem'[ItemSlot(wbuf, u + k)] = Copied(c.call, seg, k)
  BY <1>1, <1>2, FillBytes DEF Accepted
<1>4. /\ wbuf'.used = u + n
      /\ \A k \in Nat : ItemSlot(wbuf', k) = ItemSlot(wbuf, k)
  BY AcceptedAligned DEF ItemSlot
<1>5. /\ Grown(objs, written, New(c), objs')
      /\ New(c).call = c.call /\ New(c).start = written /\ New(c).len = n
  BY AcceptedGrows
<1>6. ASSUME NEW k \in 1 .. u
      PROVE  Right(objs', h + k, mem'[ItemSlot(wbuf, k)])
  <2>1. h + k \in 1 .. written
    BY <1>2
  <2>2. Right(objs, h + k, mem'[ItemSlot(wbuf, k)])
    BY <1>1, <1>3
  <2> QED
    BY <1>5, <2>1, <2>2, RightKept
<1>7. ASSUME NEW k \in 1 .. n
      PROVE  Right(objs', written + k, mem'[ItemSlot(wbuf, u + k)])
  <2> DEFINE y == objs'[Covering(objs', written + k)]
             v == mem'[ItemSlot(wbuf, u + k)]
  <2>1. y = New(c)
    <3>1. k \in 1 .. New(c).len
      BY <1>5
    <3> QED
      BY <1>5, <3>1, GrownCovering
  <2>2. y.call = c.call /\ y.start = written
    BY <1>5, <2>1
  <2>3. CASE c.call = "commit"
    BY <2>2, <2>3 DEF Right
  <2>4. CASE c.call # "commit" /\ (c.call # "emplace" \/ ~ (k > seg.n1))
    <3>1. v = written + k
      BY <1>3, <2>4 DEF Copied
    <3> QED
      BY <3>1 DEF Right
  <2>5. CASE c.call = "emplace" /\ k > seg.n1
    <3>1. (written + k - 1) % BUFSZ < written % BUFSZ
      BY <1>1, <2>5, SecondSegment
    <3>2. y.call = "emplace" /\ (written + k - 1) % BUFSZ < y.start % BUFSZ
      BY <2>2, <2>5, <3>1
    <3>3. written + k - 1 = (written + k) - 1
      BY <1>2
    <3>4. y.call = "emplace" /\ ((written + k) - 1) % BUFSZ < y.start % BUFSZ
      BY <3>2, <3>3
    <3> DEFINE p == written + k
    <3>5. /\ objs'[Covering(objs', p)].call = "emplace"
          /\ (p - 1) % BUFSZ < objs'[Covering(objs', p)].start % BUFSZ
      BY <3>4
    <3> HIDE DEF p, v
    <3>6. Right(objs', p, v)
      BY <3>5 DEF Right
    <3> QED
      BY <3>6 DEF p, v
  <2> QED
    BY <2>3, <2>4, <2>5
<1>8. \A k \in 1 .. wbuf'.used : Right(objs', h + k, mem'[ItemSlot(wbuf', k)])
  <2> SUFFICES ASSUME NEW k \in 1 .. wbuf'.used
               PROVE  Right(objs', h + k, mem'[ItemSlot(wbuf', k)])
    OBVIOUS
  <2>0. k \in 1 .. u + n /\ k \in Nat
    BY <1>4
  <2>3. ItemSlot(wbuf', k) = ItemSlot(wbuf, k)
    BY <1>4, <2>0
  <2>1. CASE k \in 1 .. u
    BY <1>6, <2>1, <2>3
  <2>2. CASE k > u
    <3> DEFINE l == k - u
    <3>1. l \in 1 .. n /\ u + l = k /\ written + l = h + k
      <4> HIDE DEF u, h, n
      <4> QED
        BY <1>1, <1>2, <2>0, <2>2
    <3>2. Right(objs', written + l, mem'[ItemSlot(wbuf, u + l)])
      BY <1>7, <3>1
    <3> HIDE DEF l, u, h
    <3> QED
      BY <2>3, <3>1, <3>2
  <2> QED
    BY <1>2, <2>0, <2>1, <2>2
<1> QED
  BY <1>1, <1>3, <1>8 DEF Held

(* What has been sent is not touched. *)
LEMMA AcceptedSent ==
  ASSUME IInv, NEW c \in CallRecs, Accepted(c)
  PROVE  Sent'
<1>1. /\ written \in Nat /\ c.len \in Nat /\ wire' = wire /\ written' = written + c.len
      /\ wire \in Seq(0 .. written) /\ Len(wire) \in Nat /\ Len(wire) <= written
  BY TailAt, BufszAssumption DEF IInv, Sent, Accepted, CallRecs, Aligned
<1>2. wire \in Seq(0 .. written + c.len)
  <2>1. \A i \in 1 .. Len(wire) : wire[i] \in 0 .. written + c.len
    BY <1>1
  <2> QED
    BY <1>1, <2>1
<1>3. Grown(objs, written, New(c), objs')
  BY AcceptedGrows
<1>4. \A p \in 1 .. Len(wire) : Right(objs', p, wire[p])
  <2> SUFFICES ASSUME NEW p \in 1 .. Len(wire) PROVE Right(objs', p, wire[p])
    OBVIOUS
  <2>1. p \in 1 .. written
    BY <1>1
  <2>2. Right(objs, p, wire[p])
    BY DEF IInv, Sent
  <2> QED
    BY <1>3, <2>1, <2>2, RightKept
<1> QED
  BY <1>1, <1>2, <1>4 DEF Sent

(* A call takes the request one stage further. *)
LEMMA AcceptedRequests ==
  ASSUME IInv, todo # << >>, Accepted(Head(todo)), todo' = Tail(todo), reqs' = reqs
  PROVE  Head(todo) \in CallRecs /\ Requests'
<1> DEFINE r == reqs[Len(reqs)]
           c == Head(todo)
<1>1. Requests /\ reqs # << >>
  BY DEF IInv, Requests
<1>2. Len(reqs) \in 1 .. Len(reqs) /\ r.kind \in DOMAIN Layout /\ r.start \in Nat
  BY <1>1, LastRequest
<1>3. PICK j \in 0 .. Len(Layout[r.kind]) : Stage(r, j)
  BY <1>1 DEF Requests
<1> DEFINE L == Layout[r.kind]
<1> HIDE DEF r
<1>4. /\ j + 1 \in 1 .. Len(L) /\ c = L[j + 1] /\ c \in CallRecs
      /\ todo' = SubSeq(L, j + 1 + 1, Len(L))
  BY <1>2, <1>3, CallsLeft DEF Stage
<1>5. /\ Upto(r.kind, j) \in Nat /\ Upto(r.kind, j + 1) = Upto(r.kind, j) + c.len
  <2>1. j \in 0 .. Len(L) - 1
    BY <1>2, <1>4, LayoutCalls
  <2>2. /\ \A i \in 0 .. Len(L) : Upto(r.kind, i) \in Nat
        /\ \A i \in 0 .. Len(L) - 1 : Upto(r.kind, i + 1) = Upto(r.kind, i) + L[i + 1].len
    BY <1>2, UptoGrows
  <2> QED
    BY <1>3, <1>4, <2>1, <2>2, Zenon
<1> HIDE DEF c
<1>6. /\ wbuf'.used = wbuf.used + c.len /\ wbuf.used \in Nat /\ wbuf.used + c.len <= BUFSZ
      /\ written' = written + c.len /\ c.len \in Nat
  BY <1>4, AcceptedAligned DEF Accepted, CallRecs, c
<1>7. written = r.start + Upto(r.kind, j) /\ Upto(r.kind, j) <= wbuf.used
  BY <1>3 DEF Stage
<1>8. /\ written' = r.start + Upto(r.kind, j + 1)
      /\ Upto(r.kind, j + 1) <= wbuf'.used /\ Upto(r.kind, j + 1) <= BUFSZ
  <2> DEFINE a == Upto(r.kind, j)
             b == Upto(r.kind, j + 1)
             s == r.start
             n == c.len
             v == wbuf'.used
             u == wbuf.used
  <2>1. s \in Nat /\ a \in Nat /\ b = a + n /\ n \in Nat /\ written = s + a
    BY <1>2, <1>5, <1>6, <1>7
  <2>2. u \in Nat /\ v = u + n /\ u + n <= BUFSZ /\ a <= u /\ written' = written + n
    BY <1>6, <1>7
  <2> HIDE DEF a, b, s, n, v, u
  <2>3. written' = s + b /\ b <= v /\ b <= BUFSZ
    BY <2>1, <2>2, BufszAssumption
  <2> QED
    BY <2>3 DEF b, s, v
<1>9. r' = r
  BY DEF r
<1>10. Stage(r, j + 1)'
  BY <1>4, <1>8, <1>9 DEF Stage
<1>11. j + 1 \in 0 .. Len(Layout[r'.kind])
  BY <1>4, <1>9
<1>12. \E i \in 0 .. Len(Layout[r'.kind]) : Stage(r, i)'
  BY <1>10, <1>11
<1>13. Requests'
  BY <1>1, <1>12, Zenon DEF Requests, r
<1> QED
  BY <1>4, <1>13 DEF c

(* One call of a request. *)
LEMMA CallStep ==
  ASSUME IInv, Call
  PROVE  IInv'
<1> DEFINE c == Head(todo)
<1>1. todo # << >> /\ reqs' = reqs /\ wire' = wire
  BY DEF Call
<1>2. CASE queue_throws(wbuf, c.len)
  <2>1. err' = TRUE /\ UNCHANGED <<wbuf, mem, todo, written, objs, reqs, wire>>
    BY <1>2 DEF Call
  <2> QED
    BY <2>1, CallThrows
<1>3. CASE ~ queue_throws(wbuf, c.len)
  <2>1. Accepted(c) /\ todo' = Tail(todo) /\ err' = err
    BY <1>3 DEF Call, Accepted
  <2>2. c \in CallRecs /\ Requests'
    BY <1>1, <2>1, AcceptedRequests
  <2> HIDE DEF c
  <2>3. Tiled(objs', written')
    BY <2>1, <2>2, AcceptedGrows
  <2>4. Aligned'
    BY <2>1, <2>2, AcceptedAligned
  <2>5. Held'
    BY <2>1, <2>2, AcceptedHeld
  <2>6. Sent'
    BY <2>1, <2>2, AcceptedSent
  <2>7. err' \in BOOLEAN
    BY <2>1 DEF IInv
  <2> QED
    BY <2>2, <2>3, <2>4, <2>5, <2>6, <2>7, Zenon DEF IInv
<1> QED
  BY <1>2, <1>3

(* The kernel takes the oldest bytes of the buffer. *)
LEMMA TxStep ==
  ASSUME IInv, Tx
  PROVE  IInv'
<1>1. PICK n \in 1 .. wbuf.used :
        /\ wire' = wire \o [k \in 1 .. n |-> mem[SegmentSlot(peek(wbuf, wbuf.used), k)]]
        /\ wbuf' = drop(wbuf, n)
  BY DEF Tx
<1>2. /\ todo = << >> /\ mem' = mem /\ todo' = todo /\ written' = written /\ objs' = objs
      /\ reqs' = reqs /\ err' = err
  BY DEF Tx
<1> DEFINE u == wbuf.used
           h == Len(wire)
           out == [k \in 1 .. n |-> mem[SegmentSlot(peek(wbuf, wbuf.used), k)]]
<1>3. /\ h \in Nat /\ u \in 0 .. BUFSZ /\ written \in Nat /\ written = h + u
      /\ GoodControl(wbuf) /\ wbuf.head = h % BUFSZ
  BY TailAt DEF IInv, Aligned
<1>4. n \in Nat /\ n <= u /\ n >= 1 /\ u \in Nat
  BY <1>3, BufszAssumption
<1>5. \A k \in 1 .. u : /\ SegmentSlot(peek(wbuf, u), k) = ItemSlot(wbuf, k)
                        /\ ItemSlot(wbuf, k) \in Slots
  <2>1. ~ peek_throws(wbuf, u)
    BY <1>3, <1>4 DEF peek_throws
  <2> QED
    BY <1>3, <1>4, <2>1, PeekSlots
<1>6. /\ GoodControl(wbuf') /\ wbuf'.used = u - n
      /\ \A k \in 1 .. u - n : ItemSlot(wbuf', k) = ItemSlot(wbuf, k + n)
  <2>1. ~ drop_throws(wbuf, n)
    BY <1>3, <1>4 DEF drop_throws
  <2> QED
    BY <1>1, <1>3, <1>4, <2>1, DropGood
<1>7. \A k \in 1 .. u : Right(objs, h + k, mem[ItemSlot(wbuf, k)])
  BY DEF IInv, Held
<1>8. mem \in [Slots -> 0 .. written]
  BY DEF IInv, Held
<1>9. /\ out \in Seq(0 .. written) /\ Len(out) = n
      /\ \A k \in 1 .. n : out[k] = mem[ItemSlot(wbuf, k)]
  <2>1. \A k \in 1 .. n : k \in 1 .. u
    BY <1>4
  <2>2. \A k \in 1 .. n : /\ mem[SegmentSlot(peek(wbuf, u), k)] = mem[ItemSlot(wbuf, k)]
                          /\ mem[ItemSlot(wbuf, k)] \in 0 .. written
    BY <1>5, <1>8, <2>1
  <2> QED
    BY <1>4, <2>2
<1>10. /\ wire' \in Seq(0 .. written) /\ Len(wire') = h + n
       /\ \A p \in 1 .. h : wire'[p] = wire[p]
       /\ \A k \in 1 .. n : wire'[h + k] = out[k]
  <2>1. wire \in Seq(0 .. written)
    BY DEF IInv, Sent
  <2>2. wire' = wire \o out
    BY <1>1
  <2> HIDE DEF out
  <2>3. /\ wire \o out \in Seq(0 .. written)
        /\ Len(wire \o out) = Len(wire) + Len(out)
        /\ \A i \in 1 .. Len(wire) + Len(out) :
             (wire \o out)[i] = IF i <= Len(wire) THEN wire[i] ELSE out[i - Len(wire)]
    BY <1>9, <2>1, ConcatProperties, Zenon
  <2>4. \A k \in 1 .. n : h + k \in 1 .. h + n /\ ~ (h + k <= h) /\ (h + k) - h = k
    BY <1>3, <1>4
  <2>5. \A p \in 1 .. h : p \in 1 .. h + n /\ p <= h
    BY <1>3, <1>4
  <2> HIDE DEF h
  <2> QED
    BY <1>9, <2>2, <2>3, <2>4, <2>5 DEF h
<1>11. Tiled(objs', written') /\ err' \in BOOLEAN
  BY <1>2 DEF IInv
<1>12. Aligned'
  <2>1. wbuf'.head = IF wbuf.head + n < BUFSZ THEN wbuf.head + n ELSE wbuf.head + n - BUFSZ
    BY <1>1, <1>3, DropHead
  <2>2. n \in 0 .. BUFSZ
    BY <1>3, <1>4, BufszAssumption
  <2>3. (h + n) % BUFSZ = IF (h % BUFSZ) + n < BUFSZ THEN (h % BUFSZ) + n
                                                     ELSE (h % BUFSZ) + n - BUFSZ
    BY <1>3, <2>2, Around
  <2>4. wbuf'.head = Len(wire') % BUFSZ
    BY <1>3, <1>10, <2>1, <2>3
  <2>5. written' = Len(wire') + wbuf'.used
    BY <1>2, <1>3, <1>4, <1>6, <1>10
  <2>6. wire' \in Seq(Nat)
    <3>1. \A i \in 1 .. Len(wire') : wire'[i] \in Nat
      <4>1. \A i \in 1 .. Len(wire') : wire'[i] \in 0 .. written
        BY <1>10, ElementOfSeq
      <4> QED
        BY <1>3, <4>1
    <3> QED
      BY <1>10, <3>1
  <2> QED
    BY <1>6, <2>4, <2>5, <2>6 DEF Aligned
<1>13. Held'
  <2>1. \A k \in 1 .. wbuf'.used : Right(objs', Len(wire') + k, mem'[ItemSlot(wbuf', k)])
    <3> SUFFICES ASSUME NEW k \in 1 .. u - n
                 PROVE  Right(objs, Len(wire') + k, mem[ItemSlot(wbuf', k)])
      BY <1>2, <1>6
    <3>1. k + n \in 1 .. u /\ h + (k + n) = Len(wire') + k
      BY <1>3, <1>4, <1>10, SMTT(30)
    <3>2. ItemSlot(wbuf', k) = ItemSlot(wbuf, k + n)
      BY <1>6
    <3> HIDE DEF h, u
    <3> QED
      BY <1>7, <3>1, <3>2
  <2> QED
    BY <1>2, <1>8, <2>1 DEF Held
<1>14. Sent'
  <2>1. \A p \in 1 .. Len(wire') : Right(objs, p, wire'[p])
    <3> SUFFICES ASSUME NEW p \in 1 .. Len(wire') PROVE Right(objs, p, wire'[p])
      OBVIOUS
    <3>1. CASE p \in 1 .. h
      BY <3>1, <1>10 DEF IInv, Sent
    <3>2. CASE p > h
      <4> DEFINE k == p - h
      <4>1. k \in 1 .. n /\ k \in 1 .. u /\ h + k = p
        <5> DEFINE l == Len(wire')
        <5>1. l = h + n /\ p \in 1 .. l
          BY <1>10
        <5> HIDE DEF h, u, l
        <5> QED
          BY <1>3, <1>4, <3>2, <5>1
      <4>2. wire'[h + k] = mem[ItemSlot(wbuf, k)]
        BY <1>9, <1>10, <4>1
      <4> HIDE DEF k, h, u
      <4> QED
        BY <1>7, <4>1, <4>2
    <3> QED
      BY <1>3, <1>4, <1>10, <3>1, <3>2
  <2> QED
    BY <1>2, <1>10, <2>1 DEF Sent
<1>15. Requests'
  <2>1. Requests
    BY DEF IInv
  <2>2. \A r, j : Stage(r, j) =>
          /\ todo' = SubSeq(Layout[r.kind], j + 1, Len(Layout[r.kind]))
          /\ written' = r.start + Upto(r.kind, j)
          /\ Upto(r.kind, j) <= BUFSZ
          /\ todo' # << >> => Upto(r.kind, j) <= wbuf'.used
    BY <1>2 DEF Stage
  <2> QED
    BY <1>2, <2>1, <2>2 DEF Requests, Stage
<1> QED
  BY <1>11, <1>12, <1>13, <1>14, <1>15, Zenon DEF IInv

(* Every step keeps the invariant. *)
LEMMA NextIInv ==
  ASSUME IInv, [Next]_vars
  PROVE  IInv'
<1>1. CASE \E kind \in Kinds : NewRequest(kind)
  BY <1>1, NewRequestStep
<1>2. CASE Call
  BY <1>2, CallStep
<1>3. CASE Tx
  BY <1>3, TxStep
<1>4. CASE UNCHANGED vars
  <2>1. /\ wbuf' = wbuf /\ mem' = mem /\ todo' = todo /\ written' = written /\ objs' = objs
        /\ reqs' = reqs /\ wire' = wire /\ err' = err
    BY <1>4 DEF vars
  <2>2. Aligned' /\ Held' /\ Sent'
    BY <2>1 DEF IInv, Aligned, Held, Sent
  <2>3. Requests'
    BY <2>1 DEF IInv, Requests, Stage
  <2> QED
    BY <2>1, <2>2, <2>3 DEF IInv
<1> QED
  BY <1>1, <1>2, <1>3, <1>4 DEF Next

-----------------------------------------------------------------------------
(* The theorems. *)

(* Every reachable state satisfies the inductive invariant: the objects    *)
(* that write, write_emplace and write_commit append tile the stream, and  *)
(* the buffer holds the end of it.                                         *)
THEOREM Invariant == Spec => []IInv
<1>1. Init => IInv
  BY InitIInv
<1>2. IInv /\ [Next]_vars => IInv'
  BY NextIInv
<1> QED
  BY <1>1, <1>2, PTL DEF Spec

(* The buffer's three fields are well-formed and always hold exactly what  *)
(* the generators wrote and the kernel has not taken, for every size of    *)
(* buffer, key and value.                                                  *)
THEOREM TypeCorrect == Spec => []TypeOK
<1>1. IInv => TypeOK
  <2> SUFFICES ASSUME IInv PROVE TypeOK
    OBVIOUS
  <2>1. /\ wbuf \in Control /\ mem \in [Slots -> 0 .. written]
        /\ written \in Nat /\ written = Len(wire) + wbuf.used
        /\ wire \in Seq(0 .. written) /\ err \in BOOLEAN
    BY DEF IInv, Tiled, Aligned, GoodControl, Held, Sent
  <2>2. todo \in Seq(CallRecs)
    BY TodoCalls DEF IInv
  <2>3. CallRecs \subseteq [call : {"emplace", "write", "commit"}, len : Nat]
    BY DEF CallRecs, Calls
  <2>4. todo \in Seq([call : {"emplace", "write", "commit"}, len : Nat])
    <3> DEFINE S == [call : {"emplace", "write", "commit"}, len : Nat]
    <3> HIDE DEF S
    <3>1. \A i \in 1 .. Len(todo) : todo[i] \in S
      BY <2>2, <2>3 DEF S
    <3>2. todo \in Seq(S)
      BY <2>2, <3>1
    <3> QED
      BY <3>2 DEF S
  <2> QED
    BY <2>1, <2>4 DEF TypeOK
<1> QED
  BY <1>1, Invariant, PTL

(* Every byte that reaches the kernel is the one that belongs there, but   *)
(* for the value that is never filled in and for what write_emplace copies *)
(* from beyond an object that wraps.                                       *)
THEOREM DamageCorrect == Spec => []DamageConfined
<1>1. IInv => DamageConfined
  <2> SUFFICES ASSUME IInv, NEW p \in DOMAIN wire
               PROVE  \/ wire[p] = p
                      \/ objs[Object(p)].call = "commit"
                      \/ objs[Object(p)].call = "emplace" /\ AfterWrap(p)
    BY DEF DamageConfined
  <2>1. p \in 1 .. Len(wire)
    BY DEF IInv, Sent
  <2>2. Right(objs, p, wire[p])
    BY <2>1 DEF IInv, Sent
  <2>3. Object(p) = Covering(objs, p)
    BY DEF Object, Covering, Span
  <2> QED
    BY <2>2, <2>3 DEF Right, AfterWrap
<1> QED
  BY <1>1, Invariant, PTL

(* The header announces the length of what follows it, but for the bytes   *)
(* of the loader's key that keylen does not count.  A request that is      *)
(* complete was in the buffer as a whole, so its length is below the       *)
(* modulus of bodylen.                                                     *)
LEMMA BodyLength ==
  ASSUME NEW kind \in DOMAIN Layout, kind # "synthetic", Total(kind) <= BUFSZ
  PROVE  /\ bodylen(kind) \in Nat /\ Uncounted(kind) \in Nat
         /\ HDR + bodylen(kind) + Uncounted(kind) = Total(kind)
<1>1. kind \in {"get", "set", "load"}
  BY DEF Layout
<1>2. /\ HDR \in Nat /\ EXTRAS \in Nat /\ keysize \in Nat /\ valsize \in Nat
      /\ keylen \in Nat /\ keylen <= keysize /\ BODYLEN_MOD \in Nat
      /\ BODYLEN_MOD > BUFSZ /\ BUFSZ \in Nat
  BY WireAssumption, BufszAssumption, KeylenType
<1>3. Uncounted(kind) \in Nat
  BY <1>2 DEF Uncounted
<1> DEFINE el == IF kind = "get" THEN 0 ELSE EXTRAS
           vl == IF kind = "get" THEN 0 ELSE valsize
           b  == el + keylen + vl
           u  == Uncounted(kind)
<1>4. Total(kind) = HDR + b + u
  <2>1. CASE kind = "get"
    <3>1. Layout[kind] = <<Emplace(HDR), Write(keylen)>>
      BY <2>1 DEF Layout, GetPacket
    <3>2. /\ CallLen(kind, 1) = HDR /\ CallLen(kind, 2) = keylen
          /\ CallLen(kind, 3) = 0 /\ CallLen(kind, 4) = 0
      BY <3>1 DEF CallLen, Emplace, Write
    <3> QED
      BY <2>1, <3>2, <1>2 DEF Total, Upto, Uncounted
  <2>2. CASE kind = "set"
    <3>1. Layout[kind] = <<Emplace(HDR), Emplace(EXTRAS), Write(keylen), Commit(valsize)>>
      BY <2>2 DEF Layout, SetPacket
    <3>2. /\ CallLen(kind, 1) = HDR /\ CallLen(kind, 2) = EXTRAS
          /\ CallLen(kind, 3) = keylen /\ CallLen(kind, 4) = valsize
      BY <3>1 DEF CallLen, Emplace, Write, Commit
    <3> QED
      BY <2>2, <3>2, <1>2 DEF Total, Upto, Uncounted
  <2>3. CASE kind = "load"
    <3>1. Layout[kind] = <<Emplace(HDR), Emplace(EXTRAS), Write(keysize), Write(valsize)>>
      BY <2>3 DEF Layout, LoadPacket
    <3>2. /\ CallLen(kind, 1) = HDR /\ CallLen(kind, 2) = EXTRAS
          /\ CallLen(kind, 3) = keysize /\ CallLen(kind, 4) = valsize
      BY <3>1 DEF CallLen, Emplace, Write
    <3> QED
      BY <2>3, <3>2, <1>2 DEF Total, Upto, Uncounted
  <2> QED
    BY <1>1, <2>1, <2>2, <2>3
<1>5. b \in Nat
  BY <1>2
<1>6. bodylen(kind) = b % BODYLEN_MOD
  BY DEF bodylen
<1> HIDE DEF b, u
<1>7. b < BODYLEN_MOD
  BY <1>2, <1>3, <1>4, <1>5 DEF u
<1>8. b % BODYLEN_MOD = b
  BY <1>2, <1>5, <1>7
<1> QED
  BY <1>3, <1>4, <1>5, <1>6, <1>8 DEF u

(* FramesAddUp holds throughout, for keys and values of any size: the body *)
(* length in a memcache header is what follows it up to the next request,  *)
(* but for the bytes of a key of the loader that 16 bits cannot count.     *)
THEOREM FramesCorrect == Spec => []FramesAddUp
<1>1. IInv => FramesAddUp
  <2> SUFFICES ASSUME IInv, todo = << >>, NEW i \in DOMAIN reqs, reqs[i].kind # "synthetic"
               PROVE  reqs[i].start + HDR + bodylen(reqs[i].kind) + Uncounted(reqs[i].kind)
                        = ReqEnd(i)
    BY DEF FramesAddUp
  <2>1. Requests /\ reqs # << >> /\ i \in 1 .. Len(reqs)
    BY DEF IInv, Requests
  <2>2. /\ Len(reqs) \in Nat \ {0}
        /\ reqs[i].kind \in DOMAIN Layout /\ reqs[i].start \in Nat
    BY <2>1, LastRequest
  <2>3. ReqEnd(i) = reqs[i].start + Total(reqs[i].kind) /\ Total(reqs[i].kind) <= BUFSZ
    <3>1. CASE i = Len(reqs)
      BY <2>1, <3>1, LastComplete DEF ReqEnd
    <3>2. CASE i # Len(reqs)
      <4>1. i \in 1 .. Len(reqs) - 1
        BY <2>1, <2>2, <3>2
      <4> QED
        BY <2>1, <3>2, <4>1 DEF Requests, ReqEnd
    <3> QED
      BY <3>1, <3>2
  <2> DEFINE b == bodylen(reqs[i].kind)
             u == Uncounted(reqs[i].kind)
  <2>4. HDR \in Nat /\ b \in Nat /\ u \in Nat /\ HDR + b + u = Total(reqs[i].kind)
    BY <2>2, <2>3, BodyLength, WireAssumption
  <2> HIDE DEF b, u
  <2>5. reqs[i].start + HDR + b + u = ReqEnd(i)
    BY <2>2, <2>3, <2>4
  <2> QED
    BY <2>5 DEF b, u
<1> QED
  BY <1>1, Invariant, PTL

(* Requests are of the kinds that are sent. *)
KindsSent == \A i \in DOMAIN reqs : reqs[i].kind \in Kinds

LEMMA KindsStep ==
  ASSUME IInv, KindsSent, [Next]_vars
  PROVE  KindsSent'
<1>1. CASE reqs' = reqs
  BY <1>1 DEF KindsSent
<1>2. ASSUME NEW kind \in Kinds, NewRequest(kind) PROVE KindsSent'
  <2> DEFINE r == [kind |-> kind, start |-> written]
  <2>1. reqs' = Append(reqs, r) /\ r.kind = kind
    BY <1>2 DEF NewRequest
  <2> HIDE DEF r
  <2>2. PICK S : reqs \in Seq(S)
    BY Zenon DEF IInv, Requests
  <2>3. /\ DOMAIN reqs = 1 .. Len(reqs) /\ DOMAIN reqs' = 1 .. Len(reqs) + 1
        /\ Len(reqs) \in Nat /\ reqs'[Len(reqs) + 1] = r
        /\ \A i \in 1 .. Len(reqs) : reqs'[i] = reqs[i]
    BY <2>1, <2>2
  <2> QED
    BY <2>1, <2>3 DEF KindsSent
<1>3. reqs' = reqs \/ \E kind \in Kinds : NewRequest(kind)
  BY DEF Next, Call, Tx, vars
<1> QED
  BY <1>1, <1>2, <1>3

(* So the comment on bodylen, BodyLengthTotal, is right of every header as *)
(* long as the key size fits into keylen, and of the generator's headers   *)
(* whether it does or not: only the loader needs the key to fit.           *)
THEOREM BodyLengthCorrect ==
  ASSUME keysize < KEYLEN_MOD \/ "load" \notin Kinds
  PROVE  Spec => []BodyLengthTotal
<1>1. \A kind \in Kinds : Uncounted(kind) = 0
  <2>1. keysize \in Nat /\ KEYLEN_MOD \in Nat \ {0}
    BY WireAssumption
  <2>2. CASE keysize < KEYLEN_MOD
    <3>1. keylen = keysize
      BY <2>1, <2>2 DEF keylen
    <3> QED
      BY <2>1, <3>1 DEF Uncounted
  <2>3. CASE "load" \notin Kinds
    BY <2>3 DEF Uncounted
  <2> QED
    BY <2>2, <2>3
<1>2. IInv /\ KindsSent /\ FramesAddUp => BodyLengthTotal
  <2> SUFFICES ASSUME IInv, KindsSent, FramesAddUp, todo = << >>, NEW i \in DOMAIN reqs,
                      reqs[i].kind # "synthetic"
               PROVE  reqs[i].start + HDR + bodylen(reqs[i].kind) = ReqEnd(i)
    BY DEF BodyLengthTotal
  <2> DEFINE b == bodylen(reqs[i].kind)
  <2>1. reqs[i].start + HDR + b + Uncounted(reqs[i].kind) = ReqEnd(i)
    BY Zenon DEF FramesAddUp
  <2>2. Uncounted(reqs[i].kind) = 0
    BY <1>1 DEF KindsSent
  <2>3. reqs[i].start \in Nat
    <3>1. Requests /\ reqs # << >> /\ i \in 1 .. Len(reqs)
      BY DEF IInv, Requests
    <3> QED
      BY <3>1, LastRequest
  <2>4. HDR \in Nat /\ b \in Nat
    <3>1. HDR \in Nat /\ EXTRAS \in Nat /\ valsize \in Nat /\ BODYLEN_MOD \in Nat \ {0}
      BY WireAssumption, BufszAssumption
    <3> QED
      BY <3>1, KeylenType DEF bodylen
  <2> HIDE DEF b
  <2>5. reqs[i].start + HDR + b = ReqEnd(i)
    BY <2>1, <2>2, <2>3, <2>4
  <2> QED
    BY <2>5 DEF b
<1>3. Init => KindsSent
  BY DEF Init, KindsSent
<1>4. IInv /\ KindsSent /\ [Next]_vars => KindsSent'
  BY KindsStep
<1> QED
  BY <1>2, <1>3, <1>4, FramesCorrect, Invariant, PTL DEF Spec

(* The misplaced copy of write_emplace needs a wrap: as long as no more    *)
(* has been written than the buffer is long, every object reaches the      *)
(* kernel as it was constructed.                                           *)
THEOREM IntactBeforeWrap == Spec => [](written <= BUFSZ => EmplacedIntact)
<1>1. IInv => (written <= BUFSZ => EmplacedIntact)
  <2> SUFFICES ASSUME IInv, written <= BUFSZ, NEW p \in DOMAIN wire,
                      objs[Object(p)].call = "emplace"
               PROVE  wire[p] = p
    BY DEF EmplacedIntact
  <2> DEFINE i == Covering(objs, p)
  <2>1. p \in 1 .. Len(wire)
    BY DEF IInv, Sent
  <2>2. Right(objs, p, wire[p])
    BY <2>1 DEF IInv, Sent
  <2>3. Object(p) = i
    BY DEF Object, Covering, Span
  <2>4. p \in 1 .. written /\ written \in Nat
    <3>1. Aligned
      BY DEF IInv
    <3>2. written \in Nat /\ Len(wire) \in Nat /\ wbuf.used \in 0 .. BUFSZ
      BY <3>1, TailAt
    <3>3. written = Len(wire) + wbuf.used
      BY <3>1 DEF Aligned
    <3> QED
      BY <2>1, <3>2, <3>3, BufszAssumption
  <2>5. i \in 1 .. Len(objs) /\ p \in Span(objs, i)
    <3>1. DOMAIN objs = 1 .. Len(objs)
      BY DEF IInv, Tiled
    <3>2. \E k \in 1 .. Len(objs) : p \in Span(objs, k)
      BY <2>4 DEF IInv, Tiled
    <3> QED
      BY <3>1, <3>2 DEF Covering
  <2> HIDE DEF i
  <2> DEFINE s == objs[i].start
             n == objs[i].len
  <2>6. s \in Nat /\ n \in Nat
    <3>1. objs[i] \in Objects
      BY <2>5 DEF IInv, Tiled
    <3> QED
      BY <3>1 DEF Objects
  <2>7. p \in s + 1 .. s + n
    BY <2>5 DEF Span
  <2> HIDE DEF s, n
  <2>8. s \in 0 .. BUFSZ - 1 /\ p - 1 \in 0 .. BUFSZ - 1 /\ p - 1 >= s
    BY <2>4, <2>6, <2>7, BufszAssumption
  <2>9. s % BUFSZ = s /\ (p - 1) % BUFSZ = p - 1
    BY <2>8, BufszAssumption
  <2>10. ~ ((p - 1) % BUFSZ < s % BUFSZ)
    BY <2>8, <2>9, BufszAssumption
  <2> QED
    BY <2>2, <2>3, <2>10 DEF Right, i, s
<1> QED
  BY <1>1, Invariant, PTL

=================================================================================

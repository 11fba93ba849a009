--------------------------- MODULE LoadMemcacheProofs ---------------------------
(***************************************************************************)
(* Proofs about the memcache loader, for every number of keys, every batch *)
(* and every notify window.                                                *)
(***************************************************************************)
EXTENDS LoadMemcache, SequenceTheorems, TLAPS

(* Requests whose response, if they are loud, has been queued by read(). *)
Reads == IF pc = "reading" THEN sent + 1 ELSE sent

(* The loud request after x. *)
NextLoud(x) == IF x + notify < ToLoad THEN x + notify ELSE ToLoad

(* The last loud request queued or acknowledged. *)
Mark == IF rx = << >> THEN recv ELSE rx[Len(rx)]

Counting ==
  /\ Len(keys) = IF pc \in {"sending", "reading"} THEN sent + 1 ELSE sent
  /\ pc \in {"sending", "reading"} => sent < ToLoad
  /\ seqid = StartId + Len(keys)
  /\ \A i \in 1 .. Len(keys) : keys[i] = StartId + i - 1
  /\ onwire = Minus(sent, recv)
  /\ recv < ToLoad + notify
  /\ Len(keys) - recv <= Batch
  /\ pc = "wait" => rx # << >>
  /\ pc = "done" => recv >= ToLoad

(* rx_cbs_ holds the loud requests after recv, one window apart. *)
Windows ==
  /\ recv % notify = 0
  /\ rx # << >> => recv < ToLoad /\ rx[1] = NextLoud(recv)
  /\ \A i \in 1 .. Len(rx) : recv < rx[i] /\ rx[i] <= Reads
  /\ \A i, j \in 1 .. Len(rx) : i < j => rx[i] < rx[j]
  /\ \A i \in 1 .. Len(rx) : rx[i] < ToLoad => rx[i] % notify = 0
  /\ \A n \in 1 .. Reads : Loud(n) /\ recv < n => \E i \in 1 .. Len(rx) : rx[i] = n
  /\ \A i \in 1 .. Len(rx) - 1 : rx[i + 1] = NextLoud(rx[i])
  /\ IF Mark >= ToLoad THEN Reads = ToLoad
     ELSE Mark <= Reads /\ Reads < NextLoud(Mark)

(* A response has arrived for exactly the loud requests served. *)
Answers ==
  /\ served <= written /\ written <= Len(keys)
  /\ recv <= served \/ served = ToLoad
  /\ \A i \in 1 .. Len(rx) : i <= inbox <=> rx[i] <= served
  /\ IF pc = "sending" /\ served > sent /\ Loud(sent + 1)
     THEN inbox = Len(rx) + 1 ELSE inbox <= Len(rx)

IInv == TypeOK /\ Counting /\ Windows /\ Answers

-----------------------------------------------------------------------------
(* Arithmetic. *)

(* The notify window is at least one key and at most a batch. *)
LEMMA NotifyBounds == notify \in Nat \ {0} /\ notify <= Batch /\ notify <= NotifyArg
  BY LoadAssumption DEF notify

(* A number is its quotient times the modulus plus its remainder. *)
LEMMA Division ==
  ASSUME NEW x \in Nat, NEW n \in Nat \ {0}
  PROVE  x \div n \in Nat /\ x = n * (x \div n) + (x % n)
  OBVIOUS

(* Remainders are unique. *)
LEMMA Remainder ==
  ASSUME NEW q \in Nat, NEW n \in Nat \ {0}, NEW r \in 0 .. n - 1
  PROVE  (n * q + r) % n = r
  OBVIOUS

(* A window after a window boundary is a window boundary. *)
LEMMA NextBoundary ==
  ASSUME NEW x \in Nat, NEW n \in Nat \ {0}, x % n = 0
  PROVE  (x + n) % n = 0
<1> DEFINE q == x \div n
<1>1. q \in Nat /\ x = n * q
  BY Division
<1>2. x + n = n * (q + 1) + 0
  BY <1>1
<1>3. (n * (q + 1) + 0) % n = 0
  <2>1. q + 1 \in Nat /\ 0 \in 0 .. n - 1
    BY <1>1
  <2> HIDE DEF q
  <2> QED
    BY <2>1, Remainder
<1> QED
  BY <1>2, <1>3

(* Inside a window there is no window boundary. *)
LEMMA NoBoundaryInside ==
  ASSUME NEW x \in Nat, NEW n \in Nat \ {0}, x % n = 0, NEW y \in 1 .. n - 1
  PROVE  (x + y) % n # 0
<1> DEFINE q == x \div n
<1>1. q \in Nat /\ x = n * q
  BY Division
<1>2. x + y = n * q + y
  BY <1>1
<1> QED
  BY <1>1, <1>2, Remainder

(* The request after Reads is loud exactly when it is the next one due: a  *)
(* window after the last loud request, or the last key.                    *)
LEMMA LoudIsNext ==
  ASSUME NEW x \in Nat, x % notify = 0, x < ToLoad,
         NEW n \in Nat, x < n, n <= NextLoud(x)
  PROVE  Loud(n) <=> n = NextLoud(x)
<1> USE NotifyBounds, LoadAssumption
<1>1. (x + notify) % notify = 0
  BY NextBoundary, notify \in Nat \ {0}, x % notify = 0, Zenon
<1>2. CASE n = NextLoud(x)
  BY <1>1, <1>2 DEF NextLoud, Loud
<1>3. CASE n # NextLoud(x)
  <2>1. n - x \in 1 .. notify - 1 /\ n < ToLoad
    BY <1>3 DEF NextLoud
  <2>2. (x + (n - x)) % notify # 0
    BY <2>1, NoBoundaryInside, notify \in Nat \ {0}, x % notify = 0, Zenon
  <2>3. x + (n - x) = n
    OBVIOUS
  <2> QED
    BY <1>3, <2>1, <2>2, <2>3 DEF Loud
<1> QED
  BY <1>2, <1>3

-----------------------------------------------------------------------------
(* The inductive invariant. *)

(* It holds initially. *)
LEMMA InitIInv == Init => IInv
<1> SUFFICES ASSUME Init PROVE IInv
  OBVIOUS
<1> USE NotifyBounds, LoadAssumption
<1>1. TypeOK
  <2>1. << >> \in Seq(1 .. ToLoad) /\ << >> \in Seq(Nat)
    OBVIOUS
  <2>2. tx_rdy \in BOOLEAN /\ up \in BOOLEAN
    BY Zenon DEF Init
  <2>3. onwire \in 0 .. WORD - 1
    BY DEF Init
  <2> QED
    BY <2>1, <2>2, <2>3 DEF Init, TypeOK
<1>2. Counting
  BY DEF Init, Counting, Minus
<1>3. Windows
  <2>1. 0 % notify = 0
    BY Remainder
  <2> QED
    BY <2>1 DEF Init, Windows, Reads, Mark, NextLoud
<1>4. Answers
  BY DEF Init, Answers
<1> QED
  BY <1>1, <1>2, <1>3, <1>4 DEF IInv

(* Sending a request keeps the window. *)
LEMMA SendRequestIInv == IInv /\ SendRequest => IInv'
<1> SUFFICES ASSUME IInv, SendRequest PROVE IInv'
  OBVIOUS
<1> USE NotifyBounds, LoadAssumption DEF IInv
<1>1. TypeOK'
  BY DEF SendRequest, TypeOK, netvars
<1>2. Counting'
  <2>1. keys \in Seq(Nat) /\ seqid = StartId + Len(keys) /\ keys' = Append(keys, seqid)
    BY DEF SendRequest, TypeOK, Counting
  <2>2. Len(keys') = Len(keys) + 1
    BY <2>1
  <2>3. \A i \in 1 .. Len(keys') : keys'[i] = StartId + i - 1
    <3> SUFFICES ASSUME NEW i \in 1 .. Len(keys) + 1 PROVE keys'[i] = StartId + i - 1
      BY <2>2
    <3>1. keys'[i] = IF i <= Len(keys) THEN keys[i] ELSE seqid
      BY <2>1
    <3>2. Len(keys) \in Nat /\ \A j \in 1 .. Len(keys) : keys[j] = StartId + j - 1
      BY <2>1 DEF Counting
    <3>3. CASE i <= Len(keys)
      BY <3>1, <3>2, <3>3
    <3>4. CASE i = Len(keys) + 1
      BY <2>1, <3>1, <3>2, <3>4
    <3> QED
      BY <3>2, <3>3, <3>4
  <2> QED
    BY <2>1, <2>2, <2>3 DEF SendRequest, TypeOK, Counting, Minus, netvars
<1>3. Windows'
  BY DEF SendRequest, TypeOK, Windows, Reads, Mark, netvars
<1>4. Answers'
  BY DEF SendRequest, TypeOK, Counting, Answers, netvars
<1> QED
  BY <1>1, <1>2, <1>3, <1>4

(* Writing to the kernel changes no count of the loader. *)
LEMMA TransmitIInv == IInv /\ Transmit => IInv'
<1> SUFFICES ASSUME IInv, Transmit PROVE IInv'
  OBVIOUS
<1> USE NotifyBounds, LoadAssumption DEF IInv
<1>1. TypeOK'
  BY DEF Transmit, TypeOK, Counting
<1>2. Counting'
  BY DEF Transmit, TypeOK, Counting
<1>3. Windows'
  BY DEF Transmit, TypeOK, Windows, Reads, Mark
<1>4. Answers'
  BY DEF Transmit, TypeOK, Counting, Answers
<1> QED
  BY <1>1, <1>2, <1>3, <1>4

(* What the windows say of the next request, while one is being sent. *)
LEMMA NextRequest ==
  ASSUME IInv, pc = "sending"
  PROVE  /\ Mark \in Nat /\ Mark < ToLoad /\ Mark % notify = 0
         /\ Mark < sent + 1 /\ sent + 1 <= NextLoud(Mark)
         /\ Loud(sent + 1) <=> sent + 1 = NextLoud(Mark)
<1> USE NotifyBounds, LoadAssumption DEF IInv
<1>1. Mark \in Nat /\ Mark < ToLoad /\ Mark <= sent /\ sent < NextLoud(Mark)
  <2>1. Mark \in Nat
    <3>1. CASE rx = << >>
      BY <3>1 DEF TypeOK, Mark
    <3>2. CASE rx # << >>
      <4>1. Len(rx) \in 1 .. Len(rx) /\ rx[Len(rx)] \in 1 .. ToLoad
        BY <3>2 DEF TypeOK
      <4> QED
        BY <3>2, <4>1 DEF Mark
    <3> QED
      BY <3>1, <3>2
  <2>2. sent < ToLoad /\ Reads = sent /\ sent \in Nat
    BY DEF TypeOK, Counting, Reads
  <2>3. IF Mark >= ToLoad THEN Reads = ToLoad
        ELSE Mark <= Reads /\ Reads < NextLoud(Mark)
    BY DEF Windows
  <2> QED
    BY <2>1, <2>2, <2>3
<1>2. Mark % notify = 0
  <2>1. CASE rx = << >>
    BY <2>1 DEF Windows, Mark
  <2>2. CASE rx # << >>
    <3>1. Len(rx) \in 1 .. Len(rx) /\ Mark = rx[Len(rx)]
      BY <2>2 DEF TypeOK, Mark
    <3> QED
      BY <1>1, <3>1 DEF Windows
  <2> QED
    BY <2>1, <2>2
<1>3. sent \in Nat /\ NextLoud(Mark) \in Nat
  BY <1>1 DEF TypeOK, NextLoud
<1>4. Mark < sent + 1 /\ sent + 1 <= NextLoud(Mark)
  BY <1>1, <1>3
<1>5. Loud(sent + 1) <=> sent + 1 = NextLoud(Mark)
  <2> HIDE DEF IInv
  <2>1. sent + 1 \in Nat
    BY <1>3
  <2> QED
    BY <1>1, <1>2, <1>4, <2>1, LoudIsNext
<1> QED
  BY <1>1, <1>2, <1>4, <1>5

(* A quiet request stays inside its window. *)
LEMMA SentQuietIInv == IInv /\ SentQuiet => IInv'
<1> SUFFICES ASSUME IInv, SentQuiet PROVE IInv'
  OBVIOUS
<1> USE NotifyBounds, LoadAssumption DEF IInv
<1>1. sent + 1 < NextLoud(Mark) /\ Mark < ToLoad /\ Mark \in Nat
  <2>1. pc = "sending" /\ sent \in Nat /\ NextLoud(Mark) \in Nat /\ ~ Loud(sent + 1)
    BY NextRequest DEF SentQuiet, TypeOK, NextLoud
  <2> QED
    BY <2>1, NextRequest
<1>2. TypeOK'
  BY SMTT(30) DEF SentQuiet, TypeOK, Counting, Plus1, netvars
<1>3. Counting'
  BY DEF SentQuiet, TypeOK, Counting, Minus, Plus1, netvars
<1>4. Windows'
  <2>1. Mark' = Mark /\ Reads' = sent + 1 /\ Reads = sent /\ NextLoud(Mark)' = NextLoud(Mark)
    BY DEF SentQuiet, Mark, Reads, NextLoud
  <2>2. \A n \in 1 .. sent + 1 : Loud(n) /\ recv < n => \E i \in 1 .. Len(rx) : rx[i] = n
    BY <2>1 DEF SentQuiet, TypeOK, Windows
  <2> QED
    BY <1>1, <2>1, <2>2 DEF SentQuiet, TypeOK, Windows
<1>5. Answers'
  BY DEF SentQuiet, TypeOK, Counting, Answers, netvars
<1> QED
  BY <1>2, <1>3, <1>4, <1>5

(* A loud request is queued at the end of its window. *)
LEMMA ReadIInv == IInv /\ Read => IInv'
<1> SUFFICES ASSUME IInv, Read PROVE IInv'
  OBVIOUS
<1> USE NotifyBounds, LoadAssumption DEF IInv
<1>1. sent + 1 = NextLoud(Mark) /\ Mark < ToLoad /\ Mark \in Nat /\ Loud(sent + 1)
  BY NextRequest DEF Read
<1>2. /\ sent \in Nat /\ recv \in Nat /\ sent + 1 \in 1 .. ToLoad /\ rx \in Seq(1 .. ToLoad)
      /\ rx' = Append(rx, sent + 1) /\ pc = "sending" /\ pc' = "reading"
  BY DEF Read, TypeOK, Counting
<1>3. /\ rx' \in Seq(1 .. ToLoad) /\ Len(rx') = Len(rx) + 1 /\ Len(rx) \in Nat
      /\ rx'[Len(rx) + 1] = sent + 1
      /\ \A i \in 1 .. Len(rx) : rx'[i] = rx[i]
  BY <1>2
<1>4. TypeOK'
  BY <1>2, <1>3 DEF Read, TypeOK, netvars
<1>5. Counting'
  BY <1>2, <1>3 DEF Read, TypeOK, Counting, Minus, netvars
<1>6. Windows'
  <2>1. Reads = sent /\ Reads' = sent + 1 /\ recv' = recv /\ Mark' = sent + 1 /\ recv \in Nat
    BY <1>2, <1>3 DEF Read, TypeOK, Reads, Mark
  <2>2. recv' % notify = 0
    BY <2>1 DEF Windows
  <2>3. recv' < ToLoad /\ rx'[1] = NextLoud(recv')
    <3>1. CASE rx = << >>
      <4>1. Mark = recv /\ Len(rx) = 0
        BY <3>1 DEF Mark
      <4> QED
        BY <1>1, <1>3, <2>1, <4>1
    <3>2. CASE rx # << >>
      <4>1. 1 \in 1 .. Len(rx)
        BY <1>2, <1>3, <3>2
      <4>2. recv < ToLoad /\ rx[1] = NextLoud(recv)
        BY <3>2 DEF Windows
      <4> QED
        BY <1>3, <2>1, <4>1, <4>2
    <3> QED
      BY <3>1, <3>2
  <2>a. \A i \in 1 .. Len(rx) : recv < rx[i] /\ rx[i] <= sent /\ rx[i] \in 1 .. ToLoad
    BY <1>2, <2>1 DEF Windows
  <2>b. \A i \in 1 .. Len(rx') :
          \/ i \in 1 .. Len(rx) /\ rx'[i] = rx[i]
          \/ i = Len(rx) + 1 /\ rx'[i] = sent + 1
    <3> SUFFICES ASSUME NEW i \in 1 .. Len(rx')
                 PROVE  \/ i \in 1 .. Len(rx) /\ rx'[i] = rx[i]
                        \/ i = Len(rx) + 1 /\ rx'[i] = sent + 1
      OBVIOUS
    <3>1. i \in 1 .. Len(rx) \/ i = Len(rx) + 1
      BY <1>3
    <3> QED
      BY <1>3, <3>1
  <2>c. recv < sent + 1
    <3>1. CASE rx = << >>
      BY <1>1, <3>1, NextRequest, <1>2 DEF Mark
    <3>2. CASE rx # << >>
      <4>1. 1 \in 1 .. Len(rx)
        BY <1>2, <3>2
      <4> QED
        BY <2>1, <2>a, <4>1, <1>2
    <3> QED
      BY <3>1, <3>2
  <2>4. \A i \in 1 .. Len(rx') : recv' < rx'[i] /\ rx'[i] <= Reads'
    <3> SUFFICES ASSUME NEW i \in 1 .. Len(rx') PROVE recv < rx'[i] /\ rx'[i] <= sent + 1
      BY <2>1
    <3>1. CASE i \in 1 .. Len(rx) /\ rx'[i] = rx[i]
      BY <1>2, <2>a, <3>1
    <3>2. CASE i = Len(rx) + 1 /\ rx'[i] = sent + 1
      BY <1>2, <2>c, <3>2
    <3> QED
      BY <2>b, <3>1, <3>2
  <2>5. \A i, j \in 1 .. Len(rx') : i < j => rx'[i] < rx'[j]
    <3> SUFFICES ASSUME NEW i \in 1 .. Len(rx'), NEW j \in 1 .. Len(rx'), i < j
                 PROVE  rx'[i] < rx'[j]
      OBVIOUS
    <3>1. i \in 1 .. Len(rx) /\ rx'[i] = rx[i]
      BY <1>3
    <3>2. CASE j \in 1 .. Len(rx) /\ rx'[j] = rx[j]
      BY <3>1, <3>2 DEF Windows
    <3>3. CASE j = Len(rx) + 1 /\ rx'[j] = sent + 1
      BY <1>2, <2>a, <3>1, <3>3
    <3> QED
      BY <2>b, <3>2, <3>3
  <2>6. \A i \in 1 .. Len(rx') : rx'[i] < ToLoad => rx'[i] % notify = 0
    BY <1>1, <1>2, <1>3 DEF Windows, Loud
  <2>7. \A n \in 1 .. Reads' : Loud(n) /\ recv' < n => \E i \in 1 .. Len(rx') : rx'[i] = n
    <3> SUFFICES ASSUME NEW n \in 1 .. sent + 1, Loud(n), recv < n
                 PROVE  \E i \in 1 .. Len(rx') : rx'[i] = n
      BY <2>1
    <3>1. CASE n = sent + 1
      BY <1>3, <3>1
    <3>2. CASE n \in 1 .. sent
      <4>1. PICK i \in 1 .. Len(rx) : rx[i] = n
        BY <2>1, <3>2 DEF Windows
      <4> QED
        BY <1>3, <4>1
    <3>3. n = sent + 1 \/ n \in 1 .. sent
      BY <1>2
    <3> QED
      BY <3>1, <3>2, <3>3
  <2>8. \A i \in 1 .. Len(rx') - 1 : rx'[i + 1] = NextLoud(rx'[i])
    <3> SUFFICES ASSUME NEW i \in 1 .. Len(rx) PROVE rx'[i + 1] = NextLoud(rx[i])
      BY <1>3
    <3>1. CASE i = Len(rx)
      BY <1>1, <1>3, <3>1 DEF Mark
    <3>2. CASE i \in 1 .. Len(rx) - 1
      BY <1>3, <3>2 DEF Windows
    <3> QED
      BY <1>3, <3>1, <3>2
  <2>9. IF Mark' >= ToLoad THEN Reads' = ToLoad
        ELSE Mark' <= Reads' /\ Reads' < NextLoud(Mark')
    BY <1>2, <2>1 DEF NextLoud
  <2> QED
    BY <2>2, <2>3, <2>4, <2>5, <2>6, <2>7, <2>8, <2>9, Zenon DEF Windows
<1>7. Answers'
  <2>1. /\ served' = served /\ written' = written /\ inbox' = inbox /\ recv' = recv
        /\ keys' = keys /\ inbox \in Nat /\ served \in Nat
    BY DEF Read, TypeOK, netvars
  <2>2. inbox = IF served > sent THEN Len(rx) + 1 ELSE inbox
    BY <1>1, <1>2 DEF Answers
  <2>3. inbox <= Len(rx) + 1 /\ (~ served > sent => inbox <= Len(rx))
    BY <1>1, <1>2, <1>3, <2>1 DEF Answers
  <2>4. \A i \in 1 .. Len(rx') : i <= inbox' <=> rx'[i] <= served'
    <3> SUFFICES ASSUME NEW i \in 1 .. Len(rx') PROVE i <= inbox <=> rx'[i] <= served
      BY <2>1
    <3>1. CASE i \in 1 .. Len(rx)
      BY <1>3, <3>1 DEF Answers
    <3>2. CASE i = Len(rx) + 1
      BY <1>2, <1>3, <2>1, <2>2, <2>3, <3>2
    <3> QED
      BY <1>3, <3>1, <3>2
  <2> QED
    BY <1>2, <1>3, <2>1, <2>3, <2>4 DEF Answers
<1> QED
  BY <1>4, <1>5, <1>6, <1>7

(* A loud request is counted; onwire_ may come back from below zero. *)
LEMMA SentLoudIInv == IInv /\ SentLoud => IInv'
<1> SUFFICES ASSUME IInv, SentLoud PROVE IInv'
  OBVIOUS
<1> USE NotifyBounds, LoadAssumption DEF IInv, SentLoud, netvars
<1>1. TypeOK'
  BY DEF TypeOK, Counting, Plus1, Minus
<1>2. Counting'
  BY DEF TypeOK, Counting, Minus, Plus1
<1>3. Windows'
  BY DEF TypeOK, Windows, Reads, Mark
<1>4. Answers'
  BY DEF TypeOK, Counting, Answers
<1> QED
  BY <1>1, <1>2, <1>3, <1>4

(* Waking up changes no count. *)
LEMMA EpollWaitIInv == IInv /\ EpollWait => IInv'
<1> SUFFICES ASSUME IInv, EpollWait PROVE IInv'
  OBVIOUS
<1> USE NotifyBounds, LoadAssumption DEF IInv, EpollWait, netvars
<1>1. TypeOK'
  BY DEF TypeOK
<1>2. Counting'
  BY DEF TypeOK, Counting, Minus
<1>3. Windows'
  BY DEF TypeOK, Windows, Reads, Mark
<1>4. Answers'
  BY DEF TypeOK, Counting, Answers
<1> QED
  BY <1>1, <1>2, <1>3, <1>4

(* The end of run_io changes no count. *)
LEMMA IoEndIInv == IInv /\ IoEnd => IInv'
<1> SUFFICES ASSUME IInv, IoEnd PROVE IInv'
  OBVIOUS
<1> USE NotifyBounds, LoadAssumption DEF IInv, IoEnd, netvars
<1>1. TypeOK'
  BY DEF TypeOK
<1>2. Counting'
  BY DEF TypeOK, Counting, Minus
<1>3. Windows'
  BY DEF TypeOK, Windows, Reads, Mark
<1>4. Answers'
  BY DEF TypeOK, Counting, Answers
<1> QED
  BY <1>1, <1>2, <1>3, <1>4

(* The connection is established. *)
LEMMA ConnectedIInv == IInv /\ Connected => IInv'
<1> SUFFICES ASSUME IInv, Connected PROVE IInv'
  OBVIOUS
<1> USE NotifyBounds, LoadAssumption DEF IInv, Connected, netvars
<1>1. TypeOK'
  BY DEF TypeOK
<1>2. Counting'
  BY DEF TypeOK, Counting, Minus
<1>3. Windows'
  BY DEF TypeOK, Windows, Reads, Mark
<1>4. Answers'
  BY DEF TypeOK, Counting, Answers
<1> QED
  BY <1>1, <1>2, <1>3, <1>4

(* The loader waits only while a window is incomplete, and then a loud     *)
(* request of it has been sent.                                            *)
LEMMA LoopDoneIInv == IInv /\ LoopDone => IInv'
<1> SUFFICES ASSUME IInv, LoopDone PROVE IInv'
  OBVIOUS
<1> USE NotifyBounds, LoadAssumption DEF IInv, LoopDone, netvars
<1>1. TypeOK'
  BY DEF TypeOK
<1>2. recv < ToLoad => rx # << >>
  <2> SUFFICES ASSUME recv < ToLoad, rx = << >> PROVE FALSE
    OBVIOUS
  <2>1. Mark = recv /\ Reads = sent /\ recv \in Nat /\ sent \in Nat
    BY DEF TypeOK, Mark, Reads
  <2>2. recv <= sent /\ sent < NextLoud(recv)
    BY <2>1 DEF Windows
  <2>3. sent < ToLoad /\ sent - recv < Batch
    BY <2>1, <2>2 DEF NextLoud
  <2> QED
    BY <2>1, <2>2, <2>3 DEF Counting, Minus
<1>3. Counting'
  <2>1. CASE recv >= ToLoad
    BY <2>1 DEF TypeOK, Counting
  <2>2. CASE recv < ToLoad
    BY <1>2, <2>2 DEF TypeOK, Counting
  <2> QED
    BY <2>1, <2>2 DEF TypeOK
<1>4. Windows'
  BY DEF TypeOK, Windows, Reads, Mark
<1>5. Answers'
  BY DEF TypeOK, Counting, Answers
<1> QED
  BY <1>1, <1>3, <1>4, <1>5

(* A response acknowledges the window of the oldest loud request. *)
LEMMA ReceiveIInv == IInv /\ Receive => IInv'
<1> SUFFICES ASSUME IInv, Receive PROVE IInv'
  OBVIOUS
<1> USE NotifyBounds, LoadAssumption DEF IInv
<1>1. /\ rx \in Seq(1 .. ToLoad) /\ rx # << >> /\ rx' = Tail(rx) /\ inbox' = inbox - 1
      /\ inbox \in Nat \ {0} /\ recv \in Nat /\ sent \in Nat /\ served \in Nat
      /\ recv' = recv + notify /\ onwire' = Minus(onwire, notify)
      /\ UNCHANGED <<sent, seqid, pc, tx_rdy, up, written, served, keys>>
      /\ pc \in {"reading", "io"}
  BY DEF Receive, TypeOK, recv_response, netvars
<1>2. /\ rx' \in Seq(1 .. ToLoad) /\ Len(rx') = Len(rx) - 1 /\ Len(rx) \in Nat \ {0}
      /\ \A i \in 1 .. Len(rx') : rx'[i] = rx[i + 1] /\ i + 1 \in 1 .. Len(rx)
  BY <1>1
<1>3. recv < ToLoad /\ rx[1] = NextLoud(recv) /\ rx[1] <= served /\ rx[1] <= Reads
  <2>1. 1 \in 1 .. Len(rx) /\ 1 <= inbox
    BY <1>1, <1>2
  <2> QED
    BY <1>1, <2>1 DEF Windows, Answers
<1>4. Reads \in Nat /\ Reads' = Reads /\ recv <= sent
  BY <1>1, <1>3 DEF Reads, NextLoud
<1>5. rx' # << >> => rx[1] = recv' /\ recv' < ToLoad
  <2> SUFFICES ASSUME rx' # << >> PROVE rx[1] = recv' /\ recv' < ToLoad
    OBVIOUS
  <2>1. 1 \in 1 .. Len(rx) /\ 2 \in 1 .. Len(rx)
    BY <1>1, <1>2
  <2>2. rx[1] < rx[2] /\ rx[2] \in 1 .. ToLoad /\ rx[1] \in 1 .. ToLoad
    BY <1>1, <2>1, SMTT(30) DEF Windows
  <2> QED
    BY <1>1, <1>3, <2>2 DEF NextLoud
<1>6. TypeOK'
  BY <1>1, <1>2, <1>3, <1>4 DEF TypeOK, Counting, Minus
<1>7. Counting'
  <2>1. onwire' = Minus(sent, recv + notify)
    BY <1>1, <1>3, <1>4 DEF Counting, Minus, TypeOK
  <2>2. recv' < ToLoad + notify /\ Len(keys) - recv' <= Batch
    BY <1>1, <1>3 DEF Counting, TypeOK
  <2>3. keys' = keys /\ pc' = pc /\ sent' = sent /\ seqid' = seqid
    BY <1>1
  <2> QED
    BY <1>1, <2>1, <2>2, <2>3 DEF Counting
<1>8. Windows'
  <2>1. recv' % notify = 0
    <3>1. recv % notify = 0 /\ notify \in Nat \ {0} /\ recv \in Nat
      BY <1>1 DEF Windows
    <3> QED
      BY <1>1, <3>1, NextBoundary
  <2>2. rx' # << >> => recv' < ToLoad /\ rx'[1] = NextLoud(recv')
    <3> SUFFICES ASSUME rx' # << >> PROVE rx'[1] = NextLoud(recv')
      BY <1>5
    <3>1. 1 \in 1 .. Len(rx') /\ 1 \in 1 .. Len(rx) - 1
      BY <1>2
    <3> QED
      BY <1>2, <1>5, <3>1 DEF Windows
  <2>3. \A i \in 1 .. Len(rx') : recv' < rx'[i] /\ rx'[i] <= Reads'
    <3> SUFFICES ASSUME NEW i \in 1 .. Len(rx') PROVE recv' < rx'[i] /\ rx'[i] <= Reads
      BY <1>4
    <3>1. rx' # << >> /\ 1 \in 1 .. Len(rx) /\ 1 < i + 1
      BY <1>2
    <3>2. rx'[i] = rx[i + 1] /\ i + 1 \in 1 .. Len(rx) /\ rx[1] = recv'
      BY <1>2, <1>5, <3>1
    <3>3. rx[1] < rx[i + 1] /\ rx[i + 1] <= Reads
      BY <3>1, <3>2 DEF Windows
    <3> QED
      BY <3>2, <3>3
  <2>4. \A i, j \in 1 .. Len(rx') : i < j => rx'[i] < rx'[j]
    <3> SUFFICES ASSUME NEW i \in 1 .. Len(rx'), NEW j \in 1 .. Len(rx'), i < j
                 PROVE  rx'[i] < rx'[j]
      OBVIOUS
    <3>1. /\ rx'[i] = rx[i + 1] /\ i + 1 \in 1 .. Len(rx)
          /\ rx'[j] = rx[j + 1] /\ j + 1 \in 1 .. Len(rx) /\ i + 1 < j + 1
      BY <1>2
    <3> QED
      BY <3>1 DEF Windows
  <2>5. \A i \in 1 .. Len(rx') : rx'[i] < ToLoad => rx'[i] % notify = 0
    <3> SUFFICES ASSUME NEW i \in 1 .. Len(rx'), rx'[i] < ToLoad PROVE rx'[i] % notify = 0
      OBVIOUS
    <3>1. rx'[i] = rx[i + 1] /\ i + 1 \in 1 .. Len(rx)
      BY <1>2
    <3> QED
      BY <3>1 DEF Windows
  <2>6. \A n \in 1 .. Reads' : Loud(n) /\ recv' < n => \E i \in 1 .. Len(rx') : rx'[i] = n
    <3> SUFFICES ASSUME NEW n \in 1 .. Reads, Loud(n), recv' < n
                 PROVE  \E i \in 1 .. Len(rx') : rx'[i] = n
      BY <1>4
    <3>1. recv < n /\ n # rx[1]
      BY <1>1, <1>3, <1>4 DEF NextLoud
    <3>2. PICK j \in 1 .. Len(rx) : rx[j] = n
      BY <3>1 DEF Windows
    <3>3. j # 1 /\ j - 1 \in 1 .. Len(rx') /\ (j - 1) + 1 = j
      BY <1>2, <3>1, <3>2
    <3>4. rx'[j - 1] = n
      BY <1>2, <3>2, <3>3
    <3> QED
      BY <3>3, <3>4
  <2>7. \A i \in 1 .. Len(rx') - 1 : rx'[i + 1] = NextLoud(rx'[i])
    <3> SUFFICES ASSUME NEW i \in 1 .. Len(rx') - 1 PROVE rx'[i + 1] = NextLoud(rx'[i])
      OBVIOUS
    <3>1. i \in 1 .. Len(rx') /\ i + 1 \in 1 .. Len(rx') /\ i + 1 \in 1 .. Len(rx) - 1
      BY <1>2
    <3>2. rx'[i] = rx[i + 1] /\ rx'[i + 1] = rx[(i + 1) + 1]
      BY <1>2, <3>1
    <3> QED
      BY <3>1, <3>2 DEF Windows
  <2>8. IF Mark' >= ToLoad THEN Reads' = ToLoad
        ELSE Mark' <= Reads' /\ Reads' < NextLoud(Mark')
    <3>1. Mark = rx[Len(rx)]
      BY <1>1 DEF Mark
    <3>2. CASE rx' # << >>
      <4>1. Len(rx') \in 1 .. Len(rx') /\ Len(rx') + 1 = Len(rx)
        BY <1>2, <3>2
      <4>2. Mark' = Mark
        BY <1>2, <3>1, <3>2, <4>1 DEF Mark
      <4> QED
        BY <1>4, <4>2 DEF Windows
    <3>3. CASE rx' = << >>
      <4>0. Len(rx) = 1
        BY <1>2, <3>3
      <4>1. Mark' = recv' /\ Mark = rx[1]
        BY <3>1, <3>3, <4>0 DEF Mark
      <4> QED
        BY <1>1, <1>3, <1>4, <4>1 DEF Windows, NextLoud
    <3> QED
      BY <3>2, <3>3
  <2> QED
    BY <2>1, <2>2, <2>3, <2>4, <2>5, <2>6, <2>7, <2>8, Zenon DEF Windows
<1>9. Answers'
  <2>1. served' = served /\ written' = written /\ keys' = keys /\ served <= ToLoad
    BY <1>1 DEF TypeOK
  <2>2. recv' <= served' \/ served' = ToLoad
    BY <1>1, <1>3, <2>1 DEF NextLoud
  <2>3. \A i \in 1 .. Len(rx') : i <= inbox' <=> rx'[i] <= served'
    <3> SUFFICES ASSUME NEW i \in 1 .. Len(rx') PROVE i <= inbox - 1 <=> rx[i + 1] <= served
      BY <1>1, <1>2
    <3>1. i + 1 \in 1 .. Len(rx) /\ (i <= inbox - 1 <=> i + 1 <= inbox)
      BY <1>1, <1>2
    <3> QED
      BY <3>1 DEF Answers
  <2>4. inbox' <= Len(rx') /\ pc' # "sending"
    BY <1>1, <1>2 DEF Answers
  <2> QED
    BY <2>1, <2>2, <2>3, <2>4 DEF Answers
<1> QED
  BY <1>6, <1>7, <1>8, <1>9

(* The server answers a loud request: it is the next one in rx_cbs_, or    *)
(* the one being sent, which will be the next.                             *)
LEMMA ServeIInv == IInv /\ Serve => IInv'
<1> SUFFICES ASSUME IInv, Serve PROVE IInv'
  OBVIOUS
<1> USE NotifyBounds, LoadAssumption DEF IInv
<1>1. /\ served < written /\ served' = served + 1
      /\ inbox' = IF Loud(served + 1) THEN inbox + 1 ELSE inbox
      /\ UNCHANGED <<sent, recv, onwire, seqid, pc, rx, tx_rdy, up, written, keys>>
      /\ served \in Nat /\ written \in 0 .. ToLoad /\ inbox \in Nat /\ sent \in Nat
      /\ recv \in Nat /\ rx \in Seq(1 .. ToLoad) /\ Len(rx) \in Nat
  BY DEF Serve, TypeOK
<1>2. /\ recv <= served /\ written <= Len(keys)
      /\ Len(keys) = IF pc \in {"sending", "reading"} THEN sent + 1 ELSE sent
  BY <1>1 DEF Answers, Counting
<1>3. TypeOK'
  <2>1. served' \in 0 .. ToLoad /\ inbox' \in Nat
    BY <1>1
  <2> QED
    BY <1>1, <2>1 DEF TypeOK
<1>4. Counting' /\ Windows'
  BY <1>1 DEF Counting, Windows, Reads, Mark, Minus
<1>5. \A i \in 1 .. Len(rx) : rx[i] <= served + 1 <=> rx[i] <= served \/ rx[i] = served + 1
  BY <1>1
<1>6. CASE served + 1 <= Reads
  <2>1. CASE ~ Loud(served + 1)
    <3>1. \A i \in 1 .. Len(rx) : rx[i] # served + 1
      <4> SUFFICES ASSUME NEW i \in 1 .. Len(rx), rx[i] = served + 1 PROVE FALSE
        OBVIOUS
      <4>1. rx[i] < ToLoad => rx[i] % notify = 0
        BY DEF Windows
      <4>2. rx[i] \in 1 .. ToLoad
        BY <1>1
      <4> QED
        BY <2>1, <4>1, <4>2 DEF Loud
    <3>2. \A i \in 1 .. Len(rx) : i <= inbox <=> rx[i] <= served + 1
      BY <1>5, <3>1 DEF Answers
    <3>3. ~ (pc = "sending" /\ served + 1 > sent)
      BY <1>1, <1>6 DEF Reads
    <3>4. inbox <= Len(rx)
      BY <1>1, <3>3 DEF Answers
    <3>5. inbox' = inbox /\ recv' <= served' /\ served' <= written' /\ written' <= Len(keys')
      BY <1>1, <1>2, <2>1
    <3> QED
      BY <1>1, <1>3, <1>4, <3>2, <3>3, <3>4, <3>5 DEF Answers
  <2>2. CASE Loud(served + 1)
    <3>1. PICK k \in 1 .. Len(rx) : rx[k] = served + 1
      BY <1>1, <1>2, <1>6, <2>2 DEF Windows, Reads
    <3>2. k > inbox
      BY <1>1, <3>1 DEF Answers
    <3>3. k - 1 <= inbox
      <4>1. CASE k = 1
        BY <1>1, <4>1
      <4>2. CASE k # 1
        <5>1. k - 1 \in 1 .. Len(rx) /\ k - 1 < k
          BY <4>2
        <5>2. rx[k - 1] < rx[k]
          BY <5>1 DEF Windows
        <5>3. rx[k - 1] \in 1 .. ToLoad
          BY <1>1, <5>1
        <5>4. rx[k - 1] <= served
          BY <1>1, <3>1, <5>2, <5>3
        <5> QED
          BY <5>1, <5>4 DEF Answers
      <4> QED
        BY <4>1, <4>2
    <3>4. k = inbox + 1 /\ inbox' = inbox + 1
      BY <1>1, <2>2, <3>2, <3>3
    <3>5. \A i \in 1 .. Len(rx) : rx[i] = served + 1 <=> i = k
      <4> SUFFICES ASSUME NEW i \in 1 .. Len(rx), rx[i] = served + 1, i # k PROVE FALSE
        BY <3>1
      <4>1. i < k \/ k < i
        OBVIOUS
      <4>2. rx[i] < rx[k] \/ rx[k] < rx[i]
        BY <4>1 DEF Windows
      <4> QED
        BY <1>1, <3>1, <4>2
    <3>6. \A i \in 1 .. Len(rx) : i <= inbox' <=> rx[i] <= served + 1
      <4> SUFFICES ASSUME NEW i \in 1 .. Len(rx) PROVE i <= inbox + 1 <=> rx[i] <= served + 1
        BY <3>4
      <4>1. i <= inbox <=> rx[i] <= served
        BY DEF Answers
      <4> QED
        BY <1>1, <1>5, <3>4, <3>5, <4>1
    <3>7. inbox' <= Len(rx) /\ (pc = "sending" => ~ served + 1 > sent)
      BY <1>1, <1>6, <3>4 DEF Reads
    <3>8. recv' <= served' /\ served' <= written' /\ written' <= Len(keys')
      BY <1>1, <1>2
    <3> QED
      BY <1>1, <1>3, <1>4, <3>6, <3>7, <3>8 DEF Answers
  <2> QED
    BY <2>1, <2>2
<1>7. CASE served + 1 > Reads
  <2>1. pc = "sending" /\ served = sent
    BY <1>1, <1>2, <1>7 DEF Reads
  <2>2. \A i \in 1 .. Len(rx) : rx[i] <= served /\ i <= inbox
    BY <1>1, <2>1 DEF Windows, Answers, Reads
  <2>3. inbox = Len(rx)
    <3>1. inbox <= Len(rx)
      BY <1>1, <2>1 DEF Answers
    <3>2. Len(rx) <= inbox
      BY <1>1, <2>2
    <3> QED
      BY <1>1, <3>1, <3>2
  <2>4. \A i \in 1 .. Len(rx) : i <= inbox' <=> rx[i] <= served'
    <3> SUFFICES ASSUME NEW i \in 1 .. Len(rx) PROVE i <= inbox' /\ rx[i] <= served + 1
      BY <1>1
    <3>1. rx[i] \in 1 .. ToLoad /\ rx[i] <= served /\ i <= inbox
      BY <1>1, <2>2
    <3> QED
      BY <1>1, <3>1
  <2>5. Answers'
    BY <1>1, <1>2, <2>1, <2>3, <2>4 DEF Answers
  <2> QED
    BY <1>3, <1>4, <2>5
<1> QED
  BY <1>1, <1>6, <1>7 DEF Reads

-----------------------------------------------------------------------------
(* The theorems. *)

(* The inductive invariant holds in every state. *)
THEOREM LoadInvariance == Spec => []IInv
<1>1. IInv /\ [Next]_vars => IInv'
  <2> SUFFICES ASSUME IInv, [Next]_vars PROVE IInv'
    OBVIOUS
  <2>1. CASE UNCHANGED vars
    BY <2>1 DEF vars, IInv, TypeOK, Counting, Windows, Answers, Reads, Mark
  <2>2. CASE Thread
    BY <2>2, SendRequestIInv, TransmitIInv, SentQuietIInv, ReadIInv, SentLoudIInv,
       ReceiveIInv, LoopDoneIInv, EpollWaitIInv, IoEndIInv DEF Thread
  <2>3. CASE Connected
    BY <2>3, ConnectedIInv
  <2>4. CASE Serve
    BY <2>4, ServeIInv
  <2> QED
    BY <2>1, <2>2, <2>3, <2>4 DEF Next
<1> QED
  BY <1>1, InitIInv, PTL DEF Spec

(* No counter of the loader leaves its range, for every number of keys and *)
(* every window.                                                           *)
THEOREM LoadTypeCorrect == Spec => []TypeOK
  BY LoadInvariance, PTL DEF IInv

(* At most a batch of keys is unacknowledged, whatever order responses and *)
(* counting come in.                                                       *)
THEOREM WindowAlwaysKept == Spec => []WindowKept
<1>1. IInv => WindowKept
  BY DEF IInv, Counting, WindowKept
<1> QED
  BY <1>1, LoadInvariance, PTL

(* The loader never waits without a response to wait for. *)
THEOREM LoadNeverStalls == Spec => []NeverStalls
<1>1. IInv => NeverStalls
  BY DEF IInv, Counting, NeverStalls
<1> QED
  BY <1>1, LoadInvariance, PTL

(* When the loader returns the server has handled every key, each once. *)
THEOREM LoadDoneMeansServed == Spec => []DoneMeansServed
<1>1. IInv => DoneMeansServed
  <2> SUFFICES ASSUME IInv, pc = "done"
               PROVE  /\ keys = [i \in 1 .. ToLoad |-> StartId + i - 1]
                      /\ served = ToLoad
                      /\ rx = << >>
    BY DEF DoneMeansServed
  <2> USE LoadAssumption, NotifyBounds
  <2>1. recv \in Nat /\ recv >= ToLoad /\ sent \in Nat /\ served \in 0 .. ToLoad
    BY DEF IInv, Counting, TypeOK
  <2>2. rx = << >>
    BY <2>1 DEF IInv, Windows
  <2>3. sent = ToLoad
    BY <2>1, <2>2 DEF IInv, Windows, Mark, Reads
  <2>4. served = ToLoad
    BY <2>1 DEF IInv, Answers
  <2>5. keys \in Seq(Nat) /\ Len(keys) = ToLoad /\ \A i \in 1 .. ToLoad : keys[i] = StartId + i - 1
    BY <2>3 DEF IInv, TypeOK, Counting
  <2>6. keys = [i \in 1 .. ToLoad |-> StartId + i - 1]
    BY <2>5
  <2> QED
    BY <2>2, <2>4, <2>6
<1> QED
  BY <1>1, LoadInvariance, PTL

=============================================================================

----------------------------- MODULE SockBufProofs -----------------------------
(***************************************************************************)
(* Proofs about the buffered socket, SockBuf, for all values of its        *)
(* constants.                                                              *)
(*                                                                         *)
(* IInv is inductive and needs no assumption beyond the sizes.  From it    *)
(* follow TypeOK, SentOnTime, NoLostWakeup and the refinement of           *)
(* RequestPipe.  FInv is inductive relative to IInv and HeadersWhole, and  *)
(* gives Framing, NothingStranded and NoInternalError.                     *)
(***************************************************************************)
EXTENDS SockBuf, SequenceTheorems, TLAPS

(* Control flow: where the thread is, and what it keeps there. *)
Control ==
  /\ err # "none" <=> pc = "dead"
  /\ pc # "txcb" => nbytes = 0
  /\ pc \notin {"txcb", "rxcb", "dead"} => drop = 0
  /\ pc = "txcb" => drop <= Len(tx_cbs) /\ (Len(tx_cbs) = MAX_OUTSTANDING_REQS => drop = 0)
  /\ pc = "rxcb" => drop <= Len(rx_cbs) /\ (Len(rx_cbs) = MAX_OUTSTANDING_REQS => drop = 0)
  /\ pc = "read" => after = "read"
  /\ after = "read" => Len(reqs) > 0 /\ pc \in {"tx", "txcb", "read", "dead"}
  /\ after = "out" => pc \in {"rx", "rxcb", "out", "dead"}

(* Entries of tx_cbs_ the callback loop has passed, the requests that are  *)
(* not in tx_cbs_ any more, and the position in the stream of requests up  *)
(* to which tx() has accounted for what it sent.                           *)
Passed  == IF pc = "txcb" THEN drop ELSE 0
Base    == Len(sent) - Passed
Counted == Accepted - nbytes

(* What is written and not accepted is in wbuf_; the requests lie one      *)
(* after the other in the stream.                                          *)
Outbound ==
  /\ wbuf = Written - Accepted
  /\ nbytes <= Accepted
  /\ \A i \in 1 .. Len(reqs) : 0 < reqs[i].end /\ reqs[i].end <= Written
  /\ \A i, j \in 1 .. Len(reqs) : i < j => reqs[i].end < reqs[j].end

(* The callbacks that are left are those of the requests not reported.     *)
SentOrder ==
  /\ \A i \in 1 .. Len(sent) : sent[i] = i
  /\ Passed <= Len(sent)
  /\ Base + Len(tx_cbs) = Len(reqs)
  /\ \A j \in 1 .. Len(tx_cbs) : tx_cbs[j].id = Base + j

(* Unless the queue is full, their deltas lead from the position counted   *)
(* to the end of each request in turn.                                     *)
Deltas ==
  Len(tx_cbs) < MAX_OUTSTANDING_REQS =>
    /\ tx_out = Written - Counted
    /\ \A i \in 1 .. Len(sent) : reqs[i].end <= Counted
    /\ \A j \in 1 .. Len(tx_cbs) :
         /\ j = Passed + 1 => tx_cbs[j].len = reqs[Base + j].end - Counted
         /\ j > Passed + 1 => tx_cbs[j].len = reqs[Base + j].end - reqs[Base + j - 1].end
         /\ j > Passed => tx_cbs[j].len > 0

(* Requests whose response rx_cbs_ has been told of, and of those the ones *)
(* whose response is complete.                                             *)
Reads == IF after = "read" THEN Len(reqs) - 1 ELSE Len(reqs)
Gone  == Reads - Len(rx_cbs) + (IF pc = "rxcb" THEN drop ELSE 0)

(* The entry of rx_cbs_ that is next, and whether its header is behind us. *)
Cur == IF pc = "rxcb" THEN drop + 1 ELSE 1
Parsed == Cur <= Len(rx_cbs) /\ rx_cbs[Cur].hdrlen = 0

RecvOrder ==
  err = "none" =>
    /\ \A i \in 1 .. Len(done) : done[i] = i
    /\ \A i \in 1 .. Len(requests) : requests[i] = Len(done) + i
    /\ Len(done) + Len(requests) = Len(reqs)
    /\ Len(rx_cbs) <= Reads
    /\ \A j \in 1 .. Len(rx_cbs) : rx_cbs[j].id = Reads - Len(rx_cbs) + j
    /\ \A j \in 1 .. Len(rx_cbs) :
         j > Cur => rx_cbs[j].hdrlen = HdrLen /\ rx_cbs[j].bodylen = 0
    /\ Cur <= Len(rx_cbs) /\ ~ Parsed => rx_cbs[Cur].bodylen = 0
    /\ Len(done) = IF Parsed THEN Gone + 1 ELSE Gone
    /\ Len(done) <= Len(sent)

(* The wakeups of edge-triggered epoll. *)
Wakeups ==
  /\ pc \in {"tx", "txcb"} => tx_rdy
  /\ pc \in {"rx", "rxcb"} => rx_rdy
  /\ pc \in {"rx", "rxcb", "dead"} \/ ~ rx_rdy \/ rx_cbs = << >>
  /\ pc \in {"tx", "txcb", "dead"} \/ ~ tx_rdy \/ wbuf = 0
  /\ pc = "new" => link = "none"
  /\ link \in {"none", "connecting"} =>
       ksnd = 0 /\ ~ tx_rdy /\ ev = {} /\ after # "out" /\ pc # "out"
  /\ link = "up" /\ krcv > 0 => edge \/ "in" \in ev \/ rx_rdy
  /\ link = "up" /\ ~ tx_rdy =>
       \/ nospace /\ ksnd > SndLow
       \/ ksnd <= SndLow /\ (edge \/ "out" \in ev \/ pc = "out" \/ after = "out" \/ pc = "dead")

(* The responses lie one after the other in their stream, up to what has   *)
(* been produced, and each answers a request that was sent.                *)
Inbound ==
  /\ rpos + rbuf + krcv + rnet = Responded
  /\ Len(resps) <= Len(reqs)
  /\ \A i \in 1 .. Len(resps) :
       /\ reqs[i].end <= srvin
       /\ resps[i].body \in Bodies[reqs[i].kind]
       /\ RespEnd(resps[i]) <= Responded
       /\ resps[i].start = IF i = 1 THEN 0 ELSE RespEnd(resps[i - 1])
  /\ \A i, j \in 1 .. Len(resps) : i < j => resps[i].start < resps[j].start

(* The inductive invariant. *)
IInv == TypeOK /\ Control /\ Outbound /\ SentOrder /\ Deltas /\ RecvOrder /\ Wakeups /\ Inbound

(* What is left of the response in hand, and where the n-th one ends.      *)
Pending  == IF Parsed THEN rx_cbs[Cur].bodylen ELSE 0
EndOf(n) == IF n = 0 THEN 0 ELSE RespEnd(resps[n])

(* rpos is where the rest of the response in hand, or the next one, begins *)
InStep ==
  err = "none" => Len(done) <= Len(resps) /\ rpos + Pending = EndOf(Len(done))

(* What rx() leaves behind. *)
Settled ==
  pc \notin {"rxcb", "dead"} /\ Len(rx_cbs) < MAX_OUTSTANDING_REQS =>
    IF rx_cbs = << >> THEN rbuf = 0
    ELSE IF rx_cbs[1].hdrlen > 0 THEN rbuf < rx_cbs[1].hdrlen
    ELSE rbuf = 0 /\ rx_cbs[1].bodylen > 0

(* The header of the response to a get does not wrap around the end of     *)
(* rbuf_: the case the code gets wrong.                                    *)
HeadersWhole ==
  \A i \in DOMAIN resps : reqs[i].kind = "get" =>
    resps[i].start % CHARBUF_SIZE <= CHARBUF_SIZE - HdrLen

FInv == InStep /\ Settled /\ NoInternalError

-----------------------------------------------------------------------------
(* Sequences. *)

(* What Remaining leaves. *)
LEMMA RemainingSeq ==
  ASSUME NEW S, NEW queue \in Seq(S), drop \in 0 .. Len(queue)
  PROVE  /\ Remaining(queue) \in Seq(S)
         /\ Len(Remaining(queue)) = Len(queue) - drop
         /\ \A i \in 1 .. Len(queue) - drop : Remaining(queue)[i] = queue[drop + i]
BY DEF Remaining

(* Appending. *)
LEMMA AppendSeq ==
  ASSUME NEW S, NEW s \in Seq(S), NEW e \in S
  PROVE  /\ Append(s, e) \in Seq(S)
         /\ Len(Append(s, e)) = Len(s) + 1
         /\ \A i \in 1 .. Len(s) : Append(s, e)[i] = s[i]
         /\ Append(s, e)[Len(s) + 1] = e
OBVIOUS

(* A sequence with one element replaced: tx() and rx() write back the      *)
(* entry they stop in.                                                     *)
LEMMA ReplaceSeq ==
  ASSUME NEW S, NEW s \in Seq(S), NEW k \in 1 .. Len(s), NEW e \in S
  PROVE  /\ [s EXCEPT ![k] = e] \in Seq(S)
         /\ Len([s EXCEPT ![k] = e]) = Len(s)
         /\ [s EXCEPT ![k] = e][k] = e
         /\ \A j \in 1 .. Len(s) : j # k => [s EXCEPT ![k] = e][j] = s[j]
OBVIOUS

(* tx() writes the bytes left into the len of an entry of tx_cbs_: the     *)
(* same entry with another len.                                            *)
LEMMA TxUpdate ==
  ASSUME NEW I, NEW s \in Seq([id : I, len : Nat]), NEW k \in 1 .. Len(s), NEW n \in Nat
  PROVE  [s EXCEPT ![k].len = n] = [s EXCEPT ![k] = [id |-> s[k].id, len |-> n]]
<1>1. ASSUME NEW r, r \in [id : I, len : Nat]
      PROVE  [r EXCEPT !.len = n] = [id |-> r.id, len |-> n]
  BY <1>1
<1>2. s[k] \in [id : I, len : Nat]
  BY ElementOfSeq, Zenon
<1>3. [s EXCEPT ![k].len = n] = [s EXCEPT ![k] = [s[k] EXCEPT !.len = n]]
  BY Zenon
<1> QED
  BY <1>1, <1>2, <1>3, Zenon

(* rx() clears the header of an entry of rx_cbs_ and stores its body       *)
(* length: the same entry with both fields changed.                        *)
LEMMA RxUpdateBoth ==
  ASSUME NEW I, NEW H, NEW s \in Seq([id : I, hdrlen : H, bodylen : Nat]),
         NEW k \in 1 .. Len(s), NEW n \in Nat
  PROVE  [s EXCEPT ![k].hdrlen = 0, ![k].bodylen = n]
           = [s EXCEPT ![k] = [id |-> s[k].id, hdrlen |-> 0, bodylen |-> n]]
<1>1. ASSUME NEW r, r \in [id : I, hdrlen : H, bodylen : Nat]
      PROVE  [r EXCEPT !.hdrlen = 0, !.bodylen = n] = [id |-> r.id, hdrlen |-> 0, bodylen |-> n]
  <2>1. [r EXCEPT !.hdrlen = 0] = [id |-> r.id, hdrlen |-> 0, bodylen |-> r.bodylen]
    BY <1>1
  <2>2. ASSUME NEW q, q = [id |-> r.id, hdrlen |-> 0, bodylen |-> r.bodylen]
        PROVE  [q EXCEPT !.bodylen = n] = [id |-> r.id, hdrlen |-> 0, bodylen |-> n]
    BY <2>2
  <2>3. [r EXCEPT !.hdrlen = 0, !.bodylen = n] = [[r EXCEPT !.hdrlen = 0] EXCEPT !.bodylen = n]
    BY Zenon
  <2> QED
    BY <2>1, <2>2, <2>3, Zenon
<1>2. s[k] \in [id : I, hdrlen : H, bodylen : Nat]
  BY ElementOfSeq, Zenon
<1>3. [s EXCEPT ![k].hdrlen = 0, ![k].bodylen = n]
        = [s EXCEPT ![k] = [s[k] EXCEPT !.hdrlen = 0, !.bodylen = n]]
  BY Zenon
<1> QED
  BY <1>1, <1>2, <1>3, Zenon


TxEntry == [id : Ids, len : Nat]
RxEntry == [id : Ids, hdrlen : {0, HdrLen}, bodylen : Nat]

(* The type invariant in three parts: transmitting, receiving, the rest.   *)
TxTypes ==
  /\ tx_cbs \in Seq(TxEntry) /\ Len(tx_cbs) <= MAX_OUTSTANDING_REQS
  /\ wbuf \in 0 .. CHARBUF_SIZE /\ tx_out \in Nat
  /\ nbytes \in Nat /\ drop \in Nat
  /\ ksnd \in 0 .. SndBuf /\ srvin \in Nat
  /\ reqs \in Seq([end : Nat, kind : Kinds]) /\ Len(reqs) <= NReqs
  /\ sent \in Seq(Ids)

RxTypes ==
  /\ rx_cbs \in Seq(RxEntry) /\ Len(rx_cbs) <= MAX_OUTSTANDING_REQS
  /\ requests \in Seq(Ids) /\ Len(requests) <= MAX_OUTSTANDING_REQS
  /\ rbuf \in 0 .. CHARBUF_SIZE
  /\ krcv \in Nat /\ rnet \in Nat
  /\ resps \in Seq([start : Nat, body : Nat])
  /\ rpos \in Nat /\ done \in Seq(Ids)

FlagTypes ==
  /\ connected \in BOOLEAN /\ rx_rdy \in BOOLEAN /\ tx_rdy \in BOOLEAN
  /\ pc \in Points /\ after \in {"idle", "read", "out"}
  /\ ev \in SUBSET {"in", "out"} /\ err \in Errors
  /\ link \in {"none", "connecting", "up", "refused", "closed"}
  /\ edge \in BOOLEAN /\ nospace \in BOOLEAN

(* The type invariant falls into what the sending half, the receiving half *)
(* and the control flow keep.                                              *)
LEMMA TypeParts == TypeOK <=> TxTypes /\ RxTypes /\ FlagTypes
BY Zenon DEF TypeOK, TxTypes, RxTypes, FlagTypes, TxEntry, RxEntry

TxInv == TxTypes /\ Outbound /\ SentOrder /\ Deltas

(* tx_cbs_ after a write that ended within a request. *)
LEMMA PartialCbs ==
  ASSUME TxTypes, Control, TxCbPartial
  PROVE  /\ tx_cbs' \in Seq(TxEntry)
         /\ Len(tx_cbs') = Len(tx_cbs) - drop
         /\ tx_cbs'[1].id = tx_cbs[drop + 1].id
         /\ tx_cbs'[1].len = tx_cbs[drop + 1].len - nbytes
         /\ \A j \in 2 .. Len(tx_cbs') : tx_cbs'[j] = tx_cbs[drop + j]
<1> DEFINE k == drop + 1
           e == [id |-> tx_cbs[k].id, len |-> tx_cbs[k].len - nbytes]
           s == [tx_cbs EXCEPT ![k] = e]
<1>1. k \in 1 .. Len(tx_cbs) /\ drop \in 0 .. Len(tx_cbs) /\ tx_cbs \in Seq(TxEntry)
  BY DEF TxTypes, TxCbPartial, Visiting
<1>2. tx_cbs[k] \in TxEntry
  BY <1>1, ElementOfSeq, Zenon
<1>3. tx_cbs[k].len - nbytes \in Nat /\ tx_cbs[k].id \in Ids
  BY <1>2, SMTT(30) DEF TxEntry, TxCbPartial, TxTypes
<1>4. e \in TxEntry
  BY <1>3 DEF TxEntry
<1>5. tx_cbs' = Remaining(s)
  <2>1. tx_cbs' = Remaining([tx_cbs EXCEPT ![k].len = tx_cbs[k].len - nbytes])
    BY DEF TxCbPartial
  <2>2. [tx_cbs EXCEPT ![k].len = tx_cbs[k].len - nbytes] = s
    BY <1>1, <1>3, TxUpdate, ZenonT(40) DEF TxEntry
  <2> QED
    BY <2>1, <2>2, Zenon
<1> HIDE DEF e
<1>6. /\ s \in Seq(TxEntry) /\ Len(s) = Len(tx_cbs) /\ s[k] = e
      /\ \A j \in 1 .. Len(tx_cbs) : j # k => s[j] = tx_cbs[j]
  BY <1>1, <1>4, ReplaceSeq
<1> HIDE DEF s
<1>7. /\ Remaining(s) \in Seq(TxEntry) /\ Len(Remaining(s)) = Len(s) - drop
      /\ \A i \in 1 .. Len(s) - drop : Remaining(s)[i] = s[drop + i]
  BY <1>1, <1>6, RemainingSeq
<1>8. tx_cbs'[1] = e
  BY <1>1, <1>5, <1>6, <1>7
<1>9. \A j \in 2 .. Len(tx_cbs') : tx_cbs'[j] = tx_cbs[drop + j]
  BY <1>1, <1>5, <1>6, <1>7
<1> QED
  BY <1>5, <1>6, <1>7, <1>8, <1>9 DEF e

(* Arithmetic needs to know what is a number. *)
TxNumbers ==
  /\ drop \in Nat /\ nbytes \in Nat /\ tx_out \in Nat /\ wbuf \in Nat
  /\ ksnd \in Nat /\ srvin \in Nat /\ Accepted \in Nat /\ Counted \in Int
  /\ Len(tx_cbs) \in Nat /\ Len(sent) \in Nat /\ Len(reqs) \in Nat
  /\ Passed \in Nat /\ Base \in Int /\ Written \in Nat
  /\ \A i \in 1 .. Len(reqs) : reqs[i].end \in Nat
  /\ \A j \in 1 .. Len(tx_cbs) : tx_cbs[j].len \in Nat

(* The counts and stream positions of the sending half are integers, so    *)
(* that arithmetic applies to them.                                        *)
LEMMA TxAreNumbers == TxTypes => TxNumbers
<1> SUFFICES ASSUME TxTypes PROVE TxNumbers
  OBVIOUS
<1> USE SizesAssumption
<1>1. /\ drop \in Nat /\ nbytes \in Nat /\ tx_out \in Nat /\ wbuf \in Nat
      /\ ksnd \in Nat /\ srvin \in Nat
      /\ Len(tx_cbs) \in Nat /\ Len(sent) \in Nat /\ Len(reqs) \in Nat
  BY DEF TxTypes
<1>2. Accepted \in Nat /\ Counted \in Int /\ Passed \in Nat /\ Base \in Int
  BY <1>1 DEF Accepted, Counted, Passed, Base
<1>3. \A i \in 1 .. Len(reqs) : reqs[i].end \in Nat
  <2> SUFFICES ASSUME NEW i \in 1 .. Len(reqs) PROVE reqs[i].end \in Nat
    OBVIOUS
  <2>1. reqs[i] \in [end : Nat, kind : Kinds]
    BY ElementOfSeq, Zenon DEF TxTypes
  <2> QED
    BY <2>1
<1>4. \A j \in 1 .. Len(tx_cbs) : tx_cbs[j].len \in Nat
  <2> SUFFICES ASSUME NEW j \in 1 .. Len(tx_cbs) PROVE tx_cbs[j].len \in Nat
    OBVIOUS
  <2>1. tx_cbs[j] \in TxEntry
    BY ElementOfSeq, Zenon DEF TxTypes
  <2> QED
    BY <2>1 DEF TxEntry
<1>5. Written \in Nat
  BY <1>1, <1>3 DEF Written, TxTypes
<1> QED
  BY <1>1, <1>2, <1>3, <1>4, <1>5 DEF TxNumbers

(* A step that does not transmit changes none of this. *)
LEMMA SameTx ==
  ASSUME TxInv, UNCHANGED <<tx_cbs, wbuf, tx_out, nbytes, reqs, sent>>,
         Passed' = Passed, Accepted' = Accepted, drop' \in Nat,
         ksnd' \in 0 .. SndBuf, srvin' \in Nat
  PROVE  TxInv'
<1>1. Written' = Written /\ Counted' = Counted /\ Base' = Base
  BY DEF Written, Counted, Base
<1> QED
  BY <1>1 DEF TxInv, TxTypes, Outbound, SentOrder, Deltas

(* tx() counts the bytes of a write that ended within a request. *)
LEMMA PartialTx ==
  ASSUME TxInv, Control, TxCbPartial
  PROVE  TxInv'
<1>1. /\ tx_cbs' \in Seq(TxEntry) /\ Len(tx_cbs') = Len(tx_cbs) - drop
      /\ tx_cbs'[1].id = tx_cbs[drop + 1].id
      /\ tx_cbs'[1].len = tx_cbs[drop + 1].len - nbytes
      /\ \A j \in 2 .. Len(tx_cbs') : tx_cbs'[j] = tx_cbs[drop + j]
  BY PartialCbs DEF TxInv
<1>2. /\ pc = "txcb" /\ drop < Len(tx_cbs) /\ Len(tx_cbs) < MAX_OUTSTANDING_REQS
      /\ tx_cbs[drop + 1].len > nbytes
      /\ tx_out' = tx_out - nbytes /\ nbytes' = 0 /\ drop' = 0 /\ pc' = "tx"
      /\ UNCHANGED <<wbuf, sent, ksnd, srvin, reqs>>
  BY DEF TxCbPartial, Visiting, rxvars, farvars, kvars, netvars
<1>3. TxNumbers
  BY TxAreNumbers DEF TxInv
<1>4. /\ Passed = drop /\ Passed' = 0 /\ Base' = Base + drop /\ Base = Len(sent) - drop
      /\ Counted = Accepted - nbytes /\ Counted' = Accepted
      /\ Written' = Written /\ Accepted' = Accepted
  BY <1>2, <1>3 DEF TxNumbers, Passed, Base, Counted, Accepted, Written
<1>5. drop \in Nat /\ nbytes \in Nat /\ Base \in Int /\ Len(tx_cbs) \in Nat /\ Len(sent) \in Nat
      /\ Accepted \in Nat /\ Counted \in Int /\ Len(reqs) \in Nat /\ tx_out \in Nat /\ Written \in Nat /\ wbuf \in Nat
  BY <1>3 DEF TxNumbers
<1>6. Outbound'
  <2>1. nbytes' <= Accepted'
    BY <1>2, <1>4, <1>5
  <2> QED
    BY <1>2, <1>4, <2>1 DEF TxInv, Outbound
<1>7. tx_out' = Written - Accepted /\ tx_out' \in Nat
  <2>1. tx_out = Written - Counted /\ wbuf = Written - Accepted
    BY <1>2 DEF TxInv, Deltas, Outbound
  <2> QED
    BY <1>2, <1>4, <1>5, <2>1
<1>8. TxTypes'
  <2>1. Len(tx_cbs') <= MAX_OUTSTANDING_REQS
    BY <1>1, <1>2, <1>5, SizesAssumption
  <2> QED
    BY <1>1, <1>2, <1>7, <2>1 DEF TxInv, TxTypes
<1>9. SentOrder'
  <2>1. ASSUME NEW j \in 1 .. Len(tx_cbs')
        PROVE  tx_cbs'[j].id = Base' + j
    <3>1. drop + j \in 1 .. Len(tx_cbs)
      BY <1>1, <1>5
    <3>2. tx_cbs'[j].id = tx_cbs[drop + j].id
      BY <1>1, <1>5
    <3>3. tx_cbs[drop + j].id = Base + (drop + j)
      BY <3>1, Zenon DEF TxInv, SentOrder
    <3> QED
      BY <1>4, <1>5, <3>2, <3>3
  <2>2. Base' + Len(tx_cbs') = Len(reqs')
    <3>1. Base + Len(tx_cbs) = Len(reqs)
      BY DEF TxInv, SentOrder
    <3> QED
      BY <1>1, <1>2, <1>4, <1>5, <3>1
  <2> QED
    BY <1>2, <1>4, <1>5, <2>1, <2>2 DEF TxInv, SentOrder
<1>10. Deltas'
  <2>0. /\ \A i \in 1 .. Len(sent) : reqs[i].end <= Counted
        /\ \A j \in 1 .. Len(tx_cbs) :
           /\ j = drop + 1 => tx_cbs[j].len = reqs[Base + j].end - Counted
           /\ j > drop + 1 => tx_cbs[j].len = reqs[Base + j].end - reqs[Base + j - 1].end
           /\ j > drop => tx_cbs[j].len > 0
    BY <1>2, <1>4 DEF TxInv, Deltas
  <2>1. tx_cbs'[1].len = reqs[Base' + 1].end - Accepted /\ tx_cbs'[1].len > 0
    <3>1. drop + 1 \in 1 .. Len(tx_cbs)
      BY <1>2, <1>5
    <3>2. tx_cbs[drop + 1].len = reqs[Base + (drop + 1)].end - Counted /\ tx_cbs[drop + 1].len \in Nat
      BY <2>0, <3>1, <1>3 DEF TxNumbers
    <3>3. Base + (drop + 1) = Base' + 1
      BY <1>4, <1>5
    <3>4. Base + (drop + 1) \in 1 .. Len(reqs)
      BY <1>2, <1>5, <1>4 DEF TxInv, SentOrder
    <3>5. reqs[Base' + 1].end \in Nat
      BY <3>3, <3>4, <1>3 DEF TxNumbers
    <3>6. tx_cbs[drop + 1].len = reqs[Base' + 1].end - Counted
      BY <3>2, <3>3, Zenon
    <3>7. tx_cbs'[1].len = tx_cbs[drop + 1].len - nbytes /\ tx_cbs[drop + 1].len > nbytes
      BY <1>1, <1>2
    <3> DEFINE a == tx_cbs[drop + 1].len
               b == reqs[Base' + 1].end
               c == tx_cbs'[1].len
    <3>8. a \in Nat /\ b \in Nat /\ a = b - Counted /\ c = a - nbytes /\ a > nbytes
      BY <3>2, <3>5, <3>6, <3>7, Zenon
    <3>9. Counted = Accepted - nbytes /\ Accepted \in Nat /\ nbytes \in Nat
      BY <1>4, <1>5, Zenon
    <3> HIDE DEF a, b, c
    <3>10. c = b - Accepted /\ c > 0
      BY <3>8, <3>9
    <3> QED
      BY <3>10 DEF b, c
  <2>2. ASSUME NEW j \in 2 .. Len(tx_cbs')
        PROVE  /\ tx_cbs'[j].len = reqs[Base' + j].end - reqs[Base' + j - 1].end
               /\ tx_cbs'[j].len > 0
    <3>1. drop + j \in 1 .. Len(tx_cbs) /\ drop + j > drop + 1 /\ drop + j > drop
      BY <1>1, <1>5
    <3>2. tx_cbs[drop + j].len = reqs[Base + (drop + j)].end - reqs[Base + (drop + j) - 1].end /\ tx_cbs[drop + j].len > 0
      BY <2>0, <3>1, Zenon
    <3>3. Base + (drop + j) = Base' + j /\ Base + (drop + j) - 1 = Base' + j - 1
      BY <1>4, <1>5
    <3>4. tx_cbs'[j] = tx_cbs[drop + j]
      BY <1>1
    <3> QED
      BY <3>2, <3>3, <3>4, Zenon
  <2>3. ASSUME NEW i \in 1 .. Len(sent)
        PROVE  reqs[i].end <= Accepted
    <3>1. i \in 1 .. Len(reqs)
      BY <1>2, <1>4, <1>5 DEF TxInv, SentOrder
    <3>2. reqs[i].end \in Nat /\ reqs[i].end <= Counted
      BY <3>1, <2>0, <1>3 DEF TxNumbers
    <3> QED
      BY <1>4, <1>5, <3>2
  <2> QED
    BY <1>2, <1>4, <1>5, <1>7, <2>1, <2>2, <2>3 DEF Deltas
<1> QED
  BY <1>6, <1>8, <1>9, <1>10 DEF TxInv

(* tx() hands bytes to the kernel. *)
LEMMA WriteTx ==
  ASSUME TxInv, Control, TxWrite
  PROVE  TxInv'
<1>1. PICK n \in Nat : /\ n > 0 /\ n <= wbuf /\ ksnd + n <= SndBuf
                        /\ wbuf' = wbuf - n /\ ksnd' = ksnd + n /\ nbytes' = n
  <2>1. wbuf \in Nat /\ wbuf > 0 /\ ksnd \in Nat /\ ksnd < SndBuf /\ SndBuf \in Nat
    BY SizesAssumption DEF TxInv, TxTypes, TxWrite
  <2>2. Smaller(wbuf, SndBuf - ksnd) \in 1 .. wbuf /\ ksnd + Smaller(wbuf, SndBuf - ksnd) <= SndBuf
    BY <2>1 DEF Smaller
  <2> QED
    BY <2>2 DEF TxWrite
<1>2. /\ pc = "tx" /\ nbytes = 0 /\ drop' = 0 /\ drop = 0 /\ pc' = "txcb"
      /\ UNCHANGED <<tx_cbs, tx_out, sent, srvin, reqs>>
  BY DEF TxWrite, Control, farvars, netvars
<1>3. TxNumbers
  BY TxAreNumbers DEF TxInv
<1>4. /\ Passed = 0 /\ Passed' = 0 /\ Base' = Base
      /\ Counted = Accepted /\ Counted' = Counted
      /\ Written' = Written /\ Accepted' = Accepted + n
  BY <1>1, <1>2, <1>3 DEF TxNumbers, Passed, Base, Counted, Accepted, Written
<1>5. TxTypes'
  BY <1>1, <1>2, SizesAssumption DEF TxInv, TxTypes
<1>6. Outbound'
  <2>1. wbuf' = Written' - Accepted' /\ nbytes' <= Accepted'
    BY <1>1, <1>3, <1>4 DEF TxInv, Outbound, TxNumbers
  <2> QED
    BY <1>2, <1>4, <2>1 DEF TxInv, Outbound
<1>7. SentOrder' /\ Deltas'
  BY <1>2, <1>4 DEF TxInv, SentOrder, Deltas
<1> QED
  BY <1>5, <1>6, <1>7 DEF TxInv

(* The callback loop passes a request that is wholly sent. *)
LEMMA FireTx ==
  ASSUME TxInv, Control, TxCbFire
  PROVE  TxInv'
<1> DEFINE k == drop + 1
           c == tx_cbs[k].len
<1>1. /\ pc = "txcb" /\ drop < Len(tx_cbs) /\ Len(tx_cbs) < MAX_OUTSTANDING_REQS
      /\ c <= nbytes /\ sent' = Append(sent, tx_cbs[k].id)
      /\ nbytes' = nbytes - c /\ tx_out' = tx_out - c /\ drop' = drop + 1 /\ pc' = pc
      /\ UNCHANGED <<tx_cbs, wbuf, ksnd, srvin, reqs>>
  BY DEF TxCbFire, Visiting, sent_request, farvars, kvars, netvars
<1>2. TxNumbers
  BY TxAreNumbers DEF TxInv
<1>3. /\ drop \in Nat /\ nbytes \in Nat /\ Base \in Int /\ Len(tx_cbs) \in Nat
      /\ Len(sent) \in Nat /\ Accepted \in Nat /\ Counted \in Int /\ Len(reqs) \in Nat
      /\ tx_out \in Nat /\ Written \in Nat
  BY <1>2 DEF TxNumbers
<1>4. k \in 1 .. Len(tx_cbs) /\ c \in Nat
  BY <1>1, <1>2, <1>3, SMTT(30) DEF TxNumbers
<1>5. tx_cbs[k].id \in Ids /\ tx_cbs[k].id = Base + k
  <2>1. tx_cbs[k] \in TxEntry
    BY <1>4, ElementOfSeq, Zenon DEF TxInv, TxTypes
  <2> QED
    BY <1>4, <2>1 DEF TxEntry, TxInv, SentOrder
<1>6. /\ sent' \in Seq(Ids) /\ Len(sent') = Len(sent) + 1
      /\ \A i \in 1 .. Len(sent) : sent'[i] = sent[i]
      /\ sent'[Len(sent) + 1] = tx_cbs[k].id
  BY <1>1, <1>5, AppendSeq DEF TxInv, TxTypes
<1> HIDE DEF k, c
<1>7. /\ Passed = drop /\ Passed' = k /\ Base' = Base /\ Base = Len(sent) - drop
      /\ Counted = Accepted - nbytes /\ Counted' = Counted + c
      /\ Written' = Written /\ Accepted' = Accepted
  BY <1>1, <1>3, <1>4, <1>6 DEF Passed, Base, Counted, Accepted, Written, k
<1>8. Base + k = Len(sent) + 1 /\ Base + k \in 1 .. Len(reqs) /\ Len(sent) + 1 <= Len(reqs)
  <2>1. Base + Len(tx_cbs) = Len(reqs)
    BY DEF TxInv, SentOrder
  <2> QED
    BY <1>3, <1>4, <1>7, <2>1 DEF k
<1>9. /\ reqs[Base + k].end \in Nat /\ reqs[Base + k].end <= Written
      /\ reqs[Base + k].end = Counted + c
  <2>1. c = reqs[Base + k].end - Counted
    BY <1>1, <1>4, <1>7 DEF TxInv, Deltas, k, c
  <2>2. reqs[Base + k].end \in Nat
    BY <1>2, <1>8, Zenon DEF TxNumbers
  <2>3. reqs[Base + k].end <= Written
    BY <1>8, Zenon DEF TxInv, Outbound
  <2> DEFINE e == reqs[Base + k].end
  <2>4. Counted \in Int /\ e \in Nat /\ c = e - Counted
    BY <1>3, <2>1, <2>2, Zenon
  <2> HIDE DEF e
  <2>5. e = Counted + c
    BY <2>4
  <2> QED
    BY <2>2, <2>3, <2>5, Zenon DEF e
<1>10. tx_out' = Written - Counted' /\ tx_out' \in Nat
  <2>1. tx_out = Written - Counted
    BY <1>1 DEF TxInv, Deltas
  <2>2. Counted' \in Int /\ Counted' = Counted + c /\ Counted' <= Written /\ tx_out' = tx_out - c
    BY <1>1, <1>3, <1>4, <1>7, <1>9
  <2> QED
    BY <1>3, <1>4, <2>1, <2>2
<1>11. nbytes' \in Nat /\ nbytes' <= Accepted
  BY <1>1, <1>3, <1>4 DEF TxInv, Outbound
<1>12. TxTypes'
  BY <1>1, <1>3, <1>6, <1>10, <1>11 DEF TxInv, TxTypes
<1>13. Outbound'
  BY <1>1, <1>7, <1>11 DEF TxInv, Outbound
<1>14. SentOrder'
  <2>1. ASSUME NEW i \in 1 .. Len(sent') PROVE sent'[i] = i
    <3>1. CASE i \in 1 .. Len(sent)
      BY <3>1, <1>6 DEF TxInv, SentOrder
    <3>2. CASE i = Len(sent) + 1
      BY <3>2, <1>5, <1>6, <1>8
    <3> QED
      BY <3>1, <3>2, <1>3, <1>6
  <2>2. Passed' <= Len(sent')
    <3>1. drop <= Len(sent)
      BY <1>7 DEF TxInv, SentOrder
    <3> QED
      BY <1>3, <1>6, <1>7, <3>1 DEF k
  <2> QED
    BY <1>1, <1>7, <2>1, <2>2 DEF TxInv, SentOrder
<1>15. Deltas'
  <2>1. ASSUME NEW i \in 1 .. Len(sent') PROVE reqs[i].end <= Counted'
    <3>1. CASE i \in 1 .. Len(sent)
      <4>1. reqs[i].end <= Counted
        BY <1>1, <3>1 DEF TxInv, Deltas
      <4>2. i \in 1 .. Len(reqs)
        BY <1>3, <1>8, <3>1
      <4>3. reqs[i].end \in Nat
        BY <4>2, <1>2 DEF TxNumbers
      <4> QED
        BY <1>3, <1>4, <1>7, <4>1, <4>3
    <3>2. CASE i = Len(sent) + 1
      BY <3>2, <1>3, <1>4, <1>7, <1>8, <1>9, SMTT(30)
    <3> QED
      BY <3>1, <3>2, <1>3, <1>6
  <2>2. ASSUME NEW j \in 1 .. Len(tx_cbs), j > k
        PROVE  /\ tx_cbs[j].len = reqs[Base + j].end - reqs[Base + j - 1].end
               /\ tx_cbs[j].len > 0
    <3>1. j > drop + 1 /\ j > drop
      BY <2>2, <1>3 DEF k
    <3> QED
      BY <1>1, <1>7, <3>1 DEF TxInv, Deltas
  <2>3. ASSUME NEW j \in 1 .. Len(tx_cbs), j = k + 1
        PROVE  tx_cbs[j].len = reqs[Base + j].end - Counted'
    <3>1. j > k /\ Base + j - 1 = Base + k
      BY <1>3, <1>4, <2>3
    <3>2. reqs[Base + j - 1].end = Counted'
      BY <1>7, <1>9, <3>1
    <3> QED
      BY <2>2, <3>1, <3>2
  <2>4. k \in Nat
    BY <1>4
  <2>5. ASSUME NEW j \in 1 .. Len(tx_cbs'), j > Passed'
        PROVE  /\ j = Passed' + 1 => tx_cbs'[j].len = reqs'[Base' + j].end - Counted'
               /\ j > Passed' + 1 => tx_cbs'[j].len = reqs'[Base' + j].end - reqs'[Base' + j - 1].end
               /\ tx_cbs'[j].len > 0
    BY <1>1, <1>7, <2>2, <2>3, <2>5
  <2> QED
    BY <1>1, <1>7, <1>10, <2>1, <2>4, <2>5 DEF Deltas
<1> QED
  BY <1>12, <1>13, <1>14, <1>15 DEF TxInv

(* The callback loop has passed every request: nothing of what was sent is *)
(* left to account for.                                                    *)
LEMMA EndTx ==
  ASSUME TxInv, Control, TxCbEnd
  PROVE  TxInv'
<1>1. /\ pc = "txcb" /\ pc' = "tx" /\ nbytes' = 0 /\ drop' = 0 /\ tx_cbs' = Remaining(tx_cbs)
      /\ ~ Visiting(tx_cbs)
      /\ UNCHANGED <<tx_out, sent, wbuf, ksnd, srvin, reqs>>
  BY DEF TxCbEnd, farvars, kvars, netvars
<1>2. TxNumbers
  BY TxAreNumbers DEF TxInv
<1>3. /\ drop \in Nat /\ nbytes \in Nat /\ Base \in Int /\ Len(tx_cbs) \in Nat
      /\ Len(sent) \in Nat /\ Accepted \in Nat /\ Counted \in Int /\ Len(reqs) \in Nat
      /\ tx_out \in Nat /\ Written \in Nat
  BY <1>2 DEF TxNumbers
<1>4. drop \in 0 .. Len(tx_cbs)
  BY <1>1, <1>3 DEF Control
<1>5. /\ tx_cbs' \in Seq(TxEntry) /\ Len(tx_cbs') = Len(tx_cbs) - drop
      /\ \A i \in 1 .. Len(tx_cbs) - drop : tx_cbs'[i] = tx_cbs[drop + i]
  <2>1. tx_cbs \in Seq(TxEntry)
    BY DEF TxInv, TxTypes
  <2> QED
    BY <1>1, <1>4, <2>1, RemainingSeq, Zenon
<1>6. /\ Passed = drop /\ Passed' = 0 /\ Base' = Base + drop /\ Base = Len(sent) - drop
      /\ Counted = Accepted - nbytes /\ Counted' = Accepted
      /\ Written' = Written /\ Accepted' = Accepted
  BY <1>1, <1>3 DEF Passed, Base, Counted, Accepted, Written
<1>7. Base + Len(tx_cbs) = Len(reqs)
  BY DEF TxInv, SentOrder
<1>8. Outbound'
  <2>1. nbytes' <= Accepted'
    BY <1>1, <1>3, <1>6
  <2> QED
    BY <1>1, <1>6, <2>1 DEF TxInv, Outbound
<1>9. TxTypes'
  <2>1. Len(tx_cbs) <= MAX_OUTSTANDING_REQS
    BY DEF TxInv, TxTypes
  <2>2. Len(tx_cbs') <= MAX_OUTSTANDING_REQS
    BY <1>3, <1>5, <2>1, SizesAssumption
  <2> QED
    BY <1>1, <1>5, <2>2 DEF TxInv, TxTypes
<1>10. SentOrder'
  <2>1. ASSUME NEW j \in 1 .. Len(tx_cbs')
        PROVE  tx_cbs'[j].id = Base' + j
    <3>1. drop + j \in 1 .. Len(tx_cbs) /\ j \in 1 .. Len(tx_cbs) - drop
      BY <1>3, <1>4, <1>5
    <3>2. tx_cbs[drop + j].id = Base + (drop + j)
      BY <3>1, Zenon DEF TxInv, SentOrder
    <3> QED
      BY <1>3, <1>5, <1>6, <3>1, <3>2
  <2>2. Base' + Len(tx_cbs') = Len(reqs')
    BY <1>1, <1>3, <1>5, <1>6, <1>7
  <2> QED
    BY <1>1, <1>3, <1>6, <2>1, <2>2 DEF TxInv, SentOrder
<1>11. Deltas'
  <2>1. CASE Len(tx_cbs) = MAX_OUTSTANDING_REQS
    BY <1>1, <1>3, <1>5, <2>1 DEF Control, Deltas
  <2>2. CASE Len(tx_cbs) < MAX_OUTSTANDING_REQS
    <3>1. drop = Len(tx_cbs)
      BY <1>1, <1>3, <1>4, <2>2 DEF Visiting
    <3>2. Len(tx_cbs') = 0 /\ Len(sent) = Len(reqs)
      BY <1>3, <1>5, <1>6, <1>7, <3>1
    <3>3. /\ tx_out = Written - Counted
          /\ \A i \in 1 .. Len(sent) : reqs[i].end <= Counted
      BY <2>2 DEF TxInv, Deltas
    <3>4. Written <= Counted
      <4>1. CASE reqs = << >>
        BY <1>3, <1>6, <4>1 DEF TxInv, Outbound, Written
      <4>2. CASE reqs # << >>
        <5>1. Len(reqs) \in 1 .. Len(sent)
          BY <4>2, <3>2, <1>3 DEF TxInv, TxTypes
        <5> QED
          BY <4>2, <3>3, <5>1, Zenon DEF Written
      <4> QED
        BY <4>1, <4>2
    <3>5. wbuf \in Nat /\ wbuf = Written - Accepted
      BY <1>2 DEF TxInv, Outbound, TxNumbers
    <3>6. Counted' = Counted
      BY <1>3, <1>6, <3>4, <3>5
    <3> QED
      BY <1>1, <1>6, <3>2, <3>3, <3>6 DEF Deltas
  <2>3. Len(tx_cbs) <= MAX_OUTSTANDING_REQS /\ MAX_OUTSTANDING_REQS \in Nat
    BY SizesAssumption DEF TxInv, TxTypes
  <2> QED
    BY <1>3, <2>1, <2>2, <2>3
<1> QED
  BY <1>8, <1>9, <1>10, <1>11 DEF TxInv

(* What an accepted request adds to the queues and to the history. *)
LEMMA GenerateEffect ==
  ASSUME TypeOK, Control, NEW kind \in Kinds, NEW len \in ReqLen[kind],
         Generate(kind, len), err' = "none"
  PROVE  /\ len \in Nat /\ len > 0 /\ len <= CHARBUF_SIZE - wbuf
         /\ pc = "idle" /\ pc' \in {"tx", "read"} /\ after' = "read"
         /\ nbytes = 0 /\ drop = 0
         /\ Len(requests) < MAX_OUTSTANDING_REQS
         /\ Len(tx_cbs) < MAX_OUTSTANDING_REQS
         /\ reqs' = Append(reqs, [end |-> Written + len, kind |-> kind])
         /\ requests' = Append(requests, Len(reqs) + 1)
         /\ wbuf' = wbuf + len /\ tx_out' = wbuf + len
         /\ tx_cbs' = Append(tx_cbs, [id |-> Len(reqs) + 1,
                len |-> IF tx_cbs = << >> THEN wbuf + len ELSE (wbuf + len) - tx_out])
         /\ Len(reqs) + 1 \in Ids
         /\ UNCHANGED <<sockvars, rx_cbs, rbuf, rpos, done, sent, loopvars, ev, kvars,
                        netvars>>
<1>1. len \in Nat /\ len > 0
  BY KindsAssumption
<1>2. err # "none" => pc = "dead"
  BY DEF Control
<1>3. Len(reqs) + 1 \in Ids
  BY SizesAssumption, SMTT(30) DEF Generate, Ids, TypeOK
<1>4. pc = "idle" /\ nbytes = 0 /\ drop = 0
  BY DEF Generate, Control
<1>5. ~ Throw("ENOSPC")
  BY DEF Throw
<1>6. /\ Len(requests) < MAX_OUTSTANDING_REQS
      /\ len <= CHARBUF_SIZE - wbuf
      /\ Len(tx_cbs) < MAX_OUTSTANDING_REQS
      /\ reqs' = Append(reqs, [end |-> Written + len, kind |-> kind])
      /\ requests' = Append(requests, Len(reqs) + 1)
      /\ wbuf' = wbuf + len
      /\ write_cb_point(Len(reqs) + 1, wbuf + len)
      /\ pc' = IF tx_rdy THEN "tx" ELSE "read"
      /\ after' = "read"
      /\ UNCHANGED <<sockvars, rx_cbs, rbuf, rpos, done, sent, loopvars, ev, kvars,
                     netvars>>
  BY <1>5, Zenon DEF Generate
<1>7. pc' \in {"tx", "read"}
  BY <1>6
<1>8. /\ tx_out' = wbuf + len
      /\ tx_cbs' = Append(tx_cbs, [id |-> Len(reqs) + 1,
                len |-> IF tx_cbs = << >> THEN wbuf + len ELSE (wbuf + len) - tx_out])
  BY <1>6, Zenon DEF write_cb_point
<1> QED
  BY <1>1, <1>3, <1>4, <1>6, <1>7, <1>8

(* A request is generated. *)
LEMMA GenerateTx ==
  ASSUME TypeOK, TxInv, Control, NEW kind \in Kinds, NEW len \in ReqLen[kind],
         Generate(kind, len)
  PROVE  TxInv'
<1> DEFINE e == [id |-> Len(reqs) + 1,
                 len |-> IF tx_cbs = << >> THEN wbuf + len ELSE (wbuf + len) - tx_out]
           r == [end |-> Written + len, kind |-> kind]
           m == Len(reqs) + 1
           q == Len(tx_cbs) + 1
<1>1. CASE err' # "none"
  <2>1. /\ UNCHANGED <<tx_cbs, wbuf, tx_out, nbytes, reqs, sent, ksnd, srvin, drop>>
        /\ pc = "idle" /\ pc' = "dead"
    BY <1>1 DEF Generate, Control, Throw, kvars, netvars, loopvars
  <2>2. Passed' = Passed /\ Accepted' = Accepted
    BY <2>1 DEF Passed, Accepted
  <2>3. drop' \in Nat /\ ksnd' \in 0 .. SndBuf /\ srvin' \in Nat
    BY <2>1 DEF TxInv, TxTypes
  <2> QED
    BY <2>1, <2>2, <2>3, SameTx
<1>2. CASE err' = "none"
  <2>1. /\ len \in Nat /\ len > 0 /\ len <= CHARBUF_SIZE - wbuf
        /\ pc = "idle" /\ pc' \in {"tx", "read"} /\ after' = "read"
        /\ nbytes = 0 /\ drop = 0
        /\ Len(tx_cbs) < MAX_OUTSTANDING_REQS
        /\ reqs' = Append(reqs, r)
        /\ wbuf' = wbuf + len /\ tx_out' = wbuf + len
        /\ tx_cbs' = Append(tx_cbs, e)
        /\ m \in Ids
        /\ UNCHANGED <<sent, loopvars, kvars, netvars>>
    BY <1>2, GenerateEffect, Zenon
  <2>2. UNCHANGED <<nbytes, drop, ksnd, srvin>>
    BY <2>1 DEF loopvars, kvars, netvars
  <2>3. TxNumbers
    BY TxAreNumbers DEF TxInv
  <2>4. /\ Base \in Int /\ Len(tx_cbs) \in Nat
        /\ Len(sent) \in Nat /\ Accepted \in Nat /\ Counted \in Int /\ Len(reqs) \in Nat
        /\ tx_out \in Nat /\ Written \in Nat /\ wbuf \in Nat
    BY <2>3 DEF TxNumbers
  <2>5. wbuf = Written - Accepted /\ tx_out = Written - Counted
    BY <2>1 DEF TxInv, Outbound, Deltas
  <2>6. Passed = 0 /\ Passed' = 0 /\ Base = Len(sent) /\ Base' = Len(sent)
        /\ Counted = Accepted /\ Counted' = Accepted /\ Accepted' = Accepted
    BY <2>1, <2>2, <2>4 DEF Passed, Base, Counted, Accepted
  <2>7. e.len \in Nat /\ e.len > 0 /\ e.len = IF tx_cbs = << >> THEN wbuf + len ELSE len
    BY <2>1, <2>4, <2>5, <2>6, SMTT(30)
  <2>8. e \in TxEntry /\ e.id = m
    BY <2>1, <2>7 DEF TxEntry
  <2>9. r \in [end : Nat, kind : Kinds] /\ r.end = Written + len
    BY <2>1, <2>4
  <2> HIDE DEF e, r
  <2>10. /\ tx_cbs' \in Seq(TxEntry) /\ Len(tx_cbs') = q
         /\ \A j \in 1 .. Len(tx_cbs) : tx_cbs'[j] = tx_cbs[j]
         /\ tx_cbs'[q] = e
    <3>1. tx_cbs \in Seq(TxEntry)
      BY DEF TxInv, TxTypes
    <3> QED
      BY <2>1, <2>8, <3>1, AppendSeq
  <2>11. /\ reqs' \in Seq([end : Nat, kind : Kinds]) /\ Len(reqs') = m
         /\ \A i \in 1 .. Len(reqs) : reqs'[i] = reqs[i]
         /\ reqs'[m] = r
    <3>1. reqs \in Seq([end : Nat, kind : Kinds])
      BY DEF TxInv, TxTypes
    <3> QED
      BY <2>1, <2>9, <3>1, AppendSeq
  <2>12. Base + Len(tx_cbs) = Len(reqs) /\ Base + q = m /\ Base + q - 1 = Len(reqs)
    <3>1. Base + Len(tx_cbs) = Len(reqs)
      BY DEF TxInv, SentOrder
    <3> QED
      BY <2>4, <3>1
  <2>13. Written' = Written + len
    <3>1. reqs' # << >>
      BY <2>4, <2>11
    <3> QED
      BY <2>9, <2>11, <3>1 DEF Written
  <2>14. TxTypes'
    <3>1. wbuf' \in 0 .. CHARBUF_SIZE /\ tx_out' \in Nat
      BY <2>1, <2>4, SizesAssumption
    <3>2. Len(tx_cbs') <= MAX_OUTSTANDING_REQS
      BY <2>1, <2>4, <2>10, SizesAssumption
    <3>3. Len(reqs') <= NReqs
      BY <2>1, <2>4, <2>11, SizesAssumption DEF Ids
    <3> QED
      BY <2>1, <2>2, <2>10, <2>11, <3>1, <3>2, <3>3 DEF TxInv, TxTypes
  <2>15. Outbound'
    <3>1. wbuf' = Written' - Accepted'
      BY <2>1, <2>4, <2>5, <2>6, <2>13
    <3>2. nbytes' <= Accepted'
      BY <2>2, <2>6 DEF TxInv, Outbound
    <3>3. ASSUME NEW i \in 1 .. Len(reqs')
          PROVE  /\ reqs'[i].end \in Nat /\ 0 < reqs'[i].end /\ reqs'[i].end <= Written'
                 /\ i <= Len(reqs) => reqs'[i].end <= Written
      <4>1. CASE i \in 1 .. Len(reqs)
        <5>1. reqs[i].end \in Nat /\ 0 < reqs[i].end /\ reqs[i].end <= Written
          BY <4>1, <2>3 DEF TxInv, Outbound, TxNumbers
        <5> QED
          BY <2>1, <2>4, <2>11, <2>13, <4>1, <5>1, SMTT(30)
      <4>2. CASE i = m
        BY <2>1, <2>4, <2>9, <2>11, <2>13, <4>2
      <4> QED
        BY <2>4, <2>11, <4>1, <4>2
    <3>4. ASSUME NEW i \in 1 .. Len(reqs'), NEW j \in 1 .. Len(reqs'), i < j
          PROVE  reqs'[i].end < reqs'[j].end
      <4>1. i \in 1 .. Len(reqs)
        BY <2>4, <2>11, <3>4
      <4>2. CASE j \in 1 .. Len(reqs)
        BY <2>11, <3>4, <4>1, <4>2 DEF TxInv, Outbound
      <4>3. CASE j = m
        <5>1. reqs'[i].end \in Nat /\ reqs'[i].end <= Written /\ reqs'[j].end = Written + len
          BY <2>4, <2>9, <2>11, <3>3, <4>1, <4>3
        <5> QED
          BY <2>1, <2>4, <5>1, SMTT(30)
      <4> QED
        BY <2>4, <2>11, <4>2, <4>3
    <3> QED
      BY <3>1, <3>2, <3>3, <3>4 DEF Outbound
  <2>16. SentOrder'
    <3>1. ASSUME NEW j \in 1 .. Len(tx_cbs')
          PROVE  tx_cbs'[j].id = Base' + j
      <4>1. CASE j \in 1 .. Len(tx_cbs)
        BY <2>6, <2>10, <4>1 DEF TxInv, SentOrder
      <4>2. CASE j = q
        BY <2>6, <2>8, <2>10, <2>12, <4>2
      <4> QED
        BY <2>4, <2>10, <4>1, <4>2
    <3>2. Base' + Len(tx_cbs') = Len(reqs')
      BY <2>6, <2>10, <2>11, <2>12
    <3> QED
      BY <2>1, <2>4, <2>6, <3>1, <3>2 DEF TxInv, SentOrder
  <2>17. Deltas'
    <3>1. tx_out' = Written' - Counted'
      BY <2>1, <2>4, <2>5, <2>6, <2>13
    <3>2. ASSUME NEW i \in 1 .. Len(sent') PROVE reqs'[i].end <= Counted'
      <4>1. i \in 1 .. Len(sent) /\ i \in 1 .. Len(reqs)
        BY <2>1, <2>4, <2>6, <2>12, <3>2
      <4>2. reqs[i].end <= Counted
        BY <2>1, <4>1 DEF TxInv, Deltas
      <4> QED
        BY <2>6, <2>11, <4>1, <4>2
    <3>3. ASSUME NEW j \in 1 .. Len(tx_cbs')
          PROVE  /\ j = 1 => tx_cbs'[j].len = reqs'[Base + j].end - Accepted
                 /\ j > 1 => tx_cbs'[j].len = reqs'[Base + j].end - reqs'[Base + j - 1].end
                 /\ tx_cbs'[j].len > 0
      <4>1. CASE j \in 1 .. Len(tx_cbs)
        <5>1. Base + j \in 1 .. Len(reqs) /\ (j > 1 => Base + j - 1 \in 1 .. Len(reqs))
          BY <2>4, <2>6, <2>12, <4>1
        <5>2. /\ j = 1 => tx_cbs[j].len = reqs[Base + j].end - Accepted
              /\ j > 1 => tx_cbs[j].len = reqs[Base + j].end - reqs[Base + j - 1].end
              /\ tx_cbs[j].len > 0
          <6>1. j > 0 /\ 0 + 1 = 1
            BY <4>1
          <6> QED
            BY <2>1, <2>6, <4>1, <6>1 DEF TxInv, Deltas
        <5> QED
          BY <2>10, <2>11, <4>1, <5>1, <5>2
      <4>2. CASE j = q
        <5>1. tx_cbs'[j].len = e.len /\ reqs'[Base + j].end = Written + len
          BY <2>9, <2>10, <2>11, <2>12, <4>2
        <5>2. CASE j = 1
          <6>1. tx_cbs = << >>
            BY <2>4, <4>2, <5>2 DEF TxInv, TxTypes
          <6> QED
            BY <2>1, <2>4, <2>5, <2>7, <5>1, <5>2, <6>1
        <5>3. CASE j > 1
          <6>1. tx_cbs # << >> /\ Len(reqs) \in 1 .. Len(reqs)
            BY <2>4, <2>6, <2>12, <4>2, <5>3 DEF TxInv, TxTypes
          <6>2. reqs # << >>
            BY <6>1
          <6>3. reqs'[Base + j - 1].end = Written
            BY <2>11, <2>12, <4>2, <6>1, <6>2 DEF Written
          <6> QED
            BY <2>1, <2>4, <2>7, <5>1, <5>3, <6>1, <6>3
        <5> QED
          BY <2>4, <4>2, <5>2, <5>3
      <4> QED
        BY <2>4, <2>10, <4>1, <4>2
    <3>4. ASSUME NEW j \in 1 .. Len(tx_cbs')
          PROVE  /\ j = Passed' + 1 => tx_cbs'[j].len = reqs'[Base' + j].end - Counted'
                 /\ j > Passed' + 1 => tx_cbs'[j].len = reqs'[Base' + j].end - reqs'[Base' + j - 1].end
                 /\ j > Passed' => tx_cbs'[j].len > 0
      <4>1. Passed' + 1 = 1
        BY <2>6
      <4>2. j > 0
        OBVIOUS
      <4> QED
        BY <2>6, <3>3, <4>1, <4>2, Zenon
    <3> QED
      BY <3>1, <3>2, <3>4 DEF Deltas
  <2> QED
    BY <2>14, <2>15, <2>16, <2>17 DEF TxInv
<1> QED
  BY <1>1, <1>2

(* The actions that leave the transmitting side alone. *)
Elsewhere ==
  \/ Connect \/ SockRead \/ TxReturn \/ TxAgain \/ TxError \/ RxStep
  \/ EpollWait \/ RunIo \/ RunOut \/ Environment \/ UNCHANGED vars

(* The steps that are none of tx()'s own, of write_cb_point or of the far  *)
(* side leave the accounting of tx() true.                                 *)
LEMMA ElsewhereTx ==
  ASSUME TypeOK, TxInv, Control, Elsewhere
  PROVE  TxInv'
<1>1. UNCHANGED <<tx_cbs, wbuf, tx_out, nbytes, reqs, sent>>
  <2>1. CASE Connect \/ SockRead \/ EpollWait \/ RunIo \/ RunOut \/ UNCHANGED vars
    BY <2>1 DEF Connect, SockRead, EpollWait, RunIo, RunOut, vars, txvars, loopvars, farvars
  <2>2. CASE TxReturn \/ TxAgain \/ TxError
    BY <2>2 DEF TxReturn, TxAgain, TxError, txvars, loopvars, farvars
  <2>3. CASE RxStep
    BY <2>3 DEF RxStep, RxReturn, RxFull, RxAgain, RxError, RxRead, RxHdrPartial, RxHdr,
                RxBodyPartial, RxBody, RxCbEnd, txvars, loopvars, farvars
  <2>4. CASE Environment
    BY <2>4 DEF Environment, ConnectDone, Deliver, Answer, Arrive, PeerClose, clientvars,
                txvars, loopvars
  <2> QED
    BY <2>1, <2>2, <2>3, <2>4 DEF Elsewhere
<1>2. ksnd' \in 0 .. SndBuf /\ srvin' \in Nat /\ Accepted' = Accepted
  <2>0. ksnd \in 0 .. SndBuf /\ srvin \in Nat /\ SndBuf \in Nat
    BY SizesAssumption DEF TypeOK
  <2>1. CASE Deliver
    <3>1. PICK n \in 1 .. ksnd : ksnd' = ksnd - n /\ srvin' = srvin + n
      BY <2>1 DEF Deliver
    <3> QED
      BY <2>0, <3>1 DEF Accepted
  <2>2. CASE ~ Deliver
    <3>1. UNCHANGED <<ksnd, srvin>>
      <4>1. CASE Connect \/ SockRead \/ EpollWait \/ RunIo \/ RunOut \/ UNCHANGED vars
        BY <4>1 DEF Connect, SockRead, EpollWait, RunIo, RunOut, vars, kvars, netvars, farvars
      <4>2. CASE TxReturn \/ TxAgain \/ TxError
        BY <4>2 DEF TxReturn, TxAgain, TxError, kvars, netvars, farvars
      <4>3. CASE RxStep
        BY <4>3 DEF RxStep, RxReturn, RxFull, RxAgain, RxError, RxRead, RxHdrPartial, RxHdr,
                RxBodyPartial, RxBody, RxCbEnd, kvars, netvars, farvars
      <4>4. CASE Environment
        BY <2>2, <4>4 DEF Environment, ConnectDone, Answer, Arrive, PeerClose, clientvars,
                    kvars, netvars
      <4> QED
        BY <4>1, <4>2, <4>3, <4>4 DEF Elsewhere
    <3> QED
      BY <2>0, <3>1 DEF Accepted
  <2> QED
    BY <2>1, <2>2
<1>3. drop' \in Nat /\ Passed' = Passed
  <2>0. drop \in Nat /\ after \in {"idle", "read", "out"}
    BY DEF TypeOK
  <2>1. CASE Connect \/ SockRead \/ EpollWait \/ RunIo \/ RunOut \/ UNCHANGED vars
    BY <2>0, <2>1 DEF Connect, SockRead, EpollWait, RunIo, RunOut, vars, loopvars, Throw, Passed
  <2>2. CASE TxReturn \/ TxAgain \/ TxError
    BY <2>0, <2>2 DEF TxReturn, TxAgain, TxError, loopvars, Throw, Passed
  <2>3. CASE RxReturn \/ RxFull \/ RxAgain \/ RxError \/ RxRead \/ RxHdrPartial
               \/ RxBodyPartial \/ RxCbEnd
    BY <2>0, <2>3 DEF RxReturn, RxFull, RxAgain, RxError, RxRead, RxHdrPartial,
                RxBodyPartial, RxCbEnd, RxTurn, loopvars, Throw, Passed
  <2>4. CASE RxHdr
    <3>1. pc = "rxcb" /\ pc' \in {"rxcb", "dead"} /\ drop' = drop
      BY <2>4 DEF RxHdr, recv_response, Throw, loopvars
    <3> QED
      BY <2>0, <3>1 DEF Passed
  <2>5. CASE RxBody
    BY <2>0, <2>5 DEF RxBody, Passed
  <2>6. CASE Environment
    BY <2>0, <2>6 DEF Environment, ConnectDone, Deliver, Answer, Arrive, PeerClose, clientvars,
                loopvars, Passed
  <2> QED
    BY <2>1, <2>2, <2>3, <2>4, <2>5, <2>6 DEF Elsewhere, RxStep
<1> QED
  BY <1>1, <1>2, <1>3, SameTx

(* The actions of the connection, with the two generators as one. *)
LEMMA NextCases ==
  ASSUME [Next]_vars
  PROVE  \/ \E kind \in Kinds : \E len \in ReqLen[kind] : Generate(kind, len)
         \/ TxWrite \/ TxCbPartial \/ TxCbFire \/ TxCbEnd
         \/ Elsewhere
BY DEF Next, SyntheticSend, MemcacheSend, Thread, TxStep, Elsewhere

(* Every step keeps the accounting of what has been sent.                  *)
LEMMA TxPreserved ==
  ASSUME TypeOK, TxInv, Control, [Next]_vars
  PROVE  TxInv'
<1>1. CASE \E kind \in Kinds : \E len \in ReqLen[kind] : Generate(kind, len)
  BY <1>1, GenerateTx, Zenon
<1> QED
  BY <1>1, NextCases, WriteTx, PartialTx, FireTx, EndTx, ElsewhereTx, Zenon

-----------------------------------------------------------------------------
(* The receiving side. *)

(* The callback loop of rx() has an entry to visit. *)
LEMMA RxVisits ==
  ASSUME TypeOK, Visiting(rx_cbs)
  PROVE  /\ drop + 1 \in 1 .. Len(rx_cbs) /\ drop \in 0 .. Len(rx_cbs)
         /\ rx_cbs \in Seq(RxEntry) /\ rx_cbs[drop + 1] \in RxEntry
         /\ rx_cbs[drop + 1].id \in Ids /\ rx_cbs[drop + 1].hdrlen \in {0, HdrLen}
         /\ rx_cbs[drop + 1].hdrlen \in Nat /\ rx_cbs[drop + 1].bodylen \in Nat
<1>1. drop + 1 \in 1 .. Len(rx_cbs) /\ drop \in 0 .. Len(rx_cbs)
  BY DEF TypeOK, Visiting
<1>2. rx_cbs \in Seq(RxEntry)
  BY DEF TypeOK, RxEntry
<1>3. rx_cbs[drop + 1] \in RxEntry
  BY <1>1, <1>2, ElementOfSeq, Zenon
<1>4. rx_cbs[drop + 1].id \in Ids /\ rx_cbs[drop + 1].hdrlen \in {0, HdrLen} /\ rx_cbs[drop + 1].bodylen \in Nat
  BY <1>3 DEF RxEntry
<1> QED
  BY <1>1, <1>2, <1>3, <1>4, SizesAssumption

(* rx_cbs_ after the header of an entry has been handed over. *)
LEMMA HdrCbs ==
  ASSUME TypeOK, NEW body \in Nat, Visiting(rx_cbs),
         rx_cbs' = [rx_cbs EXCEPT ![drop + 1].hdrlen = 0, ![drop + 1].bodylen = body]
  PROVE  /\ rx_cbs' \in Seq(RxEntry) /\ Len(rx_cbs') = Len(rx_cbs)
         /\ rx_cbs'[drop + 1] = [id |-> rx_cbs[drop + 1].id, hdrlen |-> 0, bodylen |-> body]
         /\ \A j \in 1 .. Len(rx_cbs) : j # drop + 1 => rx_cbs'[j] = rx_cbs[j]
<1> DEFINE k == drop + 1
           e == [id |-> rx_cbs[k].id, hdrlen |-> 0, bodylen |-> body]
<1>1. k \in 1 .. Len(rx_cbs) /\ rx_cbs \in Seq(RxEntry) /\ rx_cbs[k].id \in Ids
  BY RxVisits, Zenon
<1>2. e \in RxEntry
  BY <1>1 DEF RxEntry
<1>3. rx_cbs' = [rx_cbs EXCEPT ![k] = e]
  <2>1. rx_cbs \in Seq([id : Ids, hdrlen : {0, HdrLen}, bodylen : Nat])
    BY <1>1 DEF RxEntry
  <2>2. [rx_cbs EXCEPT ![k].hdrlen = 0, ![k].bodylen = body] = [rx_cbs EXCEPT ![k] = e]
    BY <1>1, <2>1, RxUpdateBoth, ZenonT(40)
  <2> QED
    BY <2>2, Zenon
<1> HIDE DEF e, k
<1> DEFINE s == [rx_cbs EXCEPT ![k] = e]
<1>4. /\ s \in Seq(RxEntry) /\ Len(s) = Len(rx_cbs) /\ s[k] = e
      /\ \A j \in 1 .. Len(rx_cbs) : j # k => s[j] = rx_cbs[j]
  BY <1>1, <1>2, ReplaceSeq
<1> QED
  BY <1>3, <1>4, Zenon DEF e, k

(* rx_cbs_ after some or all of a body. *)
LEMMA BodyCbs ==
  ASSUME TypeOK, NEW body \in Nat, Visiting(rx_cbs)
  PROVE  LET s == [rx_cbs EXCEPT ![drop + 1].bodylen = body] IN
         /\ s \in Seq(RxEntry) /\ Len(s) = Len(rx_cbs)
         /\ s[drop + 1] = [id |-> rx_cbs[drop + 1].id, hdrlen |-> rx_cbs[drop + 1].hdrlen,
                           bodylen |-> body]
         /\ \A j \in 1 .. Len(rx_cbs) : j # drop + 1 => s[j] = rx_cbs[j]
<1> DEFINE k == drop + 1
           e == [id |-> rx_cbs[k].id, hdrlen |-> rx_cbs[k].hdrlen, bodylen |-> body]
           s == [rx_cbs EXCEPT ![k] = e]
<1>1. k \in 1 .. Len(rx_cbs) /\ rx_cbs \in Seq(RxEntry) /\ rx_cbs[k] \in RxEntry
  BY RxVisits, Zenon
<1>2. e \in RxEntry
  <2>1. rx_cbs[k].id \in Ids /\ rx_cbs[k].hdrlen \in {0, HdrLen}
    BY RxVisits, Zenon
  <2> QED
    BY <2>1 DEF RxEntry
<1>3. [rx_cbs EXCEPT ![k].bodylen = body] = s
  <2>1. ASSUME NEW r, r \in RxEntry
        PROVE  [r EXCEPT !.bodylen = body] = [id |-> r.id, hdrlen |-> r.hdrlen, bodylen |-> body]
    BY <2>1 DEF RxEntry
  <2>2. [rx_cbs[k] EXCEPT !.bodylen = body] = e
    BY <1>1, <2>1, Zenon
  <2>3. [rx_cbs EXCEPT ![k].bodylen = body] = [rx_cbs EXCEPT ![k] = [rx_cbs[k] EXCEPT !.bodylen = body]]
    BY Zenon
  <2> HIDE DEF e, k
  <2> QED
    BY <2>2, <2>3, Zenon
<1> HIDE DEF e, k
<1>4. /\ s \in Seq(RxEntry) /\ Len(s) = Len(rx_cbs) /\ s[k] = e
      /\ \A j \in 1 .. Len(rx_cbs) : j # k => s[j] = rx_cbs[j]
  BY <1>1, <1>2, ReplaceSeq
<1> HIDE DEF s
<1> QED
  BY <1>3, <1>4, Zenon DEF e, k

(* rx_cbs_ once the loop has left it, at an entry that stays. *)
LEMMA LeaveRx ==
  ASSUME TypeOK, NEW s \in Seq(RxEntry), Len(s) = Len(rx_cbs), drop <= Len(rx_cbs),
         rx_cbs' = Remaining(s)
  PROVE  /\ rx_cbs' \in Seq(RxEntry) /\ Len(rx_cbs') = Len(rx_cbs) - drop
         /\ \A j \in 1 .. Len(rx_cbs') : rx_cbs'[j] = s[drop + j]
<1>1. drop \in 0 .. Len(s) /\ Len(rx_cbs) \in Nat
  BY DEF TypeOK
<1>2. /\ rx_cbs' \in Seq(RxEntry) /\ Len(rx_cbs') = Len(s) - drop
      /\ \A i \in 1 .. Len(s) - drop : rx_cbs'[i] = s[drop + i]
  BY <1>1, RemainingSeq, Zenon
<1> QED
  BY <1>1, <1>2

(* A header gives a body a length. *)
LEMMA ParsedNat ==
  ASSUME TypeOK, NEW id, NEW body \in ParsedBodies(id)
  PROVE  body \in Nat
<1>1. ASSUME NEW i \in DOMAIN resps PROVE resps[i].body \in Nat
  <2>1. resps[i] \in [start : Nat, body : Nat]
    <3>1. resps \in Seq([start : Nat, body : Nat])
      BY DEF TypeOK
    <3>2. i \in 1 .. Len(resps)
      BY <3>1
    <3> QED
      BY <3>1, <3>2, ElementOfSeq, Zenon
  <2> QED
    BY <2>1
<1>2. ASSUME NEW b \in HeaderHolds PROVE b \in Nat
  BY <1>1, SizesAssumption DEF HeaderHolds
<1>3. CASE FirstSegment < BodyLenEnd
  <2>1. FirstSegment \in 1 .. CHARBUF_SIZE
    <3>1. rpos \in Nat /\ CHARBUF_SIZE \in Nat \ {0}
      BY SizesAssumption DEF TypeOK
    <3>2. rpos % CHARBUF_SIZE \in 0 .. CHARBUF_SIZE - 1
      BY <3>1
    <3> QED
      BY <3>1, <3>2 DEF FirstSegment
  <2> DEFINE unit == LowBytes[BodyLenEnd - FirstSegment]
  <2>2. unit \in Nat \ {0}
    <3>1. BodyLenEnd \in Nat /\ CHARBUF_SIZE \in Nat
      BY SizesAssumption
    <3>2. BodyLenEnd - FirstSegment \in 1 .. BodyLenEnd
      BY <1>3, <2>1, <3>1
    <3> QED
      BY <3>2, SizesAssumption
  <2>3. ASSUME NEW b \in Nat PROVE b - (b % unit) \in Nat
    <3> HIDE DEF unit
    <3>1. b % unit \in Nat /\ b % unit <= b
      BY <2>2
    <3> QED
      BY <3>1
  <2>4. reqs[id].kind = "get" => \E b \in HeaderHolds : body = b - (b % unit)
    BY <1>3 DEF ParsedBodies, HeaderSays
  <2>5. reqs[id].kind # "get" => body = 0
    BY DEF ParsedBodies
  <2> HIDE DEF unit
  <2> QED
    BY <1>2, <2>3, <2>4, <2>5
<1>4. CASE ~ (FirstSegment < BodyLenEnd)
  BY <1>2, <1>4 DEF ParsedBodies, HeaderSays
<1> QED
  BY <1>3, <1>4

(* What the callback loop does at a header, at part of a body and at the   *)
(* end of one.                                                             *)
LEMMA HdrEffect ==
  ASSUME TypeOK, Control, RxHdr
  PROVE  /\ pc = "rxcb" /\ err = "none" /\ Visiting(rx_cbs)
         /\ drop' = drop /\ after' = after /\ nbytes' = nbytes
         /\ rx_cbs[drop + 1].hdrlen \in 1 .. rbuf /\ rx_cbs[drop + 1].hdrlen = HdrLen
         /\ rbuf' = rbuf - HdrLen /\ rpos' = rpos + HdrLen
         /\ UNCHANGED <<sockvars, txvars, loopvars, farvars, kvars>>
         /\ rx_cbs' \in Seq(RxEntry) /\ Len(rx_cbs') = Len(rx_cbs)
         /\ \E body \in ParsedBodies(rx_cbs[drop + 1].id) :
              rx_cbs'[drop + 1] = [id |-> rx_cbs[drop + 1].id, hdrlen |-> 0, bodylen |-> body]
         /\ \A j \in 1 .. Len(rx_cbs) : j # drop + 1 => rx_cbs'[j] = rx_cbs[j]
<1>1. pc = "rxcb" /\ Visiting(rx_cbs) /\ UNCHANGED <<sockvars, txvars, loopvars, after, farvars, kvars>>
  BY Zenon DEF RxHdr
<1>2. drop' = drop /\ nbytes' = nbytes
  BY <1>1 DEF loopvars
<1>3. err = "none"
  BY <1>1 DEF Control
<1>4. rx_cbs[drop + 1].hdrlen \in 1 .. rbuf /\ rx_cbs[drop + 1].hdrlen = HdrLen
  <2>1. rx_cbs[drop + 1].hdrlen \in {0, HdrLen} /\ rx_cbs[drop + 1].hdrlen \in 1 .. rbuf /\ rbuf \in Nat
    <3>1. rx_cbs[drop + 1].hdrlen \in {0, HdrLen}
      BY <1>1, RxVisits, Zenon
    <3>2. rx_cbs[drop + 1].hdrlen \in 1 .. rbuf
      BY Zenon DEF RxHdr
    <3> QED
      BY <3>1, <3>2 DEF TypeOK
  <2> QED
    BY <2>1
<1>5. rbuf' = rbuf - HdrLen /\ rpos' = rpos + HdrLen
  BY <1>4 DEF RxHdr
<1>6. PICK body \in ParsedBodies(rx_cbs[drop + 1].id) :
       rx_cbs' = [rx_cbs EXCEPT ![drop + 1].hdrlen = 0, ![drop + 1].bodylen = body]
  BY Zenon DEF RxHdr
<1>7. body \in Nat
  BY ParsedNat, Zenon
<1>8. /\ rx_cbs' \in Seq(RxEntry) /\ Len(rx_cbs') = Len(rx_cbs)
      /\ rx_cbs'[drop + 1] = [id |-> rx_cbs[drop + 1].id, hdrlen |-> 0, bodylen |-> body]
      /\ \A j \in 1 .. Len(rx_cbs) : j # drop + 1 => rx_cbs'[j] = rx_cbs[j]
  BY <1>1, <1>6, <1>7, HdrCbs, Zenon
<1> QED
  BY <1>1, <1>2, <1>3, <1>4, <1>5, <1>8, Zenon

(* What rx() does when the rest of a body is in rbuf_: it drops the bytes  *)
(* and goes on to the next entry.                                          *)
LEMMA BodyEffect ==
  ASSUME TypeOK, Control, RxBody
  PROVE  /\ pc = "rxcb" /\ err = "none" /\ Visiting(rx_cbs)
         /\ rx_cbs[drop + 1].hdrlen = 0 /\ rx_cbs[drop + 1].bodylen \in 0 .. rbuf
         /\ rpos' = rpos + rx_cbs[drop + 1].bodylen
         /\ rbuf' = rbuf - rx_cbs[drop + 1].bodylen
         /\ drop' = drop + 1
         /\ UNCHANGED <<sockvars, requests, done, txvars, nbytes, pc, after, farvars, err,
                        kvars>>
         /\ rx_cbs' \in Seq(RxEntry) /\ Len(rx_cbs') = Len(rx_cbs)
         /\ rx_cbs'[drop + 1] = [id |-> rx_cbs[drop + 1].id, hdrlen |-> 0, bodylen |-> 0]
         /\ \A j \in 1 .. Len(rx_cbs) : j # drop + 1 => rx_cbs'[j] = rx_cbs[j]
<1>1. /\ pc = "rxcb" /\ Visiting(rx_cbs)
      /\ rx_cbs[drop + 1].hdrlen = 0 /\ rx_cbs[drop + 1].bodylen <= rbuf
      /\ rpos' = rpos + rx_cbs[drop + 1].bodylen
      /\ rbuf' = rbuf - rx_cbs[drop + 1].bodylen
      /\ rx_cbs' = [rx_cbs EXCEPT ![drop + 1].bodylen = 0]
      /\ drop' = drop + 1
      /\ UNCHANGED <<sockvars, requests, done, txvars, nbytes, pc, after, farvars, err,
                     kvars>>
  BY Zenon DEF RxBody
<1>2. err = "none"
  BY <1>1 DEF Control
<1>3. rx_cbs[drop + 1].bodylen \in 0 .. rbuf
  <2>1. rx_cbs[drop + 1].bodylen \in Nat /\ rbuf \in Nat
    <3>1. rx_cbs[drop + 1].bodylen \in Nat
      BY <1>1, RxVisits, Zenon
    <3> QED
      BY <3>1 DEF TypeOK
  <2> QED
    BY <1>1, <2>1
<1>4. 0 \in Nat
  OBVIOUS
<1>5. /\ rx_cbs' \in Seq(RxEntry) /\ Len(rx_cbs') = Len(rx_cbs)
      /\ rx_cbs'[drop + 1] = [id |-> rx_cbs[drop + 1].id, hdrlen |-> rx_cbs[drop + 1].hdrlen, bodylen |-> 0]
      /\ \A j \in 1 .. Len(rx_cbs) : j # drop + 1 => rx_cbs'[j] = rx_cbs[j]
  BY <1>1, <1>4, BodyCbs
<1> QED
  BY <1>1, <1>2, <1>3, <1>5, Zenon

-----------------------------------------------------------------------------
(* Where the thread is. *)

(* Every step keeps the control flow invariant: in particular no callback  *)
(* loop runs past the end of its queue.                                    *)
LEMMA ControlPreserved ==
  ASSUME TypeOK, Control, [Next]_vars
  PROVE  Control'
<1>0. /\ Len(rx_cbs) \in Nat /\ Len(tx_cbs) \in Nat /\ drop \in Nat /\ Len(reqs) \in Nat
      /\ after \in {"idle", "read", "out"} /\ MAX_OUTSTANDING_REQS \in Nat
      /\ Len(rx_cbs) <= MAX_OUTSTANDING_REQS
      /\ pc \in Points
  BY SizesAssumption, SMTT(30) DEF TypeOK
<1>1. ASSUME NEW kind \in Kinds, NEW len \in ReqLen[kind], Generate(kind, len)
      PROVE  Control'
  <2>1. CASE err' # "none"
    <3>1. pc = "idle" /\ pc' = "dead" /\ UNCHANGED <<nbytes, drop, after, reqs>>
      BY <1>1, <2>1 DEF Generate, Control, Throw, loopvars
    <3> QED
      BY <2>1, <3>1 DEF Control
  <2>2. CASE err' = "none"
    <3>1. /\ pc' \in {"tx", "read"} /\ after' = "read" /\ nbytes' = 0 /\ drop' = 0
          /\ reqs' = Append(reqs, [end |-> Written + len, kind |-> kind])
      BY <1>1, <2>2, GenerateEffect, Zenon DEF loopvars
    <3>2. Len(reqs') > 0
      BY <1>0, <3>1 DEF TypeOK
    <3> QED
      BY <2>2, <3>1, <3>2 DEF Control
  <2> QED
    BY <2>1, <2>2
<1>2. CASE Connect \/ SockRead \/ EpollWait \/ RunIo \/ RunOut \/ UNCHANGED vars
  <2>1. CASE Connect
    BY <2>1, <1>0 DEF Connect, loopvars, Throw, Control, farvars
  <2>2. CASE SockRead
    BY <2>2, <1>0 DEF SockRead, loopvars, Throw, Control, farvars
  <2>3. CASE EpollWait
    BY <2>3, <1>0 DEF EpollWait, loopvars, Control, txvars
  <2>4. CASE RunIo
    BY <2>4, <1>0 DEF RunIo, loopvars, Control, AfterIn
  <2>5. CASE RunOut
    BY <2>5, <1>0 DEF RunOut, loopvars, Throw, Control, farvars
  <2>6. CASE UNCHANGED vars
    BY <2>6 DEF vars, loopvars, txvars, rxvars, Control
  <2> QED
    BY <1>2, <2>1, <2>2, <2>3, <2>4, <2>5, <2>6
<1>3. CASE TxReturn \/ TxAgain \/ TxError \/ TxWrite
  BY <1>3, <1>0 DEF TxReturn, TxAgain, TxError, TxWrite, loopvars, Throw, Control, farvars, txvars
<1>4. CASE TxCbPartial \/ TxCbEnd
  BY <1>4, <1>0 DEF TxCbPartial, TxCbEnd, Control, farvars
<1>5. CASE TxCbFire
  BY <1>5, <1>0 DEF TxCbFire, Visiting, Control, farvars
<1>6. CASE RxReturn \/ RxFull \/ RxAgain \/ RxError \/ RxRead
  BY <1>6, <1>0 DEF RxReturn, RxFull, RxAgain, RxError, RxRead, loopvars, Throw, Control,
     farvars, rxvars
<1>7. CASE RxHdrPartial \/ RxBodyPartial \/ RxCbEnd
  BY <1>7, <1>0 DEF RxHdrPartial, RxBodyPartial, RxCbEnd, RxTurn, Control, farvars
<1>8. CASE RxHdr \/ RxBody
  <2>1. Len(rx_cbs') = Len(rx_cbs) /\ Visiting(rx_cbs)
    BY <1>8, HdrEffect, BodyEffect, Zenon
  <2>2. CASE RxBody
    BY <2>1, <2>2, <1>0 DEF RxBody, Visiting, Control, farvars
  <2>3. CASE RxHdr
    <3>1. /\ pc = "rxcb" /\ err = "none" /\ UNCHANGED <<nbytes, drop, after, reqs>>
      BY <2>3, HdrEffect DEF farvars
    <3>2. UNCHANGED <<pc, err>> \/ (pc' = "dead" /\ err' # "none")
      <4>1. recv_response(rx_cbs[drop + 1].id)
        BY <2>3, Zenon DEF RxHdr
      <4>2. UNCHANGED <<pc, err>> \/ Throw("mismatch") \/ Throw("early") \/ Throw("overrun")
        BY <4>1, Zenon DEF recv_response
      <4> QED
        BY <4>2 DEF Throw
    <3> QED
      BY <2>1, <3>1, <3>2, <1>0 DEF Control, Visiting
  <2> QED
    BY <1>8, <2>2, <2>3
<1>9. CASE Environment
  BY <1>9 DEF Environment, ConnectDone, Deliver, Answer, Arrive, PeerClose, clientvars,
     loopvars, Control, txvars, rxvars
<1> QED
  BY <1>1, <1>2, <1>3, <1>4, <1>5, <1>6, <1>7, <1>8, <1>9, NextCases DEF Elsewhere, RxStep

-----------------------------------------------------------------------------
(* Types. *)

(* recv_response throws, or takes the oldest request. *)
LEMMA RecvEffect ==
  ASSUME RxHdr
  PROVE  \/ /\ requests = << >> \/ Head(requests) # rx_cbs[drop + 1].id
            /\ err' = "mismatch" /\ pc' = "dead" /\ UNCHANGED <<requests, done>>
         \/ /\ requests # << >> /\ Head(requests) = rx_cbs[drop + 1].id
            /\ \A i \in DOMAIN sent : sent[i] # rx_cbs[drop + 1].id
            /\ err' = "early" /\ pc' = "dead" /\ UNCHANGED <<requests, done>>
         \/ /\ Overruns(rx_cbs[drop + 1].id)
            /\ err' = "overrun" /\ pc' = "dead" /\ UNCHANGED <<requests, done>>
         \/ /\ requests # << >> /\ Head(requests) = rx_cbs[drop + 1].id
            /\ \E i \in DOMAIN sent : sent[i] = rx_cbs[drop + 1].id
            /\ requests' = Tail(requests)
            /\ done' = Append(done, rx_cbs[drop + 1].id)
            /\ UNCHANGED <<pc, err>>
BY Zenon DEF RxHdr, recv_response, Throw

(* rx_cbs_ and the counters of a body that is not all there. *)
LEMMA BodyPartialEffect ==
  ASSUME TypeOK, Control, RxBodyPartial
  PROVE  /\ pc = "rxcb" /\ pc' = "rx" /\ err = "none" /\ Visiting(rx_cbs)
         /\ rx_cbs[drop + 1].hdrlen = 0 /\ rx_cbs[drop + 1].bodylen > rbuf
         /\ rpos' = rpos + rbuf /\ rbuf' = 0 /\ drop' = 0
         /\ UNCHANGED <<sockvars, requests, done, txvars, nbytes, after, farvars, err, kvars>>
         /\ rx_cbs' \in Seq(RxEntry) /\ Len(rx_cbs') = Len(rx_cbs) - drop
         /\ rx_cbs'[1] = [id |-> rx_cbs[drop + 1].id, hdrlen |-> 0,
                          bodylen |-> rx_cbs[drop + 1].bodylen - rbuf]
         /\ \A j \in 2 .. Len(rx_cbs') : rx_cbs'[j] = rx_cbs[drop + j]
<1> DEFINE b == rx_cbs[drop + 1].bodylen - rbuf
           s == [rx_cbs EXCEPT ![drop + 1].bodylen = b]
<1>1. /\ pc = "rxcb" /\ pc' = "rx" /\ Visiting(rx_cbs)
      /\ rx_cbs[drop + 1].hdrlen = 0 /\ rx_cbs[drop + 1].bodylen > rbuf
      /\ rpos' = rpos + rbuf /\ rbuf' = 0 /\ drop' = 0
      /\ rx_cbs' = Remaining(s)
      /\ UNCHANGED <<sockvars, requests, done, txvars, nbytes, after, farvars, err, kvars>>
  BY Zenon DEF RxBodyPartial, BodyLeft
<1>2. err = "none"
  BY <1>1 DEF Control
<1>3. b \in Nat
  <2>1. rx_cbs[drop + 1].bodylen \in Nat
    BY <1>1, RxVisits, Zenon
  <2>2. rbuf \in Nat
    BY DEF TypeOK
  <2> QED
    BY <1>1, <2>1, <2>2
<1> HIDE DEF b
<1>4. /\ s \in Seq(RxEntry) /\ Len(s) = Len(rx_cbs)
      /\ s[drop + 1] = [id |-> rx_cbs[drop + 1].id, hdrlen |-> rx_cbs[drop + 1].hdrlen,
                        bodylen |-> b]
      /\ \A j \in 1 .. Len(rx_cbs) : j # drop + 1 => s[j] = rx_cbs[j]
  BY <1>1, <1>3, BodyCbs
<1> HIDE DEF s
<1>5. drop + 1 \in 1 .. Len(rx_cbs) /\ drop \in Nat /\ drop <= Len(rx_cbs) /\ Len(rx_cbs) \in Nat
  <2>1. drop + 1 \in 1 .. Len(rx_cbs) /\ rx_cbs \in Seq(RxEntry) /\ drop \in 0 .. Len(rx_cbs)
    BY <1>1, RxVisits, Zenon
  <2> QED
    BY <2>1
<1>6. /\ rx_cbs' \in Seq(RxEntry) /\ Len(rx_cbs') = Len(rx_cbs) - drop
      /\ \A j \in 1 .. Len(rx_cbs') : rx_cbs'[j] = s[drop + j]
  BY <1>1, <1>4, <1>5, LeaveRx, Zenon
<1>7. rx_cbs'[1] = s[drop + 1]
  BY <1>5, <1>6
<1>8. \A j \in 2 .. Len(rx_cbs') : rx_cbs'[j] = rx_cbs[drop + j]
  <2> SUFFICES ASSUME NEW j \in 2 .. Len(rx_cbs') PROVE rx_cbs'[j] = rx_cbs[drop + j]
    OBVIOUS
  <2>1. j \in 1 .. Len(rx_cbs') /\ drop + j \in 1 .. Len(rx_cbs) /\ drop + j # drop + 1
    BY <1>5, <1>6
  <2> QED
    BY <1>4, <1>6, <2>1, Zenon
<1> QED
  BY <1>1, <1>2, <1>4, <1>6, <1>7, <1>8, Zenon DEF b

(* rx_cbs_ when the loop leaves it as it is. *)
LEMMA LeaveEffect ==
  ASSUME TypeOK, Control, RxHdrPartial \/ RxCbEnd
  PROVE  /\ pc = "rxcb" /\ pc' = "rx" /\ err = "none" /\ drop' = 0
         /\ UNCHANGED <<sockvars, rbuf, rpos, requests, done, txvars, nbytes, after, farvars,
                        err, kvars>>
         /\ drop \in 0 .. Len(rx_cbs)
         /\ rx_cbs' \in Seq(RxEntry) /\ Len(rx_cbs') = Len(rx_cbs) - drop
         /\ \A j \in 1 .. Len(rx_cbs') : rx_cbs'[j] = rx_cbs[drop + j]
<1>1. /\ pc = "rxcb" /\ pc' = "rx" /\ drop' = 0 /\ rx_cbs' = Remaining(rx_cbs)
      /\ UNCHANGED <<sockvars, rbuf, rpos, requests, done, txvars, nbytes, after, farvars,
                     err, kvars>>
  BY Zenon DEF RxHdrPartial, RxCbEnd, RxTurn
<1>2. err = "none" /\ drop <= Len(rx_cbs)
  BY <1>1 DEF Control
<1>3. rx_cbs \in Seq(RxEntry) /\ Len(rx_cbs) = Len(rx_cbs) /\ drop \in Nat
  BY DEF TypeOK, RxEntry
<1>4. drop \in 0 .. Len(rx_cbs)
  BY <1>2, <1>3
<1>5. /\ rx_cbs' \in Seq(RxEntry) /\ Len(rx_cbs') = Len(rx_cbs) - drop
      /\ \A j \in 1 .. Len(rx_cbs') : rx_cbs'[j] = rx_cbs[drop + j]
  BY <1>1, <1>2, <1>3, LeaveRx, Zenon
<1> QED
  BY <1>1, <1>2, <1>4, <1>5, Zenon

(* Every step leaves rx_cbs_, rbuf_ and the stream of responses well typed *)
(* and within their limits.                                                *)
LEMMA RxTypesPreserved ==
  ASSUME TypeOK, Control, [Next]_vars
  PROVE  RxTypes'
<1>0. RxTypes /\ MAX_OUTSTANDING_REQS \in Nat /\ CHARBUF_SIZE \in Nat /\ HdrLen \in Nat
  BY TypeParts, SizesAssumption
<1>1. ASSUME NEW kind \in Kinds, NEW len \in ReqLen[kind], Generate(kind, len)
      PROVE  RxTypes'
  <2>1. UNCHANGED <<rx_cbs, rbuf, krcv, rnet, resps, rpos, done>>
    BY <1>1 DEF Generate, kvars, netvars
  <2>2. requests' \in Seq(Ids) /\ Len(requests') <= MAX_OUTSTANDING_REQS
    <3>1. CASE err' # "none"
      <4>1. requests' = requests
        BY <1>1, <3>1 DEF Generate, Control
      <4> QED
        BY <1>0, <4>1 DEF RxTypes
    <3>2. CASE err' = "none"
      <4>1. /\ requests' = Append(requests, Len(reqs) + 1) /\ Len(reqs) + 1 \in Ids
            /\ Len(requests) < MAX_OUTSTANDING_REQS
        BY <1>1, <3>2, GenerateEffect, Zenon
      <4>2. requests \in Seq(Ids)
        BY <1>0 DEF RxTypes
      <4> QED
        BY <1>0, <4>1, <4>2
    <3> QED
      BY <3>1, <3>2
  <2> QED
    BY <1>0, <2>1, <2>2 DEF RxTypes
<1>2. CASE SockRead
  <2>1. UNCHANGED <<requests, rbuf, krcv, rnet, resps, rpos, done>>
    BY <1>2 DEF SockRead, kvars, netvars, farvars
  <2>2. rx_cbs' \in Seq(RxEntry) /\ Len(rx_cbs') <= MAX_OUTSTANDING_REQS
    <3>1. CASE rx_cbs' = rx_cbs
      BY <1>0, <3>1 DEF RxTypes
    <3>2. CASE rx_cbs' # rx_cbs
      <4>1. /\ rx_cbs' = Append(rx_cbs, [id |-> Len(reqs), hdrlen |-> HdrLen, bodylen |-> 0])
            /\ Len(rx_cbs) < MAX_OUTSTANDING_REQS
        BY <1>2, <3>2 DEF SockRead
      <4>2. Len(reqs) \in Ids
        BY <1>2, SizesAssumption DEF SockRead, Control, TypeOK, Ids
      <4>3. [id |-> Len(reqs), hdrlen |-> HdrLen, bodylen |-> 0] \in RxEntry
        BY <4>2 DEF RxEntry
      <4> DEFINE e == [id |-> Len(reqs), hdrlen |-> HdrLen, bodylen |-> 0]
      <4> HIDE DEF e
      <4>4. rx_cbs \in Seq(RxEntry) /\ e \in RxEntry
        BY <1>0, <4>3 DEF RxTypes, e
      <4>5. Append(rx_cbs, e) \in Seq(RxEntry) /\ Len(Append(rx_cbs, e)) = Len(rx_cbs) + 1
        BY <4>4, AppendSeq
      <4>6. Len(rx_cbs) \in Nat
        BY <4>4
      <4> QED
        BY <1>0, <4>1, <4>5, <4>6 DEF e
    <3> QED
      BY <3>1, <3>2
  <2> QED
    BY <1>0, <2>1, <2>2 DEF RxTypes
<1>3. CASE Connect \/ EpollWait \/ RunIo \/ RunOut \/ TxStep \/ RxReturn \/ RxFull \/ RxAgain \/ RxError \/ UNCHANGED vars
  <2>1. UNCHANGED <<rx_cbs, rbuf, krcv, rnet, resps, rpos, done, requests>>
    <3>1. CASE Connect \/ EpollWait \/ RunIo \/ RunOut \/ UNCHANGED vars
      BY <3>1 DEF Connect, EpollWait, RunIo, RunOut, vars, rxvars, kvars, netvars, farvars
    <3>2. CASE TxStep
      BY <3>2 DEF TxStep, TxReturn, TxAgain, TxWrite, TxError, TxCbPartial, TxCbFire, TxCbEnd,
                  rxvars, kvars, netvars, farvars
    <3>3. CASE RxReturn \/ RxFull \/ RxAgain \/ RxError
      BY <3>3 DEF RxReturn, RxFull, RxAgain, RxError, rxvars, kvars, netvars, farvars
    <3> QED
      BY <1>3, <3>1, <3>2, <3>3
  <2> QED
    BY <1>0, <2>1 DEF RxTypes
<1>4. CASE RxRead
  <2>1. UNCHANGED <<rx_cbs, rnet, resps, rpos, done, requests>>
    BY <1>4 DEF RxRead, netvars, farvars
  <2>2. rbuf' \in 0 .. CHARBUF_SIZE /\ krcv' \in Nat
    <3>1. rbuf \in Nat /\ krcv \in Nat
      BY DEF TypeOK
    <3> QED
      BY <1>0, <1>4, <3>1 DEF RxRead, Smaller, RxSpace
  <2> QED
    BY <1>0, <2>1, <2>2 DEF RxTypes
<1>5. CASE RxHdrPartial \/ RxCbEnd
  <2>1. /\ rx_cbs' \in Seq(RxEntry) /\ Len(rx_cbs') = Len(rx_cbs) - drop /\ drop \in 0 .. Len(rx_cbs)
        /\ UNCHANGED <<rbuf, rpos, requests, done, farvars, kvars>>
    BY <1>5, LeaveEffect, Zenon
  <2>2. UNCHANGED <<krcv, rnet, resps>>
    BY <2>1 DEF farvars, kvars, netvars
  <2>3. Len(rx_cbs') <= MAX_OUTSTANDING_REQS
    <3>1. Len(rx_cbs) \in Nat /\ Len(rx_cbs) <= MAX_OUTSTANDING_REQS
      BY <1>0 DEF RxTypes
    <3> QED
      BY <1>0, <2>1, <3>1
  <2> QED
    BY <1>0, <2>1, <2>2, <2>3 DEF RxTypes
<1>6. CASE RxHdr
  <2>1. /\ rbuf' = rbuf - HdrLen /\ rpos' = rpos + HdrLen
        /\ rx_cbs[drop + 1].hdrlen \in 1 .. rbuf /\ rx_cbs[drop + 1].hdrlen = HdrLen
        /\ rx_cbs' \in Seq(RxEntry) /\ Len(rx_cbs') = Len(rx_cbs)
        /\ UNCHANGED <<farvars, kvars>>
        /\ Visiting(rx_cbs)
    BY <1>6, HdrEffect, Zenon
  <2>2. UNCHANGED <<krcv, rnet, resps>>
    BY <2>1 DEF farvars, kvars, netvars
  <2>3. rbuf' \in 0 .. CHARBUF_SIZE /\ rpos' \in Nat
    BY <1>0, <2>1 DEF RxTypes
  <2>4. /\ requests' \in Seq(Ids) /\ Len(requests') <= MAX_OUTSTANDING_REQS
        /\ done' \in Seq(Ids)
    <3>1. requests \in Seq(Ids) /\ done \in Seq(Ids) /\ Len(requests) <= MAX_OUTSTANDING_REQS
      BY <1>0 DEF RxTypes
    <3>2. rx_cbs[drop + 1].id \in Ids
      BY <2>1, RxVisits, Zenon
    <3>3. CASE UNCHANGED <<requests, done>>
      BY <3>1, <3>3
    <3>4. CASE requests # << >> /\ requests' = Tail(requests) /\ done' = Append(done, rx_cbs[drop + 1].id)
      <4>1. Tail(requests) \in Seq(Ids) /\ Len(Tail(requests)) = Len(requests) - 1 /\ Len(requests) \in Nat
        BY <3>1, <3>4
      <4>2. done' \in Seq(Ids)
        BY <3>1, <3>2, <3>4, AppendSeq, Zenon
      <4> QED
        BY <1>0, <3>1, <3>4, <4>1, <4>2
    <3> QED
      BY <1>6, <3>3, <3>4, RecvEffect, Zenon
  <2> QED
    BY <1>0, <2>1, <2>2, <2>3, <2>4 DEF RxTypes
<1>7. CASE RxBodyPartial
  <2>1. /\ rx_cbs' \in Seq(RxEntry) /\ Len(rx_cbs') = Len(rx_cbs) - drop
        /\ rpos' = rpos + rbuf /\ rbuf' = 0 /\ Visiting(rx_cbs)
        /\ UNCHANGED <<requests, done, farvars, kvars>>
    BY <1>7, BodyPartialEffect, Zenon
  <2>2. UNCHANGED <<krcv, rnet, resps>>
    BY <2>1 DEF farvars, kvars, netvars
  <2>3. Len(rx_cbs') <= MAX_OUTSTANDING_REQS
    BY <1>0, <2>1 DEF RxTypes, TypeOK
  <2>4. rpos' \in Nat /\ rbuf' \in 0 .. CHARBUF_SIZE
    BY <1>0, <2>1 DEF RxTypes
  <2> QED
    BY <1>0, <2>1, <2>2, <2>3, <2>4 DEF RxTypes
<1>8. CASE RxBody
  <2>1. /\ rx_cbs' \in Seq(RxEntry) /\ Len(rx_cbs') = Len(rx_cbs)
        /\ rpos' = rpos + rx_cbs[drop + 1].bodylen /\ rbuf' = rbuf - rx_cbs[drop + 1].bodylen
        /\ rx_cbs[drop + 1].bodylen \in 0 .. rbuf
        /\ UNCHANGED <<requests, done, farvars, kvars>>
    BY <1>8, BodyEffect, Zenon
  <2>2. UNCHANGED <<krcv, rnet, resps>>
    BY <2>1 DEF farvars, kvars, netvars
  <2>3. rpos' \in Nat /\ rbuf' \in 0 .. CHARBUF_SIZE
    <3>1. rpos \in Nat /\ rbuf \in 0 .. CHARBUF_SIZE
      BY <1>0 DEF RxTypes
    <3> DEFINE b == rx_cbs[drop + 1].bodylen
    <3>2. b \in 0 .. rbuf /\ rpos' = rpos + b /\ rbuf' = rbuf - b
      BY <2>1
    <3> HIDE DEF b
    <3> QED
      BY <1>0, <3>1, <3>2
  <2> QED
    BY <1>0, <2>1, <2>2, <2>3 DEF RxTypes
<1>9. CASE Answer
  <2>1. UNCHANGED <<rx_cbs, rbuf, krcv, rpos, done, requests>>
    BY <1>9 DEF Answer, clientvars, rxvars, kvars
  <2>2. PICK body \in Bodies[reqs[Len(resps) + 1].kind] :
          /\ resps' = Append(resps, [start |-> Responded, body |-> body])
          /\ rnet' = rnet + HdrLen + body
    BY <1>9 DEF Answer
  <2>3. /\ resps \in Seq([start : Nat, body : Nat]) /\ rnet \in Nat
        /\ reqs \in Seq([end : Nat, kind : Kinds]) /\ Len(reqs) \in Nat /\ Len(resps) \in Nat
    BY DEF TypeOK
  <2>4. body \in Nat
    <3>1. Len(resps) + 1 \in 1 .. Len(reqs)
      BY <1>9, <2>3 DEF Answer
    <3>2. reqs[Len(resps) + 1] \in [end : Nat, kind : Kinds]
      BY <2>3, <3>1, ElementOfSeq, Zenon
    <3>3. reqs[Len(resps) + 1].kind \in Kinds
      BY <3>2
    <3> QED
      BY <3>3, KindsAssumption
  <2>5. Responded \in Nat
    <3>1. CASE resps = << >>
      BY <3>1 DEF Responded
    <3>2. CASE resps # << >>
      <4>1. Len(resps) \in 1 .. Len(resps)
        BY <2>3, <3>2
      <4>2. resps[Len(resps)] \in [start : Nat, body : Nat]
        BY <2>3, <4>1, ElementOfSeq, Zenon
      <4>3. resps[Len(resps)].start \in Nat /\ resps[Len(resps)].body \in Nat
        BY <4>2
      <4> QED
        BY <1>0, <3>2, <4>3 DEF Responded, RespEnd
    <3> QED
      BY <3>1, <3>2
  <2>6. resps' \in Seq([start : Nat, body : Nat])
    BY <2>2, <2>3, <2>4, <2>5
  <2>7. rnet' \in Nat
    BY <1>0, <2>2, <2>3, <2>4
  <2> QED
    BY <1>0, <2>1, <2>6, <2>7 DEF RxTypes
<1>10. CASE Arrive
  <2>1. UNCHANGED <<rx_cbs, rbuf, rpos, done, requests, resps>>
    BY <1>10 DEF Arrive, clientvars, rxvars
  <2>2. rnet \in Nat /\ krcv \in Nat
    BY DEF TypeOK
  <2>3. rnet' \in Nat /\ krcv' \in Nat
    BY <1>10, <2>2 DEF Arrive
  <2> QED
    BY <1>0, <2>1, <2>3 DEF RxTypes
<1>11. CASE ConnectDone \/ Deliver \/ PeerClose
  <2>1. UNCHANGED <<rx_cbs, rbuf, krcv, rnet, resps, rpos, done, requests>>
    BY <1>11 DEF ConnectDone, Deliver, PeerClose, clientvars, rxvars, netvars
  <2> QED
    BY <1>0, <2>1 DEF RxTypes
<1> QED
  BY <1>1, <1>2, <1>3, <1>4, <1>5, <1>6, <1>7, <1>8, <1>9, <1>10, <1>11, NextCases
     DEF Elsewhere, TxStep, RxStep, Environment

(* Every step leaves the flags, the control point and the epoll state well *)
(* typed.                                                                  *)
LEMMA FlagTypesPreserved ==
  ASSUME TypeOK, Control, [Next]_vars
  PROVE  FlagTypes'
<1>0. FlagTypes
  BY TypeParts
<1>1. ASSUME NEW kind \in Kinds, NEW len \in ReqLen[kind], Generate(kind, len)
      PROVE  FlagTypes'
  <2>1. pc' \in Points /\ after' \in {"idle", "read", "out"} /\ err' \in Errors
    BY <1>0, <1>1 DEF FlagTypes, Generate, Throw, Points, Errors
  <2>2. UNCHANGED <<connected, rx_rdy, tx_rdy, ev, link, edge, nospace>>
    BY <1>1 DEF Generate, sockvars, kvars
  <2> QED
    BY <1>0, <2>1, <2>2 DEF FlagTypes
<1>2. CASE Connect \/ SockRead
  <2>1. CASE Connect
    BY <1>0, <2>1 DEF FlagTypes, Connect, Throw, Points, Errors, sockvars, kvars, farvars
  <2>2. CASE SockRead
    BY <1>0, <2>2 DEF FlagTypes, SockRead, Throw, Points, Errors, sockvars, kvars, farvars
  <2> QED
    BY <1>2, <2>1, <2>2
<1>3. CASE EpollWait \/ RunIo \/ RunOut
  <2>1. CASE EpollWait
    BY <1>0, <2>1 DEF FlagTypes, EpollWait, Readiness, sockvars
  <2>2. CASE RunIo
    BY <1>0, <2>2 DEF FlagTypes, RunIo, AfterIn, Points, kvars
  <2>3. CASE RunOut
    BY <1>0, <2>3 DEF FlagTypes, RunOut, Throw, Points, Errors, kvars, farvars
  <2> QED
    BY <1>3, <2>1, <2>2, <2>3
<1>4. CASE TxReturn \/ TxAgain \/ TxWrite \/ TxError
  <2>1. CASE TxReturn
    BY <1>0, <2>1 DEF FlagTypes, TxReturn, Throw, Points, Errors, sockvars, kvars, farvars
  <2>2. CASE TxAgain
    BY <1>0, <2>2 DEF FlagTypes, TxAgain, Throw, Points, Errors, sockvars, kvars, farvars
  <2>3. CASE TxWrite
    BY <1>0, <2>3 DEF FlagTypes, TxWrite, Throw, Points, Errors, sockvars, kvars, farvars
  <2>4. CASE TxError
    BY <1>0, <2>4 DEF FlagTypes, TxError, Throw, Points, Errors, sockvars, kvars, farvars
  <2> QED
    BY <1>4, <2>1, <2>2, <2>3, <2>4
<1>5. CASE TxCbPartial \/ TxCbFire \/ TxCbEnd
  BY <1>0, <1>5 DEF FlagTypes, TxCbPartial, TxCbFire, TxCbEnd, Points, sockvars, kvars, farvars
<1>6. CASE RxReturn \/ RxFull \/ RxAgain \/ RxError \/ RxRead
  <2>1. CASE RxReturn
    BY <1>0, <2>1 DEF FlagTypes, RxReturn, Throw, Points, Errors, sockvars, kvars, farvars
  <2>2. CASE RxFull
    BY <1>0, <2>2 DEF FlagTypes, RxFull, Throw, Points, Errors, sockvars, kvars, farvars
  <2>3. CASE RxAgain
    BY <1>0, <2>3 DEF FlagTypes, RxAgain, Throw, Points, Errors, sockvars, kvars, farvars
  <2>4. CASE RxError
    BY <1>0, <2>4 DEF FlagTypes, RxError, Throw, Points, Errors, sockvars, kvars, farvars
  <2>5. CASE RxRead
    BY <1>0, <2>5 DEF FlagTypes, RxRead, Throw, Points, Errors, sockvars, kvars, farvars
  <2> QED
    BY <1>6, <2>1, <2>2, <2>3, <2>4, <2>5
<1>7. CASE RxHdrPartial \/ RxBodyPartial \/ RxBody \/ RxCbEnd
  BY <1>0, <1>7 DEF FlagTypes, RxHdrPartial, RxBodyPartial, RxBody, RxCbEnd, RxTurn, Points,
     sockvars, kvars, farvars
<1>8. CASE RxHdr
  <2>1. UNCHANGED <<connected, rx_rdy, tx_rdy, after, ev, link, edge, nospace>>
    BY <1>8 DEF RxHdr, sockvars, kvars, farvars
  <2>2. UNCHANGED <<pc, err>> \/ (pc' = "dead" /\ err' \in {"mismatch", "early", "overrun"})
    BY <1>8, RecvEffect
  <2> QED
    BY <1>0, <2>1, <2>2 DEF FlagTypes, Points, Errors
<1>9. CASE Environment
  <2>1. UNCHANGED <<connected, rx_rdy, tx_rdy, pc, after, ev, err>>
    BY <1>9 DEF Environment, ConnectDone, Deliver, Answer, Arrive, PeerClose, clientvars, sockvars
  <2>2. link' \in {"none", "connecting", "up", "refused", "closed"}
    BY <1>0, <1>9 DEF Environment, ConnectDone, Deliver, Answer, Arrive, PeerClose, FlagTypes,
       kvars, SizesAssumption
  <2>3. edge' \in BOOLEAN /\ nospace' \in BOOLEAN
    BY <1>0, <1>9 DEF Environment, ConnectDone, Deliver, Answer, Arrive, PeerClose, FlagTypes,
       kvars
  <2> QED
    BY <1>0, <2>1, <2>2, <2>3 DEF FlagTypes
<1>10. CASE UNCHANGED vars
  BY <1>0, <1>10 DEF vars, FlagTypes, sockvars, kvars
<1> QED
  BY <1>1, <1>2, <1>3, <1>4, <1>5, <1>6, <1>7, <1>8, <1>9, <1>10, NextCases
     DEF Elsewhere, RxStep

-----------------------------------------------------------------------------
(* The order in which responses are received. *)

(* What is a number on the receiving side. *)
RxNumbers ==
  /\ Len(rx_cbs) \in Nat /\ Len(requests) \in Nat /\ Len(done) \in Nat /\ Len(reqs) \in Nat
  /\ Len(sent) \in Nat /\ Len(resps) \in Nat /\ drop \in Nat
  /\ Reads \in Int /\ Gone \in Int /\ Cur \in Nat
  /\ HdrLen \in Nat /\ HdrLen > 0 /\ rbuf \in Nat /\ rpos \in Nat
  /\ rx_cbs \in Seq(RxEntry)
  /\ \A j \in 1 .. Len(rx_cbs) : rx_cbs[j].hdrlen \in Nat /\ rx_cbs[j].bodylen \in Nat

(* The counts of the receiving half are integers.                          *)
LEMMA RxAreNumbers == TypeOK => RxNumbers
<1> SUFFICES ASSUME TypeOK PROVE RxNumbers
  OBVIOUS
<1>1. /\ Len(rx_cbs) \in Nat /\ Len(requests) \in Nat /\ Len(done) \in Nat /\ Len(reqs) \in Nat
      /\ Len(sent) \in Nat /\ Len(resps) \in Nat /\ drop \in Nat /\ rbuf \in Nat /\ rpos \in Nat
      /\ rx_cbs \in Seq(RxEntry)
  BY DEF TypeOK, RxEntry
<1>2. Reads \in Int /\ Gone \in Int /\ Cur \in Nat
  BY <1>1 DEF Reads, Gone, Cur
<1>3. HdrLen \in Nat /\ HdrLen > 0
  BY SizesAssumption
<1>4. ASSUME NEW j \in 1 .. Len(rx_cbs)
      PROVE  rx_cbs[j].hdrlen \in Nat /\ rx_cbs[j].bodylen \in Nat
  <2>1. rx_cbs[j] \in RxEntry
    BY <1>1, ElementOfSeq, Zenon
  <2> QED
    BY <1>3, <2>1 DEF RxEntry
<1> QED
  BY <1>1, <1>2, <1>3, <1>4 DEF RxNumbers

(* A step that neither queues nor receives. *)
LEMMA SameRecv ==
  ASSUME TypeOK, RecvOrder, err' = "none" => err = "none",
         UNCHANGED <<rx_cbs, requests, done>>, Len(reqs') = Len(reqs),
         Reads' = Reads, Gone' = Gone, Cur' = Cur,
         Len(sent') \in Nat, Len(sent) <= Len(sent')
  PROVE  RecvOrder'
<1>1. Parsed' = Parsed
  BY DEF Parsed
<1>2. Len(done) <= Len(sent) => Len(done') <= Len(sent')
  <2>1. RxNumbers
    BY RxAreNumbers
  <2> QED
    BY <2>1 DEF RxNumbers
<1> QED
  BY <1>1, <1>2 DEF RecvOrder

(* A request is generated. *)
LEMMA GenerateRecv ==
  ASSUME TypeOK, Control, RecvOrder, NEW kind \in Kinds, NEW len \in ReqLen[kind],
         Generate(kind, len)
  PROVE  RecvOrder'
<1> SUFFICES ASSUME err' = "none" PROVE RecvOrder'
  BY DEF RecvOrder
<1>1. /\ pc = "idle" /\ pc' \in {"tx", "read"} /\ after' = "read"
      /\ reqs' = Append(reqs, [end |-> Written + len, kind |-> kind])
      /\ requests' = Append(requests, Len(reqs) + 1)
      /\ Len(reqs) + 1 \in Ids
      /\ UNCHANGED <<rx_cbs, rbuf, rpos, done, sent>>
  BY GenerateEffect, Zenon
<1>2. RxNumbers
  BY RxAreNumbers
<1>3. Len(requests) \in Nat /\ Len(done) \in Nat /\ Len(reqs) \in Nat
  BY <1>2 DEF RxNumbers
<1>4. Len(reqs') = Len(reqs) + 1
  BY <1>1 DEF TypeOK
<1>5. Reads' = Reads /\ Cur' = Cur /\ Reads = Len(reqs) /\ Gone' = Gone
  BY <1>1, <1>3, <1>4 DEF Reads, Cur, Gone, Control
<1>6. Parsed' = Parsed
  BY <1>1, <1>5 DEF Parsed
<1>7. err = "none"
  BY <1>1 DEF Control
<1>8. /\ Len(requests') = Len(requests) + 1
      /\ \A i \in 1 .. Len(requests) : requests'[i] = requests[i]
      /\ requests'[Len(requests) + 1] = Len(reqs) + 1
  BY <1>1, AppendSeq DEF TypeOK
<1>9. Len(done) + Len(requests) = Len(reqs)
  BY <1>7 DEF RecvOrder
<1>10. ASSUME NEW i \in 1 .. Len(requests') PROVE requests'[i] = Len(done) + i
  <2>1. CASE i \in 1 .. Len(requests)
    BY <1>7, <1>8, <2>1 DEF RecvOrder
  <2>2. CASE i = Len(requests) + 1
    BY <1>3, <1>8, <1>9, <2>2
  <2> QED
    BY <1>3, <1>8, <2>1, <2>2
<1>11. Len(done') + Len(requests') = Len(reqs')
  BY <1>1, <1>3, <1>4, <1>8, <1>9
<1> QED
  BY <1>1, <1>5, <1>6, <1>7, <1>10, <1>11 DEF RecvOrder

(* read() queues the request just generated. *)
LEMMA ReadRecv ==
  ASSUME TypeOK, Control, RecvOrder, SockRead
  PROVE  RecvOrder'
<1> SUFFICES ASSUME err' = "none" PROVE RecvOrder'
  BY DEF RecvOrder
<1> DEFINE e == [id |-> Len(reqs), hdrlen |-> HdrLen, bodylen |-> 0]
           n == Len(rx_cbs)
<1>1. /\ pc = "read" /\ pc' \in {"rx", "idle"} /\ after' = "idle" /\ after = "read"
      /\ UNCHANGED <<rbuf, rpos, requests, done, reqs, sent>> /\ rx_cbs' = Append(rx_cbs, e)
  BY DEF SockRead, Throw, Control, farvars, txvars
<1>2. RxNumbers /\ err = "none"
  BY <1>1, RxAreNumbers DEF Control
<1>3. n \in Nat /\ Len(reqs) \in Nat /\ HdrLen \in Nat /\ HdrLen > 0 /\ Reads \in Int
      /\ rx_cbs \in Seq(RxEntry)
  BY <1>2 DEF RxNumbers
<1>4. e \in RxEntry
  <2>1. Len(reqs) \in Ids
    BY <1>1, SizesAssumption DEF Control, TypeOK, Ids
  <2> QED
    BY <2>1 DEF RxEntry
<1>5. e.id = Len(reqs) /\ e.hdrlen = HdrLen /\ e.bodylen = 0
  OBVIOUS
<1> HIDE DEF e
<1>6. /\ Len(rx_cbs') = n + 1 /\ rx_cbs'[n + 1] = e
      /\ \A j \in 1 .. n : rx_cbs'[j] = rx_cbs[j]
  BY <1>1, <1>3, <1>4, AppendSeq
<1>7. Reads = Len(reqs) - 1 /\ Reads' = Len(reqs) /\ Cur = 1 /\ Cur' = 1 /\ Gone' = Gone
  BY <1>1, <1>3, <1>6 DEF Reads, Cur, Gone
<1>8. Parsed' <=> Parsed
  <2>1. CASE n = 0
    BY <1>3, <1>5, <1>6, <1>7, <2>1 DEF Parsed
  <2>2. CASE n > 0
    <3>1. 1 \in 1 .. n /\ Cur <= n /\ Cur' <= n + 1
      BY <1>3, <1>7, <2>2
    <3> QED
      BY <1>6, <1>7, <3>1 DEF Parsed
  <2> QED
    BY <1>3, <2>1, <2>2
<1>9. Len(rx_cbs') <= Reads'
  <2>1. n <= Reads
    BY <1>2 DEF RecvOrder
  <2> QED
    BY <1>3, <1>6, <1>7, <2>1
<1>10. ASSUME NEW j \in 1 .. Len(rx_cbs')
       PROVE  /\ rx_cbs'[j].id = Reads' - Len(rx_cbs') + j
              /\ j > Cur' => rx_cbs'[j].hdrlen = HdrLen /\ rx_cbs'[j].bodylen = 0
  <2>1. CASE j \in 1 .. n
    <3>1. /\ rx_cbs[j].id = Reads - n + j
          /\ j > Cur => rx_cbs[j].hdrlen = HdrLen /\ rx_cbs[j].bodylen = 0
      BY <1>2, <2>1 DEF RecvOrder
    <3>2. Reads - n + j = Reads' - Len(rx_cbs') + j
      BY <1>3, <1>6, <1>7, <2>1
    <3> QED
      BY <1>6, <1>7, <2>1, <3>1, <3>2
  <2>2. CASE j = n + 1
    <3>1. Reads' - Len(rx_cbs') + j = Len(reqs)
      BY <1>3, <1>6, <1>7, <2>2
    <3> QED
      BY <1>5, <1>6, <2>2, <3>1
  <2> QED
    BY <1>3, <1>6, <2>1, <2>2
<1>11. Cur' <= Len(rx_cbs') /\ ~ Parsed' => rx_cbs'[Cur'].bodylen = 0
  <2>1. CASE n = 0
    BY <1>5, <1>6, <1>7, <2>1
  <2>2. CASE n > 0
    <3>1. 1 \in 1 .. n /\ Cur <= n
      BY <1>3, <1>7, <2>2
    <3> QED
      BY <1>2, <1>6, <1>7, <1>8, <3>1 DEF RecvOrder
  <2> QED
    BY <1>3, <2>1, <2>2
<1>12. Len(done') = IF Parsed' THEN Gone' + 1 ELSE Gone'
  BY <1>1, <1>2, <1>7, <1>8 DEF RecvOrder
<1> QED
  BY <1>1, <1>2, <1>9, <1>10, <1>11, <1>12 DEF RecvOrder

(* The entry at hand has this number, and is that of the oldest request    *)
(* if its header has not been seen.                                        *)
LEMMA AtHand ==
  ASSUME TypeOK, Control, RecvOrder, pc = "rxcb", Visiting(rx_cbs)
  PROVE  /\ err = "none" /\ Cur = drop + 1 /\ Cur \in 1 .. Len(rx_cbs)
         /\ rx_cbs[Cur].id = Gone + 1 /\ Gone \in Nat /\ Gone + 1 <= Reads
         /\ Reads \in Nat /\ Reads <= Len(reqs)
         /\ Parsed <=> rx_cbs[Cur].hdrlen = 0
         /\ Len(done) = IF Parsed THEN Gone + 1 ELSE Gone
<1>1. err = "none"
  BY DEF Control
<1>2. /\ Len(rx_cbs) \in Nat /\ drop \in Nat /\ Len(reqs) \in Nat /\ Reads \in Int
      /\ Gone \in Int
  BY RxAreNumbers DEF RxNumbers
<1>3. Cur = drop + 1 /\ drop < Len(rx_cbs)
  BY DEF Cur, Visiting
<1>4. Cur \in 1 .. Len(rx_cbs)
  BY <1>2, <1>3
<1>5. Gone = Reads - Len(rx_cbs) + drop
  BY DEF Gone
<1>6. rx_cbs[Cur].id = Reads - Len(rx_cbs) + Cur /\ Len(rx_cbs) <= Reads
  BY <1>1, <1>4 DEF RecvOrder
<1>7. Reads \in Nat /\ Reads <= Len(reqs)
  BY <1>2, <1>6 DEF Reads
<1>8. rx_cbs[Cur].id = Gone + 1 /\ Gone \in Nat /\ Gone + 1 <= Reads
  BY <1>2, <1>3, <1>5, <1>6
<1>9. Parsed <=> rx_cbs[Cur].hdrlen = 0
  BY <1>4 DEF Parsed
<1>10. Len(done) = IF Parsed THEN Gone + 1 ELSE Gone
  BY <1>1 DEF RecvOrder
<1> QED
  BY <1>1, <1>3, <1>4, <1>7, <1>8, <1>9, <1>10

(* recv_response is called for the oldest request: never a mismatch. *)
LEMMA NeverMismatch ==
  ASSUME TypeOK, Control, RecvOrder, RxHdr
  PROVE  /\ requests # << >> /\ Head(requests) = rx_cbs[drop + 1].id
         /\ rx_cbs[drop + 1].id = Gone + 1 /\ Len(done) = Gone
<1>1. /\ pc = "rxcb" /\ Visiting(rx_cbs) /\ rx_cbs[drop + 1].hdrlen = HdrLen
  BY HdrEffect, Zenon
<1>2. /\ err = "none" /\ Cur = drop + 1 /\ rx_cbs[Cur].id = Gone + 1 /\ Gone \in Nat
      /\ Gone + 1 <= Reads /\ Reads \in Nat /\ Reads <= Len(reqs)
      /\ Parsed <=> rx_cbs[Cur].hdrlen = 0
      /\ Len(done) = IF Parsed THEN Gone + 1 ELSE Gone
  BY <1>1, AtHand, Zenon
<1>3. ~ Parsed /\ Len(done) = Gone
  BY <1>1, <1>2, SizesAssumption
<1>4. /\ Len(done) + Len(requests) = Len(reqs) /\ Len(requests) \in Nat /\ Len(reqs) \in Nat
      /\ requests \in Seq(Ids)
      /\ \A i \in 1 .. Len(requests) : requests[i] = Len(done) + i
  <2>1. Len(done) + Len(requests) = Len(reqs) /\ \A i \in 1 .. Len(requests) : requests[i] = Len(done) + i
    BY <1>2 DEF RecvOrder
  <2>2. requests \in Seq(Ids) /\ Len(requests) \in Nat /\ Len(reqs) \in Nat
    BY DEF TypeOK
  <2> QED
    BY <2>1, <2>2
<1>5. Len(requests) > 0
  <2>1. Gone + Len(requests) = Len(reqs)
    BY <1>3, <1>4
  <2> QED
    BY <1>2, <1>4, <2>1
<1>6. requests # << >> /\ Head(requests) = requests[1] /\ 1 \in 1 .. Len(requests)
  BY <1>4, <1>5
<1> QED
  BY <1>2, <1>3, <1>4, <1>6

(* A header is received. *)
LEMMA HdrRecv ==
  ASSUME TypeOK, Control, RecvOrder, SentOrder, RxHdr
  PROVE  RecvOrder'
<1> SUFFICES ASSUME err' = "none" PROVE RecvOrder'
  BY DEF RecvOrder
<1> DEFINE k == drop + 1
<1>1. /\ pc = "rxcb" /\ Visiting(rx_cbs) /\ drop' = drop /\ after' = after
      /\ UNCHANGED <<txvars, farvars>>
      /\ Len(rx_cbs') = Len(rx_cbs)
      /\ \E body \in ParsedBodies(rx_cbs[k].id) :
              rx_cbs'[k] = [id |-> rx_cbs[k].id, hdrlen |-> 0, bodylen |-> body]
      /\ \A j \in 1 .. Len(rx_cbs) : j # k => rx_cbs'[j] = rx_cbs[j]
  BY HdrEffect, Zenon
<1>2. /\ requests # << >> /\ requests' = Tail(requests) /\ done' = Append(done, rx_cbs[k].id)
      /\ \E i \in DOMAIN sent : sent[i] = rx_cbs[k].id
      /\ pc' = pc
  BY RecvEffect
<1>3. rx_cbs[k].id = Gone + 1 /\ Len(done) = Gone /\ rx_cbs[k].id \in Ids
  BY <1>1, NeverMismatch, RxVisits, Zenon
<1>4. UNCHANGED <<reqs, sent>>
  BY <1>1 DEF farvars, txvars
<1>5. /\ Len(rx_cbs) \in Nat /\ Len(done) \in Nat /\ Len(requests) \in Nat /\ Len(sent) \in Nat /\ Len(reqs) \in Nat
      /\ drop \in Nat /\ Reads \in Int /\ Gone \in Int
  BY RxAreNumbers DEF RxNumbers
<1>6. /\ err = "none" /\ Cur = k /\ Cur \in 1 .. Len(rx_cbs)
  BY <1>1, AtHand, Zenon
<1>7. Reads' = Reads /\ Gone' = Gone /\ Cur' = k
  BY <1>1, <1>2, <1>4, <1>5 DEF Reads, Gone, Cur
<1>8. rx_cbs'[k].id = rx_cbs[k].id /\ rx_cbs'[k].hdrlen = 0
  BY <1>1
<1> HIDE DEF k
<1>9. Parsed'
  <2>1. k <= Len(rx_cbs')
    BY <1>1, <1>5, <1>6
  <2> QED
    BY <1>7, <1>8, <2>1 DEF Parsed
<1>10. /\ done' \in Seq(Ids) /\ Len(done') = Len(done) + 1
       /\ \A i \in 1 .. Len(done) : done'[i] = done[i]
       /\ done'[Len(done) + 1] = rx_cbs[k].id
  <2>1. done \in Seq(Ids)
    BY DEF TypeOK
  <2> QED
    BY <1>2, <1>3, <2>1, AppendSeq
<1>11. ASSUME NEW i \in 1 .. Len(done') PROVE done'[i] = i
  <2>1. CASE i \in 1 .. Len(done)
    BY <1>6, <1>10, <2>1 DEF RecvOrder
  <2>2. CASE i = Len(done) + 1
    BY <1>3, <1>10, <2>2
  <2> QED
    BY <1>5, <1>10, <2>1, <2>2
<1>12. /\ Len(requests') = Len(requests) - 1
       /\ \A i \in 1 .. Len(requests) - 1 : requests'[i] = requests[i + 1]
  <2>1. requests \in Seq(Ids)
    BY DEF TypeOK
  <2> QED
    BY <1>2, <2>1
<1>13. ASSUME NEW i \in 1 .. Len(requests') PROVE requests'[i] = Len(done') + i
  <2>1. i \in 1 .. Len(requests) - 1 /\ i + 1 \in 1 .. Len(requests)
    BY <1>5, <1>12
  <2>2. requests[i + 1] = Len(done) + (i + 1)
    BY <1>6, <2>1 DEF RecvOrder
  <2> QED
    BY <1>5, <1>10, <1>12, <2>1, <2>2
<1>14. Len(done') + Len(requests') = Len(reqs')
  <2>1. Len(done) + Len(requests) = Len(reqs)
    BY <1>6 DEF RecvOrder
  <2> QED
    <3>1. Len(done') = Len(done) + 1 /\ Len(requests') = Len(requests) - 1 /\ Len(reqs') = Len(reqs)
      BY <1>4, <1>10, <1>12
    <3> QED
      BY <1>5, <2>1, <3>1
<1>15. Len(rx_cbs') <= Reads'
  BY <1>1, <1>6, <1>7 DEF RecvOrder
<1>16. ASSUME NEW j \in 1 .. Len(rx_cbs')
       PROVE  rx_cbs'[j].id = Reads' - Len(rx_cbs') + j
  <2>1. j \in 1 .. Len(rx_cbs) /\ rx_cbs'[j].id = rx_cbs[j].id
    BY <1>1, <1>8 DEF k
  <2> QED
    BY <1>1, <1>6, <1>7, <2>1 DEF RecvOrder
<1>17. ASSUME NEW j \in 1 .. Len(rx_cbs'), j > Cur'
       PROVE  rx_cbs'[j].hdrlen = HdrLen /\ rx_cbs'[j].bodylen = 0
  <2>1. j \in 1 .. Len(rx_cbs) /\ j # k /\ j > Cur
    BY <1>1, <1>5, <1>6, <1>7, <1>17
  <2>2. rx_cbs'[j] = rx_cbs[j]
    BY <1>1, <2>1 DEF k
  <2> QED
    BY <1>6, <2>1, <2>2 DEF RecvOrder
<1>18. Len(done') = IF Parsed' THEN Gone' + 1 ELSE Gone'
  BY <1>3, <1>7, <1>9, <1>10
<1>19. Len(done') <= Len(sent')
  <2>1. PICK i \in 1 .. Len(sent) : sent[i] = rx_cbs[k].id
    BY <1>2, SMTT(30) DEF TypeOK
  <2>2. sent[i] = i
    BY DEF SentOrder
  <2> QED
    BY <1>3, <1>4, <1>5, <1>10, <2>1, <2>2
<1> QED
  BY <1>9, <1>11, <1>13, <1>14, <1>15, <1>16, <1>17, <1>18, <1>19 DEF RecvOrder

(* The rest of a response is received. *)
LEMMA BodyRecv ==
  ASSUME TypeOK, Control, RecvOrder, RxBody
  PROVE  RecvOrder'
<1> DEFINE k == drop + 1
<1>1. /\ pc = "rxcb" /\ Visiting(rx_cbs) /\ drop' = k /\ rx_cbs[k].hdrlen = 0
      /\ UNCHANGED <<pc, err, after, requests, done, txvars, farvars>>
      /\ Len(rx_cbs') = Len(rx_cbs)
      /\ rx_cbs'[k] = [id |-> rx_cbs[k].id, hdrlen |-> 0, bodylen |-> 0]
      /\ \A j \in 1 .. Len(rx_cbs) : j # k => rx_cbs'[j] = rx_cbs[j]
  BY BodyEffect, Zenon
<1>2. UNCHANGED <<reqs, sent>>
  BY <1>1 DEF farvars, txvars
<1>3. /\ Len(rx_cbs) \in Nat /\ Len(done) \in Nat /\ Len(reqs) \in Nat
      /\ drop \in Nat /\ Reads \in Int /\ Gone \in Int /\ HdrLen \in Nat /\ HdrLen > 0
  BY RxAreNumbers DEF RxNumbers
<1>4. /\ err = "none" /\ Cur = k /\ Cur \in 1 .. Len(rx_cbs)
      /\ Parsed <=> rx_cbs[Cur].hdrlen = 0
      /\ Len(done) = IF Parsed THEN Gone + 1 ELSE Gone
  BY <1>1, AtHand, Zenon
<1>5. Reads' = Reads /\ Gone' = Gone + 1 /\ Cur' = k + 1
  <2>1. Reads' = Reads
    BY <1>1, <1>2 DEF Reads
  <2>2. Gone = Reads - Len(rx_cbs) + drop /\ Gone' = Reads - Len(rx_cbs) + (drop + 1)
    BY <1>1, <2>1 DEF Gone
  <2>3. Cur' = k + 1
    BY <1>1 DEF Cur
  <2> QED
    BY <1>3, <2>1, <2>2, <2>3
<1>6. rx_cbs'[k].id = rx_cbs[k].id
  BY <1>1
<1>7. k \in Nat
  BY <1>3
<1> HIDE DEF k
<1>8. ASSUME NEW j \in 1 .. Len(rx_cbs')
      PROVE  rx_cbs'[j].id = Reads' - Len(rx_cbs') + j
  <2>1. j \in 1 .. Len(rx_cbs) /\ rx_cbs'[j].id = rx_cbs[j].id
    BY <1>1, <1>6
  <2> QED
    BY <1>1, <1>4, <1>5, <2>1 DEF RecvOrder
<1>9. ASSUME NEW j \in 1 .. Len(rx_cbs'), j > k
      PROVE  rx_cbs'[j].hdrlen = HdrLen /\ rx_cbs'[j].bodylen = 0
  <2>1. j \in 1 .. Len(rx_cbs) /\ j # k /\ j > Cur
    BY <1>1, <1>3, <1>4, <1>7, <1>9
  <2>2. rx_cbs'[j] = rx_cbs[j]
    BY <1>1, <2>1
  <2> QED
    BY <1>4, <2>1, <2>2 DEF RecvOrder
<1>10. Cur' <= Len(rx_cbs') => rx_cbs'[Cur'].hdrlen = HdrLen /\ rx_cbs'[Cur'].bodylen = 0
  <2>1. Cur' <= Len(rx_cbs') => Cur' \in 1 .. Len(rx_cbs') /\ Cur' > k
    BY <1>1, <1>3, <1>5, <1>7
  <2> QED
    BY <1>9, <2>1
<1>11. ~ Parsed'
  BY <1>3, <1>10 DEF Parsed
<1>12. Len(done') = IF Parsed' THEN Gone' + 1 ELSE Gone'
  BY <1>1, <1>4, <1>5, <1>11
<1>13. ASSUME NEW j \in 1 .. Len(rx_cbs'), j > Cur'
       PROVE  rx_cbs'[j].hdrlen = HdrLen /\ rx_cbs'[j].bodylen = 0
  <2>1. j > k
    BY <1>3, <1>5, <1>7, <1>13
  <2> QED
    BY <1>9, <2>1
<1> QED
  BY <1>1, <1>2, <1>4, <1>5, <1>8, <1>10, <1>12, <1>13 DEF RecvOrder

(* The loop ends, and the responses that are complete are dropped. *)
LEMMA LeaveRecv ==
  ASSUME TypeOK, Control, RecvOrder,
         pc = "rxcb", pc' = "rx", err = "none", drop' = 0, drop \in 0 .. Len(rx_cbs),
         UNCHANGED <<requests, done, after, reqs, sent>>,
         Len(rx_cbs') = Len(rx_cbs) - drop,
         Len(rx_cbs') > 0 => /\ rx_cbs'[1].id = rx_cbs[drop + 1].id
                             /\ rx_cbs'[1].hdrlen = rx_cbs[drop + 1].hdrlen
                             /\ rx_cbs'[1].bodylen = rx_cbs[drop + 1].bodylen
                                  \/ rx_cbs'[1].hdrlen = 0,
         \A j \in 2 .. Len(rx_cbs') : rx_cbs'[j] = rx_cbs[drop + j]
  PROVE  RecvOrder'
<1>1. /\ Len(rx_cbs) \in Nat /\ drop \in Nat /\ Len(reqs) \in Nat /\ Reads \in Int /\ Gone \in Int
      /\ Len(rx_cbs') \in Nat
  BY RxAreNumbers DEF RxNumbers
<1>2. Reads' = Reads /\ Gone' = Gone /\ Cur' = 1 /\ Cur = drop + 1
  BY <1>1 DEF Reads, Gone, Cur
<1>3. Len(rx_cbs') <= Reads'
  <2>1. Len(rx_cbs) <= Reads
    BY DEF RecvOrder
  <2> QED
    BY <1>1, <1>2, <2>1
<1>4. ASSUME NEW j \in 1 .. Len(rx_cbs')
      PROVE  rx_cbs'[j].id = Reads' - Len(rx_cbs') + j
  <2>1. drop + j \in 1 .. Len(rx_cbs) /\ Len(rx_cbs') > 0
    BY <1>1
  <2>2. rx_cbs'[j].id = rx_cbs[drop + j].id
    BY <1>1, <2>1
  <2>3. rx_cbs[drop + j].id = Reads - Len(rx_cbs) + (drop + j)
    BY <2>1 DEF RecvOrder
  <2> QED
    BY <1>1, <1>2, <2>2, <2>3
<1>5. ASSUME NEW j \in 1 .. Len(rx_cbs'), j > Cur'
      PROVE  rx_cbs'[j].hdrlen = HdrLen /\ rx_cbs'[j].bodylen = 0
  <2>1. drop + j \in 1 .. Len(rx_cbs) /\ j \in 2 .. Len(rx_cbs') /\ drop + j > Cur
    BY <1>1, <1>2, <1>5
  <2>2. rx_cbs[drop + j].hdrlen = HdrLen /\ rx_cbs[drop + j].bodylen = 0
    BY <2>1 DEF RecvOrder
  <2> QED
    BY <2>1, <2>2
<1>6. /\ Cur' <= Len(rx_cbs') <=> Cur <= Len(rx_cbs)
      /\ Cur' <= Len(rx_cbs') => Len(rx_cbs') > 0
  BY <1>1, <1>2
<1>7. Parsed' <=> Parsed
  BY <1>2, <1>6 DEF Parsed
<1>8. Cur' <= Len(rx_cbs') /\ ~ Parsed' => rx_cbs'[Cur'].bodylen = 0
  <2> SUFFICES ASSUME Cur' <= Len(rx_cbs'), ~ Parsed' PROVE rx_cbs'[Cur'].bodylen = 0
    OBVIOUS
  <2>1. rx_cbs[Cur].bodylen = 0 /\ Len(rx_cbs') > 0
    BY <1>6, <1>7 DEF RecvOrder
  <2>2. rx_cbs'[1].hdrlen # 0
    BY <1>2 DEF Parsed
  <2> QED
    BY <1>2, <2>1, <2>2
<1> QED
  BY <1>2, <1>3, <1>4, <1>5, <1>7, <1>8 DEF RecvOrder

(* Every step keeps the order in which responses are matched with          *)
(* requests.                                                               *)
LEMMA RecvPreserved ==
  ASSUME TypeOK, Control, SentOrder, RecvOrder, [Next]_vars
  PROVE  RecvOrder'
<1>0. Len(sent) \in Nat
  BY DEF TypeOK
<1>1. ASSUME NEW kind \in Kinds, NEW len \in ReqLen[kind], Generate(kind, len)
      PROVE  RecvOrder'
  BY <1>1, GenerateRecv, Zenon
<1>2. CASE SockRead
  BY <1>2, ReadRecv, Zenon
<1>3. CASE RxHdr
  BY <1>3, HdrRecv, Zenon
<1>4. CASE RxBody
  BY <1>4, BodyRecv, Zenon
<1>5. CASE RxHdrPartial \/ RxCbEnd
  <2>1. /\ pc = "rxcb" /\ pc' = "rx" /\ err = "none" /\ drop' = 0
        /\ UNCHANGED <<requests, done, txvars, after, farvars>>
        /\ drop \in 0 .. Len(rx_cbs)
        /\ Len(rx_cbs') = Len(rx_cbs) - drop
        /\ \A j \in 1 .. Len(rx_cbs') : rx_cbs'[j] = rx_cbs[drop + j]
    BY <1>5, LeaveEffect, Zenon
  <2>2. UNCHANGED <<reqs, sent>>
    BY <2>1 DEF txvars, farvars
  <2>3. Len(rx_cbs) \in Nat
    BY DEF TypeOK
  <2>4. Len(rx_cbs') > 0 => rx_cbs'[1] = rx_cbs[drop + 1]
    BY <2>1, <2>3
  <2>5. \A j \in 2 .. Len(rx_cbs') : rx_cbs'[j] = rx_cbs[drop + j]
    BY <2>1, <2>3
  <2> QED
    BY <2>1, <2>2, <2>4, <2>5, LeaveRecv, Zenon
<1>6. CASE RxBodyPartial
  <2>1. /\ pc = "rxcb" /\ pc' = "rx" /\ err = "none" /\ drop' = 0 /\ Visiting(rx_cbs)
        /\ UNCHANGED <<requests, done, txvars, after, farvars>>
        /\ Len(rx_cbs') = Len(rx_cbs) - drop
        /\ rx_cbs[drop + 1].hdrlen = 0
        /\ rx_cbs'[1] = [id |-> rx_cbs[drop + 1].id, hdrlen |-> 0,
                         bodylen |-> rx_cbs[drop + 1].bodylen - rbuf]
        /\ \A j \in 2 .. Len(rx_cbs') : rx_cbs'[j] = rx_cbs[drop + j]
    BY <1>6, BodyPartialEffect, Zenon
  <2>2. UNCHANGED <<reqs, sent>>
    BY <2>1 DEF txvars, farvars
  <2>3. drop \in 0 .. Len(rx_cbs)
    BY <2>1, RxVisits, Zenon
  <2>4. rx_cbs'[1].id = rx_cbs[drop + 1].id /\ rx_cbs'[1].hdrlen = 0
    BY <2>1
  <2> QED
    BY <2>1, <2>2, <2>3, <2>4, LeaveRecv, Zenon
<1>7. CASE Connect \/ EpollWait \/ RunIo \/ RunOut \/ RxReturn \/ RxFull \/ RxAgain \/ RxError
             \/ RxRead \/ Environment \/ TxStep \/ UNCHANGED vars
  <2>1. UNCHANGED <<rx_cbs, requests, done, reqs>>
    <3>1. CASE Connect \/ EpollWait \/ RunIo \/ RunOut \/ UNCHANGED vars
      BY <3>1 DEF Connect, EpollWait, RunIo, RunOut, vars, rxvars, farvars
    <3>2. CASE RxReturn \/ RxFull \/ RxAgain \/ RxError \/ RxRead
      BY <3>2 DEF RxReturn, RxFull, RxAgain, RxError, RxRead, rxvars, farvars
    <3>3. CASE Environment
      BY <3>3 DEF Environment, ConnectDone, Deliver, Answer, Arrive, PeerClose, clientvars, rxvars
    <3>4. CASE TxStep
      BY <3>4 DEF TxStep, TxReturn, TxAgain, TxWrite, TxError, TxCbPartial, TxCbFire, TxCbEnd,
                  rxvars, farvars
    <3> QED
      BY <1>7, <3>1, <3>2, <3>3, <3>4
  <2>2. Len(sent') \in Nat /\ Len(sent) <= Len(sent')
    <3>1. CASE TxCbFire
      <4>2. tx_cbs \in Seq([id : Ids, len : Nat]) /\ sent \in Seq(Ids) /\ drop \in Nat
        BY DEF TypeOK
      <4>1. sent' = Append(sent, tx_cbs[drop + 1].id) /\ drop + 1 \in 1 .. Len(tx_cbs)
        <5>1. sent' = Append(sent, tx_cbs[drop + 1].id) /\ drop < Len(tx_cbs)
          BY <3>1, Zenon DEF TxCbFire, sent_request, Visiting
        <5> QED
          BY <4>2, <5>1
      <4>3. tx_cbs[drop + 1] \in [id : Ids, len : Nat]
        BY <4>1, <4>2, ElementOfSeq, Zenon
      <4>4. tx_cbs[drop + 1].id \in Ids
        BY <4>3
      <4>5. Len(sent') = Len(sent) + 1
        BY <4>1, <4>2, <4>4, AppendSeq
      <4> QED
        BY <1>0, <4>5
    <3>2. CASE ~ TxCbFire
      <4>1. UNCHANGED sent
        <5>1. CASE Connect \/ EpollWait \/ RunIo \/ RunOut \/ UNCHANGED vars
          BY <5>1 DEF Connect, EpollWait, RunIo, RunOut, vars, txvars
        <5>2. CASE RxReturn \/ RxFull \/ RxAgain \/ RxError \/ RxRead
          BY <5>2 DEF RxReturn, RxFull, RxAgain, RxError, RxRead, txvars
        <5>3. CASE Environment
          BY <5>3 DEF Environment, ConnectDone, Deliver, Answer, Arrive, PeerClose, clientvars, txvars
        <5>4. CASE TxStep
          BY <3>2, <5>4 DEF TxStep, TxReturn, TxAgain, TxWrite, TxError, TxCbPartial, TxCbEnd, txvars
        <5> QED
          BY <1>7, <5>1, <5>2, <5>3, <5>4
      <4> QED
        BY <1>0, <4>1
    <3> QED
      BY <3>1, <3>2
  <2>3. Reads' = Reads /\ Gone' = Gone /\ Cur' = Cur /\ (err' = "none" => err = "none")
    <3>0. after \in {"idle", "read", "out"} /\ Len(rx_cbs) \in Nat /\ drop \in Nat
      BY DEF TypeOK
    <3>1. CASE Connect \/ EpollWait \/ RunIo \/ RunOut \/ UNCHANGED vars
      <4>1. /\ (pc # "rxcb" /\ pc' # "rxcb") \/ UNCHANGED <<pc, drop>>
            /\ (after' = "read") = (after = "read") /\ (err' = "none" => err = "none")
        BY <3>1, <3>0 DEF Connect, EpollWait, RunIo, RunOut, AfterIn, vars, Throw, loopvars, Control
      <4> QED
        BY <2>1, <4>1 DEF Reads, Gone, Cur
    <3>2. CASE RxReturn \/ RxFull \/ RxAgain \/ RxError
      <4>1. /\ pc = "rx" /\ pc' # "rxcb" /\ after' = after /\ (err' = "none" => err = "none")
        BY <3>2, <3>0 DEF RxReturn, RxFull, RxAgain, RxError, Throw
      <4> QED
        BY <2>1, <4>1 DEF Reads, Gone, Cur
    <3>3. CASE RxRead
      <4>1. /\ pc = "rx" /\ pc' = "rxcb" /\ drop' = 0 /\ after' = after /\ err' = err
        BY <3>3 DEF RxRead
      <4>2. Reads' = Reads
        BY <2>1, <4>1 DEF Reads
      <4> QED
        BY <2>1, <4>1, <4>2 DEF Gone, Cur
    <3>4. CASE Environment
      <4>1. UNCHANGED <<pc, drop, after, err>>
        BY <3>4 DEF Environment, ConnectDone, Deliver, Answer, Arrive, PeerClose, clientvars, loopvars
      <4> QED
        BY <2>1, <4>1 DEF Reads, Gone, Cur
    <3>5. CASE TxStep
      <4>1. /\ pc # "rxcb" /\ pc' # "rxcb" /\ after' = after /\ (err' = "none" => err = "none")
        BY <3>5, <3>0 DEF TxStep, TxReturn, TxAgain, TxWrite, TxError, TxCbPartial, TxCbFire,
                     TxCbEnd, Throw, Control
      <4> QED
        BY <2>1, <4>1 DEF Reads, Gone, Cur
    <3> QED
      BY <1>7, <3>1, <3>2, <3>3, <3>4, <3>5
  <2> QED
    BY <2>1, <2>2, <2>3, SameRecv
<1> QED
  BY <1>1, <1>2, <1>3, <1>4, <1>5, <1>6, <1>7, NextCases DEF Elsewhere, TxStep, RxStep

-----------------------------------------------------------------------------
(* Wakeups. *)

(* Every step keeps the record of the wakeups that epoll still owes, or    *)
(* has given, to the socket.                                               *)
LEMMA WakeupsPreserved ==
  ASSUME TypeOK, Control, Wakeups, [Next]_vars
  PROVE  Wakeups'
<1>0. FlagTypes /\ wbuf \in Nat /\ ksnd \in Nat /\ krcv \in Nat /\ SndLow \in Nat /\ SndBuf \in Nat /\ SndLow < SndBuf
  BY TypeParts, SizesAssumption DEF TxTypes, RxTypes
<1>1. ASSUME NEW kind \in Kinds, NEW len \in ReqLen[kind], Generate(kind, len)
      PROVE  Wakeups'
  <2>1. /\ pc = "idle" /\ UNCHANGED <<rx_rdy, tx_rdy, rx_cbs, ev, link, edge, nospace, ksnd, krcv>>
    BY <1>1 DEF Generate, sockvars, kvars
  <2>2. \/ pc' = "dead" /\ after' = after
        \/ pc' = (IF tx_rdy THEN "tx" ELSE "read") /\ after' = "read"
    BY <1>1 DEF Generate, Throw
  <2>3. after # "out"
    BY <2>1 DEF Control
  <2> QED
    BY <1>0, <2>1, <2>2, <2>3 DEF Wakeups
<1>2. CASE Connect
  BY <1>0, <1>2 DEF Connect, Throw, Wakeups, Control, sockvars, rxvars, txvars, farvars
<1>3. CASE SockRead
  BY <1>0, <1>3 DEF SockRead, Throw, Wakeups, Control, sockvars, rxvars, txvars, farvars, kvars
<1>4. CASE EpollWait
  BY <1>0, <1>4 DEF EpollWait, Readiness, Wakeups, Control, sockvars, rxvars, txvars
<1>5. CASE RunIo
  <2>1. /\ pc = "idle" /\ ev # {} /\ ev \in SUBSET {"in", "out"} /\ ev' = {}
        /\ UNCHANGED <<tx_rdy, rx_cbs, wbuf, link, edge, nospace, ksnd, krcv>>
    BY <1>0, <1>5 DEF RunIo, FlagTypes, rxvars, txvars, kvars
  <2>2. \/ /\ "in" \in ev /\ rx_rdy' = TRUE /\ pc' = "rx"
           /\ after' = IF "out" \in ev THEN "out" ELSE "idle"
        \/ /\ "in" \notin ev /\ pc' = "out" /\ rx_rdy' = rx_rdy /\ after' = after /\ "out" \in ev
    BY <1>5, <2>1 DEF RunIo, AfterIn
  <2>3. after # "out"
    BY <2>1 DEF Control
  <2>4. CASE "in" \in ev
    BY <1>0, <2>1, <2>2, <2>3, <2>4 DEF Wakeups, FlagTypes
  <2>5. CASE "in" \notin ev
    BY <1>0, <2>1, <2>2, <2>3, <2>5 DEF Wakeups, FlagTypes
  <2> QED
    BY <2>4, <2>5
<1>6. CASE RunOut
  BY <1>0, <1>6 DEF RunOut, Throw, Wakeups, Control, FlagTypes, rxvars, txvars, kvars, farvars
<1>7. CASE TxReturn \/ TxAgain
  BY <1>0, <1>7 DEF TxReturn, TxAgain, Wakeups, Control, FlagTypes, sockvars, rxvars, txvars, kvars, farvars
<1>8. CASE TxWrite \/ TxError
  BY <1>0, <1>8 DEF TxWrite, TxError, Throw, Smaller, Wakeups, Control, FlagTypes, sockvars, rxvars, txvars, kvars, farvars
<1>9. CASE TxCbPartial \/ TxCbFire \/ TxCbEnd
  BY <1>0, <1>9 DEF TxCbPartial, TxCbFire, TxCbEnd, Wakeups, Control, FlagTypes, sockvars, rxvars, kvars, farvars
<1>10. CASE RxReturn \/ RxFull \/ RxAgain \/ RxError
  <2>1. CASE RxReturn
    BY <1>0, <2>1 DEF RxReturn, Wakeups, Control, FlagTypes, sockvars, rxvars, txvars, kvars, farvars
  <2>2. CASE RxFull \/ RxError
    <3>1. /\ pc = "rx" /\ pc' = "dead"
          /\ UNCHANGED <<rx_rdy, tx_rdy, rx_cbs, wbuf, after, ev, link, edge, nospace, ksnd, krcv>>
      BY <2>2 DEF RxFull, RxError, Throw, sockvars, rxvars, txvars, kvars, farvars
    <3> QED
      BY <1>0, <3>1 DEF Wakeups
  <2>3. CASE RxAgain
    BY <1>0, <2>3 DEF RxAgain, Wakeups, Control, FlagTypes, rxvars, txvars, kvars, farvars
  <2> QED
    BY <1>10, <2>1, <2>2, <2>3
<1>11. CASE RxRead
  BY <1>0, <1>11 DEF RxRead, Wakeups, Control, FlagTypes, sockvars, rxvars, txvars, kvars, farvars
<1>12. CASE RxHdr
  BY <1>0, <1>12, RecvEffect DEF RxHdr, Wakeups, Control, FlagTypes, sockvars, txvars, kvars, farvars
<1>13. CASE RxHdrPartial \/ RxBodyPartial \/ RxBody \/ RxCbEnd
  BY <1>0, <1>13 DEF RxHdrPartial, RxBodyPartial, RxBody, RxCbEnd, RxTurn, Wakeups, Control, FlagTypes, sockvars, txvars, kvars, farvars
<1>14. CASE Environment
  <2>1. CASE ConnectDone
    BY <1>0, <2>1 DEF ConnectDone, Wakeups, FlagTypes, clientvars, sockvars, rxvars, txvars
  <2>2. CASE Deliver
    BY <1>0, <2>2 DEF Deliver, Wakeups, FlagTypes, clientvars, sockvars, rxvars, txvars
  <2>3. CASE Answer \/ Arrive \/ PeerClose
    BY <1>0, <2>3 DEF Answer, Arrive, PeerClose, Wakeups, FlagTypes, clientvars, sockvars, rxvars, txvars, kvars
  <2> QED
    BY <1>14, <2>1, <2>2, <2>3 DEF Environment
<1>15. CASE UNCHANGED vars
  BY <1>15 DEF vars, Wakeups, sockvars, rxvars, txvars, kvars
<1> QED
  BY <1>1, <1>2, <1>3, <1>4, <1>5, <1>6, <1>7, <1>8, <1>9, <1>10, <1>11, <1>12, <1>13, <1>14,
     <1>15, NextCases DEF Elsewhere, RxStep

-----------------------------------------------------------------------------
(* The stream of responses. *)

InNumbers ==
  /\ rpos \in Nat /\ rbuf \in Nat /\ krcv \in Nat /\ rnet \in Nat /\ srvin \in Nat
  /\ Len(resps) \in Nat /\ Len(reqs) \in Nat /\ HdrLen \in Nat /\ HdrLen > 0
  /\ Responded \in Nat
  /\ \A i \in 1 .. Len(resps) : /\ resps[i].start \in Nat /\ resps[i].body \in Nat
                                /\ RespEnd(resps[i]) \in Nat
  /\ \A i \in 1 .. Len(reqs) : reqs[i].end \in Nat /\ reqs[i].kind \in Kinds

(* The positions in the stream of responses are integers.                  *)
LEMMA InAreNumbers == TypeOK => InNumbers
<1> SUFFICES ASSUME TypeOK PROVE InNumbers
  OBVIOUS
<1>1. /\ rpos \in Nat /\ rbuf \in Nat /\ krcv \in Nat /\ rnet \in Nat /\ srvin \in Nat
      /\ Len(resps) \in Nat /\ Len(reqs) \in Nat
      /\ resps \in Seq([start : Nat, body : Nat]) /\ reqs \in Seq([end : Nat, kind : Kinds])
  BY DEF TypeOK
<1>2. HdrLen \in Nat /\ HdrLen > 0
  BY SizesAssumption
<1>3. ASSUME NEW i \in 1 .. Len(resps)
      PROVE  resps[i].start \in Nat /\ resps[i].body \in Nat /\ RespEnd(resps[i]) \in Nat
  <2>1. resps[i] \in [start : Nat, body : Nat]
    BY <1>1, ElementOfSeq, Zenon
  <2> QED
    BY <1>2, <2>1 DEF RespEnd
<1>4. ASSUME NEW i \in 1 .. Len(reqs) PROVE reqs[i].end \in Nat /\ reqs[i].kind \in Kinds
  <2>1. reqs[i] \in [end : Nat, kind : Kinds]
    BY <1>1, ElementOfSeq, Zenon
  <2> QED
    BY <2>1
<1>5. Responded \in Nat
  <2>1. CASE resps = << >>
    BY <2>1 DEF Responded
  <2>2. CASE resps # << >>
    <3>1. Len(resps) \in 1 .. Len(resps)
      BY <1>1, <2>2
    <3> QED
      BY <1>3, <2>2, <3>1 DEF Responded
  <2> QED
    BY <2>1, <2>2
<1> QED
  BY <1>1, <1>2, <1>3, <1>4, <1>5 DEF InNumbers

(* Bytes move from one place to the next, none is lost, and nothing is     *)
(* answered.                                                               *)
LEMMA SameIn ==
  ASSUME TypeOK, Inbound, resps' = resps, Len(reqs') \in Nat, Len(reqs) <= Len(reqs'),
         \A i \in 1 .. Len(reqs) : reqs'[i] = reqs[i],
         srvin' \in Nat, srvin <= srvin',
         rpos' + rbuf' + krcv' + rnet' = rpos + rbuf + krcv + rnet
  PROVE  Inbound'
<1>1. Responded' = Responded
  BY DEF Responded, RespEnd
<1>2. InNumbers
  BY InAreNumbers
<1>3. Len(resps) <= Len(reqs')
  BY <1>2 DEF Inbound, InNumbers
<1>4. ASSUME NEW i \in 1 .. Len(resps)
      PROVE  reqs'[i].end <= srvin' /\ resps[i].body \in Bodies[reqs'[i].kind]
  <2>1. i \in 1 .. Len(reqs)
    BY <1>2 DEF Inbound, InNumbers
  <2>2. reqs[i].end \in Nat /\ srvin \in Nat
    BY <1>2, <2>1 DEF InNumbers
  <2>3. reqs[i].end <= srvin /\ resps[i].body \in Bodies[reqs[i].kind] /\ reqs'[i] = reqs[i]
    BY <2>1 DEF Inbound
  <2> QED
    BY <2>2, <2>3
<1>5. \A i \in 1 .. Len(resps) :
        /\ RespEnd(resps'[i]) <= Responded'
        /\ resps[i].start = IF i = 1 THEN 0 ELSE RespEnd(resps'[i - 1])
  BY <1>1 DEF Inbound, RespEnd
<1> QED
  BY <1>1, <1>3, <1>4, <1>5 DEF Inbound

(* The server answers a request: the response comes after all others. *)
LEMMA AnswerIn ==
  ASSUME TypeOK, Inbound, Answer
  PROVE  Inbound'
<1> DEFINE n == Len(resps) + 1
<1>1. PICK body \in Bodies[reqs[n].kind] :
        /\ resps' = Append(resps, [start |-> Responded, body |-> body])
        /\ rnet' = rnet + HdrLen + body
  BY DEF Answer
<1> DEFINE r == [start |-> Responded, body |-> body]
<1>2. /\ Len(resps) < Len(reqs) /\ reqs[n].end <= srvin
      /\ UNCHANGED <<rpos, rbuf, krcv, srvin, reqs>>
  BY DEF Answer, clientvars, rxvars, kvars
<1>3. InNumbers
  BY InAreNumbers
<1>4. /\ rpos \in Nat /\ rbuf \in Nat /\ krcv \in Nat /\ rnet \in Nat /\ srvin \in Nat
      /\ Len(resps) \in Nat /\ Len(reqs) \in Nat /\ HdrLen \in Nat /\ HdrLen > 0
      /\ Responded \in Nat /\ n \in 1 .. Len(reqs)
  BY <1>2, <1>3 DEF InNumbers
<1>5. body \in Nat
  <2>1. reqs[n].kind \in Kinds
    BY <1>3, <1>4 DEF InNumbers
  <2> QED
    BY <2>1, KindsAssumption
<1>6. r \in [start : Nat, body : Nat] /\ r.start = Responded /\ r.body = body
      /\ RespEnd(r) = Responded + HdrLen + body
  BY <1>4, <1>5 DEF RespEnd
<1> HIDE DEF r
<1>7. /\ Len(resps') = n /\ resps'[n] = r
      /\ \A i \in 1 .. Len(resps) : resps'[i] = resps[i]
  <2>1. resps \in Seq([start : Nat, body : Nat]) /\ resps' = Append(resps, r)
    BY <1>1 DEF TypeOK, r
  <2> QED
    BY <1>6, <2>1, AppendSeq
<1>8. Responded' = Responded + HdrLen + body
  <2>1. resps' # << >>
    BY <1>4, <1>7
  <2> QED
    BY <1>6, <1>7, <2>1 DEF Responded, RespEnd
<1>9. rpos' + rbuf' + krcv' + rnet' = Responded'
  <2>1. rpos + rbuf + krcv + rnet = Responded
    BY DEF Inbound
  <2> QED
    BY <1>1, <1>2, <1>4, <1>5, <1>8, <2>1
<1>10. ASSUME NEW i \in 1 .. n
       PROVE  /\ reqs'[i].end <= srvin'
              /\ resps'[i].body \in Bodies[reqs'[i].kind]
              /\ RespEnd(resps'[i]) <= Responded'
              /\ resps'[i].start = IF i = 1 THEN 0 ELSE RespEnd(resps'[i - 1])
  <2>1. CASE i \in 1 .. Len(resps)
    <3>1. /\ reqs[i].end <= srvin /\ resps[i].body \in Bodies[reqs[i].kind]
          /\ RespEnd(resps[i]) <= Responded /\ RespEnd(resps[i]) \in Nat
          /\ resps[i].start = IF i = 1 THEN 0 ELSE RespEnd(resps[i - 1])
      BY <1>3, <2>1 DEF Inbound, InNumbers
    <3>2. resps'[i] = resps[i] /\ (i # 1 => resps'[i - 1] = resps[i - 1])
      BY <1>4, <1>7, <2>1
    <3>3. RespEnd(resps'[i]) <= Responded'
      BY <1>4, <1>5, <1>8, <3>1, <3>2
    <3> QED
      BY <1>2, <3>1, <3>2, <3>3
  <2>2. CASE i = n
    <3>1. RespEnd(resps'[i]) <= Responded'
      BY <1>4, <1>5, <1>6, <1>7, <1>8, <2>2
    <3>2. r.start = IF n = 1 THEN 0 ELSE RespEnd(resps'[n - 1])
      <4>1. CASE resps = << >>
        BY <1>6, <4>1 DEF Responded
      <4>2. CASE resps # << >>
        <5>1. Len(resps) \in 1 .. Len(resps) /\ n # 1 /\ n - 1 = Len(resps)
          <6>1. resps \in Seq([start : Nat, body : Nat])
            BY DEF TypeOK
          <6>2. Len(resps) # 0
            BY <4>2, <6>1
          <6> QED
            BY <1>4, <6>2
        <5> QED
          BY <1>6, <1>7, <4>2, <5>1 DEF Responded
      <4> QED
        BY <4>1, <4>2
    <3> QED
      BY <1>2, <1>6, <1>7, <2>2, <3>1, <3>2
  <2> QED
    BY <1>4, <2>1, <2>2
<1>11. ASSUME NEW i \in 1 .. n, NEW j \in 1 .. n, i < j
       PROVE  resps'[i].start < resps'[j].start
  <2>1. i \in 1 .. Len(resps)
    BY <1>4, <1>11
  <2>2. CASE j \in 1 .. Len(resps)
    BY <1>7, <1>11, <2>1, <2>2 DEF Inbound
  <2>3. CASE j = n
    <3>1. resps[i].start \in Nat /\ resps[i].body \in Nat /\ RespEnd(resps[i]) <= Responded
      BY <1>3, <2>1 DEF Inbound, InNumbers
    <3>2. resps[i].start < Responded
      <4>1. RespEnd(resps[i]) = resps[i].start + HdrLen + resps[i].body
        BY DEF RespEnd
      <4>2. HdrLen \in Nat /\ HdrLen > 0 /\ Responded \in Nat
        BY <1>3, SizesAssumption DEF InNumbers
      <4> DEFINE a == resps[i].start
                 b == resps[i].body
      <4>3. a \in Nat /\ b \in Nat /\ a + HdrLen + b <= Responded
        BY <3>1, <4>1, Zenon
      <4> HIDE DEF a, b
      <4>4. a < Responded
        BY <4>2, <4>3
      <4> QED
        BY <4>4 DEF a
    <3> QED
      BY <1>6, <1>7, <2>1, <2>3, <3>2
  <2> QED
    BY <1>4, <2>2, <2>3
<1>12. Len(resps') <= Len(reqs')
  BY <1>2, <1>4, <1>7
<1> QED
  BY <1>7, <1>9, <1>10, <1>11, <1>12 DEF Inbound

(* Every step keeps the responses one after the other in their stream,     *)
(* each the answer to a request that was sent.                             *)
LEMMA InboundPreserved ==
  ASSUME TypeOK, Control, Inbound, [Next]_vars
  PROVE  Inbound'
<1>0. InNumbers
  BY InAreNumbers
<1>1. ASSUME NEW kind \in Kinds, NEW len \in ReqLen[kind], Generate(kind, len)
      PROVE  Inbound'
  <2>1. UNCHANGED <<resps, srvin, rpos, rbuf, krcv, rnet>>
    BY <1>1 DEF Generate, kvars, netvars
  <2>2. /\ Len(reqs') \in Nat /\ Len(reqs) <= Len(reqs')
        /\ \A i \in 1 .. Len(reqs) : reqs'[i] = reqs[i]
    <3>1. CASE err' # "none"
      <4>1. reqs' = reqs
        BY <1>1, <3>1 DEF Generate, Control
      <4> QED
        BY <1>0, <4>1 DEF InNumbers
    <3>2. CASE err' = "none"
      <4> DEFINE r == [end |-> Written + len, kind |-> kind]
      <4>1. reqs' = Append(reqs, r) /\ len \in Nat
        BY <1>1, <3>2, GenerateEffect, Zenon
      <4>2. reqs \in Seq([end : Nat, kind : Kinds]) /\ Len(reqs) \in Nat
        BY DEF TypeOK
      <4>3. Written \in Nat
        BY TxAreNumbers, TypeParts DEF TxNumbers
      <4>4. r \in [end : Nat, kind : Kinds]
        BY <4>1, <4>3
      <4> HIDE DEF r
      <4>5. Len(reqs') = Len(reqs) + 1 /\ \A i \in 1 .. Len(reqs) : reqs'[i] = reqs[i]
        BY <4>1, <4>2, <4>4, AppendSeq
      <4> QED
        BY <4>2, <4>5
    <3> QED
      BY <3>1, <3>2
  <2>3. srvin' \in Nat /\ srvin <= srvin'
    BY <1>0, <2>1 DEF InNumbers
  <2> QED
    BY <2>1, <2>2, <2>3, SameIn
<1>2. CASE Answer
  BY <1>2, AnswerIn
<1>3. CASE /\ UNCHANGED <<resps, reqs, srvin>>
           /\ rpos' + rbuf' + krcv' + rnet' = rpos + rbuf + krcv + rnet
  <2>1. srvin' \in Nat /\ srvin <= srvin' /\ Len(reqs') \in Nat /\ Len(reqs) <= Len(reqs')
    BY <1>0, <1>3 DEF InNumbers
  <2> QED
    BY <1>3, <2>1, SameIn
<1>4. CASE Connect \/ SockRead \/ EpollWait \/ RunIo \/ RunOut \/ UNCHANGED vars
  <2>1. UNCHANGED <<resps, reqs, srvin, rpos, rbuf, krcv, rnet>>
    BY <1>4 DEF Connect, SockRead, EpollWait, RunIo, RunOut, vars, rxvars, kvars, netvars, farvars
  <2> QED
    BY <1>3, <2>1
<1>5. CASE TxStep
  <2>1. UNCHANGED <<resps, reqs, srvin, rpos, rbuf, krcv, rnet>>
    BY <1>5 DEF TxStep, TxReturn, TxAgain, TxWrite, TxError, TxCbPartial, TxCbFire, TxCbEnd,
       rxvars, kvars, netvars, farvars
  <2> QED
    BY <1>3, <2>1
<1>6. CASE RxReturn \/ RxFull \/ RxAgain \/ RxError \/ RxHdrPartial \/ RxCbEnd
  <2>1. UNCHANGED <<resps, reqs, srvin, rpos, rbuf, krcv, rnet>>
    BY <1>6 DEF RxReturn, RxFull, RxAgain, RxError, RxHdrPartial, RxCbEnd, rxvars, kvars, netvars, farvars
  <2> QED
    BY <1>3, <2>1
<1>7. CASE RxRead
  <2>1. UNCHANGED <<resps, reqs, srvin, rpos, rnet>>
    BY <1>7 DEF RxRead, netvars, farvars
  <2>2. rbuf \in Nat /\ krcv \in Nat /\ rpos \in Nat /\ rnet \in Nat /\ CHARBUF_SIZE \in Nat
    BY SizesAssumption DEF TypeOK
  <2>3. PICK m \in Int : rbuf' = rbuf + m /\ krcv' = krcv - m
    BY <1>7, <2>2 DEF RxRead, Smaller, RxSpace
  <2>4. rpos' + rbuf' + krcv' + rnet' = rpos + rbuf + krcv + rnet
    BY <2>1, <2>2, <2>3
  <2> QED
    BY <1>3, <2>1, <2>4
<1>8. CASE RxHdr
  <2>1. rbuf' = rbuf - HdrLen /\ rpos' = rpos + HdrLen /\ UNCHANGED <<farvars, kvars>>
    BY <1>8, HdrEffect, Zenon
  <2>2. UNCHANGED <<resps, reqs, srvin, krcv, rnet>>
    BY <2>1 DEF farvars, kvars, netvars
  <2>3. rpos' + rbuf' + krcv' + rnet' = rpos + rbuf + krcv + rnet
    <3>1. rpos \in Nat /\ rbuf \in Nat /\ krcv \in Nat /\ rnet \in Nat /\ HdrLen \in Nat
      BY <1>0 DEF InNumbers
    <3> QED
      BY <2>1, <2>2, <3>1
  <2> QED
    BY <1>3, <2>2, <2>3
<1>9. CASE RxBodyPartial
  <2>1. rbuf' = 0 /\ rpos' = rpos + rbuf /\ UNCHANGED <<farvars, kvars>>
    BY <1>9, BodyPartialEffect, Zenon
  <2>2. UNCHANGED <<resps, reqs, srvin, krcv, rnet>>
    BY <2>1 DEF farvars, kvars, netvars
  <2>3. rpos' + rbuf' + krcv' + rnet' = rpos + rbuf + krcv + rnet
    <3>1. rpos \in Nat /\ rbuf \in Nat /\ krcv \in Nat /\ rnet \in Nat /\ HdrLen \in Nat
      BY <1>0 DEF InNumbers
    <3> QED
      BY <2>1, <2>2, <3>1
  <2> QED
    BY <1>3, <2>2, <2>3
<1>10. CASE RxBody
  <2> DEFINE b == rx_cbs[drop + 1].bodylen
  <2>1. rbuf' = rbuf - b /\ rpos' = rpos + b /\ b \in 0 .. rbuf /\ UNCHANGED <<farvars, kvars>>
    BY <1>10, BodyEffect, Zenon
  <2>2. UNCHANGED <<resps, reqs, srvin, krcv, rnet>>
    BY <2>1 DEF farvars, kvars, netvars
  <2> HIDE DEF b
  <2>3. rpos' + rbuf' + krcv' + rnet' = rpos + rbuf + krcv + rnet
    <3>1. rpos \in Nat /\ rbuf \in Nat /\ krcv \in Nat /\ rnet \in Nat /\ HdrLen \in Nat
      BY <1>0 DEF InNumbers
    <3> QED
      BY <2>1, <2>2, <3>1
  <2> QED
    BY <1>3, <2>2, <2>3
<1>11. CASE ConnectDone \/ PeerClose
  <2>1. UNCHANGED <<resps, reqs, srvin, rpos, rbuf, krcv, rnet>>
    BY <1>11 DEF ConnectDone, PeerClose, clientvars, rxvars, netvars
  <2> QED
    BY <1>3, <2>1
<1>12. CASE Arrive
  <2>1. PICK m \in 1 .. rnet : rnet' = rnet - m /\ krcv' = krcv + m
    BY <1>12 DEF Arrive
  <2>2. UNCHANGED <<resps, reqs, srvin, rpos, rbuf>>
    BY <1>12 DEF Arrive, clientvars, rxvars
  <2>3. rpos' + rbuf' + krcv' + rnet' = rpos + rbuf + krcv + rnet
    <3>1. rpos \in Nat /\ rbuf \in Nat /\ krcv \in Nat /\ rnet \in Nat /\ HdrLen \in Nat
      BY <1>0 DEF InNumbers
    <3> QED
      BY <2>1, <2>2, <3>1
  <2> QED
    BY <1>3, <2>2, <2>3
<1>13. CASE Deliver
  <2>1. PICK m \in 1 .. ksnd : srvin' = srvin + m
    BY <1>13 DEF Deliver
  <2>2. UNCHANGED <<resps, reqs, rpos, rbuf, krcv, rnet>>
    BY <1>13 DEF Deliver, clientvars, rxvars
  <2>3. ksnd \in Nat
    BY DEF TypeOK
  <2>4. srvin' \in Nat /\ srvin <= srvin' /\ Len(reqs') \in Nat /\ Len(reqs) <= Len(reqs')
    BY <1>0, <2>1, <2>2, <2>3 DEF InNumbers
  <2> QED
    BY <2>2, <2>4, SameIn
<1> QED
  BY <1>1, <1>2, <1>4, <1>5, <1>6, <1>7, <1>8, <1>9, <1>10, <1>11, <1>12, <1>13, NextCases
     DEF Elsewhere, TxStep, RxStep, Environment

-----------------------------------------------------------------------------
(* The inductive invariant. *)

(* The inductive invariant holds of a new socket.                          *)
LEMMA InitIInv == Init => IInv
<1> SUFFICES ASSUME Init PROVE IInv
  OBVIOUS
<1>0. /\ rx_cbs = << >> /\ tx_cbs = << >> /\ requests = << >> /\ sent = << >> /\ done = << >>
      /\ reqs = << >> /\ resps = << >>
      /\ rbuf = 0 /\ rpos = 0 /\ wbuf = 0 /\ tx_out = 0 /\ nbytes = 0 /\ drop = 0
      /\ ksnd = 0 /\ krcv = 0 /\ srvin = 0 /\ rnet = 0
      /\ pc = "new" /\ after = "idle" /\ ev = {} /\ err = "none" /\ link = "none"
  BY DEF Init
<1>1. \A S : << >> \in Seq(S)
  OBVIOUS
<1>2. Len(<< >>) = 0
  OBVIOUS
<1>3. TxTypes
  BY <1>0, <1>1, <1>2, SizesAssumption DEF TxTypes
<1>4. RxTypes
  BY <1>0, <1>1, <1>2, SizesAssumption DEF RxTypes
<1>5. FlagTypes
  BY Zenon DEF Init, FlagTypes, Points, Errors
<1>6. TypeOK
  BY <1>3, <1>4, <1>5, TypeParts
<1>7. Control
  BY <1>0 DEF Control
<1>8. Written = 0 /\ Accepted = 0 /\ Passed = 0 /\ Base = 0 /\ Counted = 0 /\ Reads = 0 /\ Gone = 0
      /\ Cur = 1 /\ ~ Parsed
  BY <1>0, <1>2 DEF Written, Accepted, Passed, Base, Counted, Reads, Gone, Cur, Parsed
<1>9. Outbound /\ SentOrder /\ Deltas
  BY <1>0, <1>2, <1>8 DEF Outbound, SentOrder, Deltas
<1>10. RecvOrder
  BY <1>0, <1>2, <1>8 DEF RecvOrder
<1>11. Wakeups
  BY <1>0 DEF Wakeups, Init
<1>12. Inbound
  <2>1. Responded = 0
    BY <1>0 DEF Responded
  <2> QED
    BY <1>0, <1>2, <2>1 DEF Inbound
<1> QED
  BY <1>6, <1>7, <1>9, <1>10, <1>11, <1>12 DEF IInv

(* Every step of the socket, the generator, the network and the server     *)
(* preserves the inductive invariant.                                      *)
LEMMA IInvPreserved == IInv /\ [Next]_vars => IInv'
<1> SUFFICES ASSUME IInv, [Next]_vars PROVE IInv'
  OBVIOUS
<1>1. /\ TypeOK /\ TxInv /\ Control /\ SentOrder /\ RecvOrder /\ Wakeups /\ Inbound
  BY TypeParts DEF IInv, TxInv
<1>2. TxInv' /\ RxTypes' /\ FlagTypes'
  BY <1>1, TxPreserved, RxTypesPreserved, FlagTypesPreserved, Zenon
<1>3. (TypeOK <=> TxTypes /\ RxTypes /\ FlagTypes)'
  BY Zenon DEF TypeOK, TxTypes, RxTypes, FlagTypes, TxEntry, RxEntry
<1>4. TypeOK'
  BY <1>2, <1>3, Zenon DEF TxInv
<1>5. Control' /\ RecvOrder' /\ Wakeups' /\ Inbound'
  BY <1>1, ControlPreserved, RecvPreserved, WakeupsPreserved, InboundPreserved, Zenon
<1> QED
  BY <1>2, <1>4, <1>5, Zenon DEF IInv, TxInv

(* The inductive invariant holds throughout: the queues of callbacks, the  *)
(* two streams and the wakeups agree in every reachable state, for all     *)
(* buffer sizes, queue limits and message lengths.                         *)
THEOREM Invariant == Spec => []IInv
BY InitIInv, IInvPreserved, PTL DEF Spec

(* TypeOK holds throughout: no buffer or queue of SockBuf exceeds its      *)
(* capacity and no count goes below zero, whatever the order in which      *)
(* writes, reads, callbacks and far-side steps come.                       *)
THEOREM TypeCorrect == Spec => []TypeOK
<1>1. IInv => TypeOK
  BY DEF IInv
<1> QED
  BY <1>1, Invariant, PTL

(* sent_request is called on time. *)
LEMMA OnTime == IInv => SentOnTime
<1> SUFFICES ASSUME IInv, pc # "txcb", Len(tx_cbs) < MAX_OUTSTANDING_REQS, NEW i \in DOMAIN reqs
             PROVE  (\E j \in DOMAIN sent : sent[j] = i) <=> reqs[i].end <= Accepted
  BY DEF SentOnTime
<1>1. TxNumbers /\ TypeOK /\ Control
  BY TxAreNumbers, TypeParts DEF IInv
<1>2. /\ Base \in Int /\ Len(tx_cbs) \in Nat /\ Len(sent) \in Nat /\ Len(reqs) \in Nat
      /\ Accepted \in Nat /\ Counted \in Int
  BY <1>1 DEF TxNumbers
<1>3. i \in 1 .. Len(reqs) /\ DOMAIN sent = 1 .. Len(sent)
  BY <1>1 DEF TypeOK
<1>4. Passed = 0 /\ Base = Len(sent) /\ Counted = Accepted
  BY <1>1, <1>2 DEF Passed, Base, Counted, Control
<1>5. Len(sent) + Len(tx_cbs) = Len(reqs)
  BY <1>4 DEF IInv, SentOrder
<1>6. CASE i \in 1 .. Len(sent)
  <2>1. sent[i] = i
    BY <1>6 DEF IInv, SentOrder
  <2>2. reqs[i].end <= Accepted
    BY <1>4, <1>6 DEF IInv, Deltas
  <2> QED
    BY <1>3, <1>6, <2>1, <2>2
<1>7. CASE i > Len(sent)
  <2>1. \A j \in DOMAIN sent : sent[j] # i
    BY <1>2, <1>3, <1>7 DEF IInv, SentOrder
  <2> DEFINE m == Len(sent) + 1
  <2>2. m \in 1 .. Len(reqs) /\ 1 \in 1 .. Len(tx_cbs) /\ Base + 1 = m /\ 1 > Passed /\ 1 = Passed + 1
    BY <1>2, <1>3, <1>4, <1>5, <1>7
  <2>3. tx_cbs[1].len = reqs[m].end - Accepted /\ tx_cbs[1].len > 0
    BY <1>4, <2>2 DEF IInv, Deltas
  <2>4. reqs[m].end \in Nat /\ reqs[i].end \in Nat /\ tx_cbs[1].len \in Nat
    BY <1>1, <1>3, <2>2 DEF TxNumbers
  <2> HIDE DEF m
  <2>5. reqs[m].end > Accepted
    BY <1>2, <2>3, <2>4
  <2>6. reqs[m].end <= reqs[i].end
    <3>1. CASE m = i
      BY <3>1, <2>4
    <3>2. CASE m < i
      <4>1. reqs[m].end < reqs[i].end
        BY <3>2, <1>3, <2>2 DEF IInv, Outbound
      <4> QED
        BY <4>1, <2>4
    <3> QED
      BY <3>1, <3>2, <1>2, <1>3, <1>7 DEF m
  <2> QED
    BY <1>2, <2>1, <2>4, <2>5, <2>6
<1> QED
  BY <1>2, <1>3, <1>6, <1>7

(* SentOnTime holds throughout: the deltas that write_cb_point stores and  *)
(* tx() counts down make sent_request run for exactly the requests whose   *)
(* last byte the kernel has accepted, however the writes are cut up.       *)
THEOREM SentCorrect == Spec => []SentOnTime
BY OnTime, Invariant, PTL

(* The record of the wakeups leaves none of them lost.                     *)
LEMMA Awake == IInv => NoLostWakeup
<1> SUFFICES ASSUME IInv, pc = "idle", ev = {}, ~ edge, link = "up"
             PROVE  /\ krcv > 0 => rx_cbs = << >> /\ rx_rdy
                    /\ wbuf > 0 => nospace /\ ksnd > SndLow
  BY DEF NoLostWakeup
<1>1. after # "out" /\ wbuf \in Nat /\ ksnd \in Nat /\ SndLow \in Nat
  BY SizesAssumption DEF IInv, Control, TypeOK
<1> QED
  BY <1>1 DEF IInv, Wakeups

(* NoLostWakeup holds throughout: with edge-triggered epoll, try_rx,       *)
(* try_tx and run_io never leave the socket idle with bytes to read, or    *)
(* room to write into, that no event will announce.                        *)
THEOREM WakeupsKept == Spec => []NoLostWakeup
BY Awake, Invariant, PTL

-----------------------------------------------------------------------------
(* The connection implements the request pipe. *)

(* A new socket is an empty request pipe.                                  *)
LEMMA PipeInit == Init => Pipe!Init
<1> SUFFICES ASSUME Init PROVE Pipe!Init
  OBVIOUS
<1>1. reqs = << >> /\ sent = << >> /\ done = << >> /\ err = "none"
  BY DEF Init
<1>2. Len(reqs) = 0
  BY <1>1
<1>3. (err # "none") = FALSE
  BY <1>1, Zenon
<1> QED
  BY <1>1, <1>2, <1>3, Zenon DEF Pipe!Init

(* A step of the thread that ends in an exception, or reports nothing. *)
LEMMA PipeQuiet ==
  ASSUME UNCHANGED <<reqs, sent, done>>, err' = err \/ (err = "none" /\ err' # "none")
  PROVE  [Pipe!Next]_Pipe!pipevars
<1>1. CASE err' = err
  BY <1>1 DEF Pipe!pipevars
<1>2. CASE err = "none" /\ err' # "none"
  <2>1. ~ (err # "none") /\ (err' # "none") = TRUE
    BY <1>2, Zenon
  <2>2. Len(reqs)' = Len(reqs)
    OBVIOUS
  <2> QED
    BY <2>1, <2>2, Zenon DEF Pipe!Next, Pipe!Fail
<1> QED
  BY <1>1, <1>2

(* Every step of the socket is a step of the request pipe or leaves it     *)
(* unchanged.                                                              *)
LEMMA PipeStep ==
  ASSUME IInv, IInv', [Next]_vars
  PROVE  [Pipe!Next]_Pipe!pipevars
<1>0. TypeOK /\ Control /\ RecvOrder /\ SentOrder
  BY DEF IInv
<1>1. ASSUME NEW kind \in Kinds, NEW len \in ReqLen[kind], Generate(kind, len)
      PROVE  [Pipe!Next]_Pipe!pipevars
  <2>1. CASE err' # "none"
    <3>1. UNCHANGED <<reqs, sent, done>> /\ pc = "idle"
      BY <1>1, <2>1, <1>0 DEF Generate, Control
    <3>2. err = "none"
      BY <1>0, <3>1 DEF Control
    <3> QED
      BY <2>1, <3>1, <3>2, PipeQuiet
  <2>2. CASE err' = "none"
    <3>1. /\ pc = "idle" /\ UNCHANGED <<sent, done>> /\ len \in Nat
          /\ reqs' = Append(reqs, [end |-> Written + len, kind |-> kind])
      BY <1>0, <1>1, <2>2, GenerateEffect, Zenon
    <3>2. err = "none"
      BY <1>0, <3>1 DEF Control
    <3>3. Len(reqs') = Len(reqs) + 1
      BY <1>0, <3>1 DEF TypeOK
    <3>4. ~ (err # "none") /\ (err' # "none") = (err # "none")
      BY <2>2, <3>2, Zenon
    <3> QED
      BY <3>1, <3>3, <3>4, Zenon DEF Pipe!Next, Pipe!Generate
  <2> QED
    BY <2>1, <2>2
<1>2. CASE TxCbFire
  <2> DEFINE k == drop + 1
  <2>1. /\ pc = "txcb" /\ drop < Len(tx_cbs) /\ sent' = Append(sent, tx_cbs[k].id)
        /\ UNCHANGED <<reqs, done, err>>
    BY <1>2 DEF TxCbFire, Visiting, sent_request, rxvars, farvars
  <2>2. err = "none" /\ (err' # "none") = (err # "none")
    BY <1>0, <2>1 DEF Control
  <2>3. /\ drop \in Nat /\ Len(tx_cbs) \in Nat /\ Len(sent) \in Nat /\ Len(reqs) \in Nat
    BY <1>0 DEF TypeOK
  <2>4. Base = Len(sent) - drop
    BY <2>1 DEF Base, Passed
  <2>5. k \in 1 .. Len(tx_cbs)
    BY <2>1, <2>3
  <2>6. tx_cbs[k].id = Base + k /\ Base + Len(tx_cbs) = Len(reqs)
    BY <1>0, <2>5 DEF SentOrder
  <2>7. tx_cbs[k].id = Len(sent) + 1 /\ Len(sent) < Len(reqs)
    BY <2>1, <2>3, <2>4, <2>6
  <2>8. Len(reqs)' = Len(reqs)
    BY <2>1
  <2> QED
    BY <2>1, <2>2, <2>7, <2>8, Zenon DEF Pipe!Next, Pipe!ReportSent
<1>3. CASE RxHdr
  <2>1. UNCHANGED <<reqs, sent>> /\ err = "none" /\ rx_cbs[drop + 1].id = Gone + 1 /\ Len(done) = Gone
    BY <1>0, <1>3, HdrEffect, NeverMismatch DEF farvars, txvars
  <2>2. CASE err' # "none"
    BY <1>3, <2>1, <2>2, RecvEffect, PipeQuiet
  <2>3. CASE err' = "none"
    <3>1. done' = Append(done, rx_cbs[drop + 1].id) /\ err' = err
      BY <1>3, <2>1, <2>3, RecvEffect
    <3>2. done' = Append(done, Len(done) + 1)
      BY <2>1, <3>1
    <3>3. Len(done') <= Len(sent')
      BY <2>3 DEF IInv, RecvOrder
    <3>4. rx_cbs[drop + 1].id \in Ids /\ Len(done) \in Nat /\ Len(sent) \in Nat /\ done \in Seq(Ids)
      <4>1. Visiting(rx_cbs)
        BY <1>3 DEF RxHdr
      <4>2. rx_cbs[drop + 1].id \in Ids
        BY <1>0, <4>1, RxVisits, Zenon
      <4> QED
        BY <1>0, <4>2, SMTT(30) DEF TypeOK
    <3>5. Len(done') = Len(done) + 1
      BY <3>1, <3>4, AppendSeq
    <3>6. Len(done) < Len(sent)
      BY <2>1, <3>3, <3>4, <3>5
    <3>7. ~ (err # "none") /\ (err' # "none") = (err # "none") /\ Len(reqs)' = Len(reqs)
      BY <2>1, <3>1
    <3> QED
      BY <2>1, <3>2, <3>6, <3>7, Zenon DEF Pipe!Next, Pipe!Record
  <2> QED
    BY <2>2, <2>3
<1>4. CASE Connect \/ SockRead \/ EpollWait \/ RunIo \/ RunOut \/ UNCHANGED vars
  <2>1. UNCHANGED <<reqs, sent, done>>
    BY <1>4 DEF Connect, SockRead, EpollWait, RunIo, RunOut, vars, rxvars, txvars, farvars
  <2>2. err' = err \/ (err = "none" /\ err' # "none")
    BY <1>0, <1>4 DEF Connect, SockRead, EpollWait, RunIo, RunOut, vars, Throw, Control
  <2> QED
    BY <2>1, <2>2, PipeQuiet
<1>5. CASE TxReturn \/ TxAgain \/ TxWrite \/ TxError \/ TxCbPartial \/ TxCbEnd
  <2>1. UNCHANGED <<reqs, sent, done>>
    BY <1>5 DEF TxReturn, TxAgain, TxWrite, TxError, TxCbPartial, TxCbEnd, rxvars, txvars, farvars
  <2>2. err' = err \/ (err = "none" /\ err' # "none")
    BY <1>0, <1>5 DEF TxReturn, TxAgain, TxWrite, TxError, TxCbPartial, TxCbEnd, Throw, Control
  <2> QED
    BY <2>1, <2>2, PipeQuiet
<1>6. CASE RxReturn \/ RxFull \/ RxAgain \/ RxError \/ RxRead \/ RxHdrPartial \/ RxBodyPartial
             \/ RxBody \/ RxCbEnd
  <2>1. UNCHANGED <<reqs, sent, done>>
    BY <1>6 DEF RxReturn, RxFull, RxAgain, RxError, RxRead, RxHdrPartial, RxBodyPartial, RxBody,
       RxCbEnd, rxvars, txvars, farvars
  <2>2. err' = err \/ (err = "none" /\ err' # "none")
    BY <1>0, <1>6 DEF RxReturn, RxFull, RxAgain, RxError, RxRead, RxHdrPartial, RxBodyPartial,
       RxBody, RxCbEnd, Throw, Control
  <2> QED
    BY <2>1, <2>2, PipeQuiet
<1>7. CASE Environment
  <2>1. UNCHANGED <<reqs, sent, done, err>>
    BY <1>7 DEF Environment, ConnectDone, Deliver, Answer, Arrive, PeerClose, clientvars, rxvars, txvars
  <2> QED
    BY <2>1, PipeQuiet
<1> QED
  BY <1>1, <1>2, <1>3, <1>4, <1>5, <1>6, <1>7, NextCases DEF Elsewhere, RxStep

(* ImplementsPipe holds: the buffered socket, with its two queues of       *)
(* callbacks, partial reads and writes and epoll, implements RequestPipe,  *)
(* in which requests are sent and answered once each and in order. It      *)
(* needs no assumption about the server's framing.                         *)
THEOREM Refinement == Spec => ImplementsPipe
<1>1. IInv /\ IInv' /\ [Next]_vars => [Pipe!Next]_Pipe!pipevars
  BY PipeStep
<1> QED
  BY <1>1, PipeInit, Invariant, PTL DEF Spec, ImplementsPipe, Pipe!Spec

-----------------------------------------------------------------------------
(* Parsing, as long as no header of a get's response wraps within its body *)
(* length and only those responses have a body.                            *)

OnlyGetsHaveBodies == \A k \in Kinds \ {"get"} : Bodies[k] = {0}

(* A header in rbuf_ is that of the response the entry at hand waits for.  *)
LEMMA HeaderAtHand ==
  ASSUME IInv, InStep, pc = "rxcb", Visiting(rx_cbs), rx_cbs[drop + 1].hdrlen \in 1 .. rbuf
  PROVE  /\ rx_cbs[drop + 1].id \in 1 .. Len(resps)
         /\ rx_cbs[drop + 1].id = Len(done) + 1
         /\ rpos = resps[rx_cbs[drop + 1].id].start
<1>0. TypeOK /\ Control /\ RecvOrder /\ Inbound
  BY DEF IInv
<1>1. /\ err = "none" /\ Cur = drop + 1 /\ rx_cbs[Cur].id = Gone + 1 /\ Gone \in Nat
      /\ Parsed <=> rx_cbs[Cur].hdrlen = 0
      /\ Len(done) = IF Parsed THEN Gone + 1 ELSE Gone
  BY <1>0, AtHand, Zenon
<1>2. ~ Parsed /\ Len(done) = Gone /\ rx_cbs[drop + 1].id = Len(done) + 1
  BY <1>1
<1>3. InNumbers
  BY <1>0, InAreNumbers
<1>4. /\ rpos \in Nat /\ rbuf \in Nat /\ krcv \in Nat /\ rnet \in Nat /\ rbuf > 0
      /\ Len(resps) \in Nat /\ Len(done) \in Nat /\ Responded \in Nat
  BY <1>1, <1>2, <1>3 DEF InNumbers
<1>5. Len(done) <= Len(resps) /\ rpos + 0 = EndOf(Len(done))
  BY <1>1, <1>2 DEF InStep, Pending
<1>6. rpos + rbuf + krcv + rnet = Responded
  BY <1>0 DEF Inbound
<1>7. rpos < Responded /\ rpos = EndOf(Len(done))
  BY <1>4, <1>5, <1>6
<1>8. Responded = EndOf(Len(resps))
  <2>1. resps = << >> <=> Len(resps) = 0
    BY <1>0 DEF TypeOK
  <2> QED
    BY <2>1 DEF Responded, EndOf
<1>9. Len(done) < Len(resps)
  BY <1>4, <1>5, <1>7, <1>8
<1> DEFINE n == Len(done) + 1
<1>10. n \in 1 .. Len(resps) /\ n - 1 = Len(done) /\ (n = 1 <=> Len(done) = 0)
  BY <1>4, <1>9
<1>11. resps[n].start = IF n = 1 THEN 0 ELSE RespEnd(resps[n - 1])
  BY <1>0, <1>10 DEF Inbound
<1>12. resps[n].start = EndOf(Len(done))
  BY <1>10, <1>11 DEF EndOf
<1> QED
  BY <1>2, <1>7, <1>10, <1>12

(* A header that does not wrap lies in the first segment.                  *)
LEMMA SegmentWhole ==
  ASSUME TypeOK, HeadersWhole, NEW i \in DOMAIN resps, reqs[i].kind = "get",
         rpos = resps[i].start
  PROVE  ~ (FirstSegment < HdrLen)
<1>1. rpos % CHARBUF_SIZE <= CHARBUF_SIZE - HdrLen
  BY DEF HeadersWhole
<1>2. rpos \in Nat /\ CHARBUF_SIZE \in Nat \ {0} /\ HdrLen \in Nat
  BY SizesAssumption DEF TypeOK
<1>3. rpos % CHARBUF_SIZE \in Int
  BY <1>2
<1> DEFINE q == rpos % CHARBUF_SIZE
<1> HIDE DEF q
<1>4. q \in Int /\ q <= CHARBUF_SIZE - HdrLen /\ FirstSegment = CHARBUF_SIZE - q
  BY <1>1, <1>3 DEF q, FirstSegment
<1> QED
  BY <1>2, <1>4

(* What the header at hand says is the length of the body that follows.    *)
LEMMA BodyAtHand ==
  ASSUME IInv, InStep, HeadersWhole, OnlyGetsHaveBodies, pc = "rxcb", Visiting(rx_cbs),
         rx_cbs[drop + 1].hdrlen \in 1 .. rbuf, NEW body \in ParsedBodies(rx_cbs[drop + 1].id)
  PROVE  body = resps[rx_cbs[drop + 1].id].body
<1> DEFINE id == rx_cbs[drop + 1].id
<1>1. id \in 1 .. Len(resps) /\ rpos = resps[id].start
  BY HeaderAtHand, Zenon
<1> HIDE DEF id
<1>2. TypeOK /\ Inbound /\ InNumbers
  BY InAreNumbers DEF IInv
<1>3. id \in 1 .. Len(reqs) /\ DOMAIN resps = 1 .. Len(resps)
  BY <1>1, <1>2 DEF Inbound, TypeOK, InNumbers
<1>4. reqs[id].kind \in Kinds /\ resps[id].body \in Bodies[reqs[id].kind]
  BY <1>1, <1>2, <1>3 DEF Inbound, InNumbers
<1>5. CASE reqs[id].kind # "get"
  <2>1. body = 0
    BY <1>5 DEF ParsedBodies, id
  <2>2. Bodies[reqs[id].kind] = {0}
    BY <1>4, <1>5 DEF OnlyGetsHaveBodies
  <2> QED
    BY <1>4, <2>1, <2>2 DEF id
<1>6. CASE reqs[id].kind = "get"
  <2>1. ~ (FirstSegment < BodyLenEnd)
    <3>1. ~ (FirstSegment < HdrLen)
      BY <1>1, <1>2, <1>3, <1>6, SegmentWhole
    <3>2. FirstSegment \in Int /\ HdrLen \in Nat /\ BodyLenEnd \in 1 .. HdrLen
      BY <1>2, SizesAssumption DEF InNumbers, FirstSegment
    <3> QED
      BY <3>1, <3>2
  <2>2. body \in {resps[i].body : i \in {j \in DOMAIN resps : resps[j].start = rpos}}
    <3>1. body \in HeaderSays
      BY <1>6 DEF ParsedBodies, id
    <3>2. \E i \in DOMAIN resps : resps[i].start = rpos
      BY <1>1, <1>3
    <3> QED
      BY <2>1, <3>1, <3>2, Zenon DEF HeaderSays, HeaderHolds
  <2>3. PICK i \in 1 .. Len(resps) : resps[i].start = rpos /\ body = resps[i].body
    BY <1>3, <2>2
  <2>4. resps[i].start \in Nat /\ resps[id].start \in Nat /\ Len(resps) \in Nat
    BY <1>1, <1>2 DEF InNumbers
  <2>5. i = id
    <3>1. ~ (i < id) /\ ~ (id < i)
      BY <1>1, <1>2, <2>3, <2>4 DEF Inbound
    <3> QED
      BY <1>1, <2>4, <3>1
  <2> QED
    BY <2>3, <2>5 DEF id
<1> QED
  BY <1>5, <1>6

(* recv_response stays within the header it puts together. *)
LEMMA NeverOverrun ==
  ASSUME IInv, InStep, HeadersWhole, RxHdr
  PROVE  ~ Overruns(rx_cbs[drop + 1].id)
<1>1. TypeOK /\ Control
  BY DEF IInv
<1>2. pc = "rxcb" /\ Visiting(rx_cbs) /\ rx_cbs[drop + 1].hdrlen \in 1 .. rbuf
  BY <1>1, HdrEffect, Zenon
<1> DEFINE id == rx_cbs[drop + 1].id
<1>3. id \in 1 .. Len(resps) /\ rpos = resps[id].start
  BY <1>2, HeaderAtHand, Zenon
<1> HIDE DEF id
<1>4. id \in DOMAIN resps
  BY <1>1, <1>3 DEF TypeOK
<1>5. ~ Overruns(id)
  BY <1>1, <1>3, <1>4, SegmentWhole, Zenon DEF Overruns
<1> QED
  BY <1>5 DEF id

(* A response that is being received was asked for and sent. *)
LEMMA NeverEarly ==
  ASSUME IInv, InStep, RxHdr
  PROVE  \E i \in DOMAIN sent : sent[i] = rx_cbs[drop + 1].id
<1> DEFINE id == rx_cbs[drop + 1].id
<1>0. TypeOK /\ Control /\ RecvOrder /\ Inbound /\ SentOrder
  BY DEF IInv
<1>1. pc = "rxcb" /\ Visiting(rx_cbs) /\ rx_cbs[drop + 1].hdrlen \in 1 .. rbuf
  BY <1>0, HdrEffect, Zenon
<1>2. id \in 1 .. Len(resps)
  BY <1>1, HeaderAtHand, Zenon
<1> HIDE DEF id
<1>3. id \in 1 .. Len(reqs) /\ reqs[id].end <= srvin
  BY <1>0, <1>2 DEF Inbound, TypeOK
<1>4. reqs[id].end <= Accepted
  <2>1. reqs[id].end \in Nat /\ srvin \in Nat /\ ksnd \in Nat
    BY <1>0, <1>3, InAreNumbers DEF InNumbers, TypeOK
  <2> QED
    BY <1>3, <2>1 DEF Accepted
<1>5. Len(tx_cbs) < MAX_OUTSTANDING_REQS
  <2>1. /\ Len(rx_cbs) \in Nat /\ Len(tx_cbs) \in Nat /\ Len(done) \in Nat /\ Len(sent) \in Nat
        /\ Len(reqs) \in Nat /\ drop \in Nat /\ MAX_OUTSTANDING_REQS \in Nat
    BY <1>0, SizesAssumption DEF TypeOK
  <2>2. Gone \in Nat /\ err = "none" /\ Gone <= Len(done)
    <3>1. Gone \in Nat /\ err = "none" /\ Len(done) = IF Parsed THEN Gone + 1 ELSE Gone
      BY <1>0, <1>1, AtHand, Zenon
    <3> QED
      BY <3>1
  <2>3. Len(done) <= Len(sent)
    BY <1>0, <2>2 DEF RecvOrder
  <2>4. Gone = Len(reqs) - Len(rx_cbs) + drop
    BY <1>0, <1>1 DEF Gone, Reads, Control
  <2>5. Len(sent) + Len(tx_cbs) = Len(reqs)
    BY <1>0, <1>1, <2>1 DEF SentOrder, Base, Passed
  <2>6. Len(rx_cbs) < MAX_OUTSTANDING_REQS
    BY <1>1 DEF Visiting
  <2> QED
    BY <2>1, <2>2, <2>3, <2>4, <2>5, <2>6
<1>6. SentOnTime
  BY OnTime
<1>7. id \in DOMAIN reqs
  BY <1>0, <1>3, SMTT(30) DEF TypeOK
<1>8. (\E j \in DOMAIN sent : sent[j] = id) <=> reqs[id].end <= Accepted
  BY <1>1, <1>5, <1>6, <1>7 DEF SentOnTime
<1> QED
  BY <1>4, <1>8, Zenon DEF id

(* A step after which as much of the response stream is accounted for. *)
LEMMA KeepStep ==
  ASSUME TypeOK, InStep, err' = "none" => err = "none",
         done' = done, Len(resps') \in Nat, Len(resps) <= Len(resps'),
         \A i \in 1 .. Len(resps) : resps'[i] = resps[i],
         rpos' + Pending' = rpos + Pending
  PROVE  InStep'
<1> SUFFICES ASSUME err' = "none" PROVE InStep'
  BY DEF InStep
<1>1. Len(done) <= Len(resps) /\ rpos + Pending = EndOf(Len(done))
  BY DEF InStep
<1>2. Len(done) \in Nat /\ Len(resps) \in Nat
  BY DEF TypeOK
<1>3. Len(done') <= Len(resps')
  BY <1>1, <1>2
<1>4. EndOf(Len(done))' = EndOf(Len(done))
  <2>1. CASE Len(done) = 0
    BY <2>1 DEF EndOf
  <2>2. CASE Len(done) # 0
    <3>1. Len(done) \in 1 .. Len(resps)
      BY <1>1, <1>2, <2>2
    <3>2. resps'[Len(done)] = resps[Len(done)]
      BY <3>1
    <3> QED
      BY <2>2, <3>2 DEF EndOf, RespEnd
  <2> QED
    BY <2>1, <2>2
<1> QED
  BY <1>1, <1>3, <1>4 DEF InStep

(* A header is received. *)
LEMMA HdrStep ==
  ASSUME IInv, IInv', InStep, HeadersWhole, OnlyGetsHaveBodies, RxHdr
  PROVE  InStep'
<1> SUFFICES ASSUME err' = "none" PROVE InStep'
  BY DEF InStep
<1> DEFINE k == drop + 1
           id == rx_cbs[k].id
<1>0. TypeOK /\ Control /\ RecvOrder /\ InNumbers
  BY InAreNumbers DEF IInv
<1>1. /\ pc = "rxcb" /\ Visiting(rx_cbs) /\ drop' = drop
      /\ rx_cbs[k].hdrlen \in 1 .. rbuf
      /\ rpos' = rpos + HdrLen /\ UNCHANGED farvars /\ Len(rx_cbs') = Len(rx_cbs)
      /\ \E body \in ParsedBodies(id) : rx_cbs'[k] = [id |-> id, hdrlen |-> 0, bodylen |-> body]
  BY <1>0, HdrEffect, Zenon
<1>2. id \in 1 .. Len(resps) /\ id = Len(done) + 1 /\ rpos = resps[id].start
  BY <1>1, HeaderAtHand, Zenon
<1>3. PICK body \in ParsedBodies(id) : rx_cbs'[k] = [id |-> id, hdrlen |-> 0, bodylen |-> body]
  BY <1>1
<1>4. body = resps[id].body
  BY <1>1, BodyAtHand, Zenon
<1>5. rx_cbs'[k].hdrlen = 0 /\ rx_cbs'[k].bodylen = body
  BY <1>3
<1>6. done' = Append(done, id) /\ pc' = pc
  BY RecvEffect
<1>7. k \in 1 .. Len(rx_cbs) /\ id \in Ids
  BY <1>0, <1>1, RxVisits, Zenon
<1>8. Cur' = k
  BY <1>1, <1>6 DEF Cur
<1> HIDE DEF k, id
<1>9. Pending' = body
  <2>1. k <= Len(rx_cbs')
    BY <1>1, <1>7, <1>0 DEF TypeOK
  <2> QED
    BY <1>5, <1>8, <2>1 DEF Pending, Parsed
<1>10. Len(done') = id
  <2>1. done \in Seq(Ids)
    BY <1>0 DEF TypeOK
  <2> QED
    BY <1>2, <1>6, <1>7, <2>1
<1>11. resps' = resps
  BY <1>1 DEF farvars, netvars
<1>12. /\ resps[id].start \in Nat /\ resps[id].body \in Nat /\ HdrLen \in Nat /\ Len(resps) \in Nat
       /\ RespEnd(resps[id]) = resps[id].start + HdrLen + resps[id].body
  BY <1>0, <1>2 DEF InNumbers, RespEnd
<1>13. Len(done') <= Len(resps')
  BY <1>2, <1>10, <1>11, <1>12
<1>14. EndOf(Len(done))' = RespEnd(resps[id])
  BY <1>2, <1>10, <1>11, <1>12 DEF EndOf, RespEnd
<1>15. rpos' + Pending' = EndOf(Len(done))'
  BY <1>1, <1>2, <1>4, <1>9, <1>12, <1>14
<1> QED
  BY <1>13, <1>15 DEF InStep

(* The rest of a body, all of it, or the end of the loop. *)
LEMMA BodyStep ==
  ASSUME IInv, IInv', InStep, RxBody
  PROVE  InStep'
<1> DEFINE b == rx_cbs[drop + 1].bodylen
<1>0. TypeOK /\ Control /\ RecvOrder
  BY DEF IInv
<1>1. /\ pc = "rxcb" /\ Visiting(rx_cbs) /\ rx_cbs[drop + 1].hdrlen = 0 /\ b \in 0 .. rbuf
      /\ rpos' = rpos + b /\ drop' = drop + 1 /\ Len(rx_cbs') = Len(rx_cbs)
      /\ UNCHANGED <<done, pc, after, farvars, err>>
  BY <1>0, BodyEffect, Zenon
<1>2. /\ err = "none" /\ Cur = drop + 1 /\ (Parsed <=> rx_cbs[Cur].hdrlen = 0)
      /\ Len(done) = IF Parsed THEN Gone + 1 ELSE Gone
  BY <1>0, <1>1, AtHand, Zenon
<1>3. Pending = b /\ Len(done) = Gone + 1
  BY <1>1, <1>2 DEF Pending
<1>4. UNCHANGED <<reqs, resps>>
  BY <1>1 DEF farvars, netvars
<1>5. /\ Len(rx_cbs) \in Nat /\ Len(reqs) \in Nat /\ drop \in Nat /\ Reads \in Int /\ Gone \in Int
      /\ Len(resps) \in Nat /\ rpos \in Nat /\ rbuf \in Nat
  BY <1>0, RxAreNumbers DEF RxNumbers
<1>6. Gone' = Gone + 1
  <2>1. Reads' = Reads
    BY <1>1, <1>4 DEF Reads
  <2>2. Gone = Reads - Len(rx_cbs) + drop /\ Gone' = Reads - Len(rx_cbs) + (drop + 1)
    BY <1>1, <2>1 DEF Gone
  <2> QED
    BY <1>5, <2>2
<1>7. Len(done') = IF Parsed' THEN Gone' + 1 ELSE Gone'
  BY <1>1, <1>2 DEF IInv, RecvOrder
<1>8. ~ Parsed'
  BY <1>1, <1>3, <1>5, <1>6, <1>7
<1>9. Pending' = 0
  BY <1>8 DEF Pending
<1> HIDE DEF b
<1>10. rpos' + Pending' = rpos + Pending
  BY <1>1, <1>3, <1>5, <1>9
<1> QED
  BY <1>0, <1>1, <1>4, <1>5, <1>10, KeepStep

(* While headers are whole, every step keeps rx() in step with the stream  *)
(* of responses.                                                           *)
LEMMA InStepPreserved ==
  ASSUME IInv, IInv', InStep, HeadersWhole, OnlyGetsHaveBodies, [Next]_vars
  PROVE  InStep'
<1>0. TypeOK /\ Control /\ RecvOrder /\ TypeOK'
  BY DEF IInv
<1>1. /\ Len(rx_cbs) \in Nat /\ drop \in Nat /\ Len(resps) \in Nat /\ rpos \in Nat /\ rbuf \in Nat
      /\ after \in {"idle", "read", "out"} /\ HdrLen \in Nat /\ HdrLen > 0
  BY <1>0, RxAreNumbers DEF RxNumbers, TypeOK
<1>2. CASE RxHdr
  BY <1>2, HdrStep
<1>3. CASE RxBody
  BY <1>3, BodyStep
<1>4. CASE RxBodyPartial
  <2> DEFINE b == rx_cbs[drop + 1].bodylen
  <2>1. /\ pc = "rxcb" /\ pc' = "rx" /\ Visiting(rx_cbs) /\ rpos' = rpos + rbuf
        /\ rx_cbs[drop + 1].hdrlen = 0
        /\ UNCHANGED <<done, farvars, err>> /\ Len(rx_cbs') = Len(rx_cbs) - drop
        /\ rx_cbs'[1] = [id |-> rx_cbs[drop + 1].id, hdrlen |-> 0, bodylen |-> b - rbuf]
    BY <1>0, <1>4, BodyPartialEffect, Zenon
  <2>2. drop + 1 \in 1 .. Len(rx_cbs) /\ b \in Nat
    BY <1>0, <2>1, RxVisits, Zenon
  <2>3. Cur = drop + 1 /\ Cur' = 1
    BY <2>1 DEF Cur
  <2>4. Pending = b
    BY <2>1, <2>2, <2>3 DEF Pending, Parsed
  <2>5. rx_cbs'[1].hdrlen = 0 /\ rx_cbs'[1].bodylen = b - rbuf
    BY <2>1
  <2> HIDE DEF b
  <2>6. 1 <= Len(rx_cbs')
    BY <1>1, <2>1, <2>2
  <2>7. Pending' = b - rbuf
    BY <2>3, <2>5, <2>6 DEF Pending, Parsed
  <2>8. rpos' + Pending' = rpos + Pending
    BY <1>1, <2>1, <2>2, <2>4, <2>7
  <2>9. resps' = resps
    BY <2>1 DEF farvars, netvars
  <2> QED
    BY <1>0, <1>1, <2>1, <2>8, <2>9, KeepStep
<1>5. CASE RxHdrPartial \/ RxCbEnd
  <2>1. /\ pc = "rxcb" /\ pc' = "rx" /\ UNCHANGED <<rpos, done, farvars, err>>
        /\ drop \in 0 .. Len(rx_cbs) /\ Len(rx_cbs') = Len(rx_cbs) - drop
        /\ \A j \in 1 .. Len(rx_cbs') : rx_cbs'[j] = rx_cbs[drop + j]
    BY <1>0, <1>5, LeaveEffect, Zenon
  <2>2. Cur = drop + 1 /\ Cur' = 1 /\ (Cur' <= Len(rx_cbs') <=> Cur <= Len(rx_cbs))
    BY <1>1, <2>1 DEF Cur
  <2>3. Cur' <= Len(rx_cbs') => rx_cbs'[Cur'] = rx_cbs[Cur]
    BY <1>1, <2>1, <2>2
  <2>4. Pending' = Pending
    BY <2>2, <2>3 DEF Pending, Parsed
  <2>5. resps' = resps
    BY <2>1 DEF farvars, netvars
  <2> QED
    BY <1>0, <1>1, <2>1, <2>4, <2>5, KeepStep
<1>6. CASE SockRead
  <2>1. /\ pc = "read" /\ UNCHANGED <<rpos, done, resps>> /\ (err' = "none" => err = "none")
        /\ pc' # "rxcb"
    BY <1>6, <1>0 DEF SockRead, Throw, farvars, netvars, Control
  <2>2. \/ rx_cbs' = rx_cbs
        \/ rx_cbs' = Append(rx_cbs, [id |-> Len(reqs), hdrlen |-> HdrLen, bodylen |-> 0])
    BY <1>6 DEF SockRead
  <2>3. Cur = 1 /\ Cur' = 1
    BY <2>1 DEF Cur
  <2>4. Pending' = Pending
    <3>1. CASE rx_cbs' = rx_cbs
      BY <2>3, <3>1 DEF Pending, Parsed
    <3>2. CASE rx_cbs' # rx_cbs
      <4> DEFINE e == [id |-> Len(reqs), hdrlen |-> HdrLen, bodylen |-> 0]
      <4>1. rx_cbs \in Seq(RxEntry)
        BY <1>0 DEF TypeOK, RxEntry
      <4>2. Len(reqs) \in Ids
        BY <1>0, <1>6, SizesAssumption DEF SockRead, Control, TypeOK, Ids
      <4>3. e \in RxEntry /\ e.hdrlen = HdrLen
        BY <4>2 DEF RxEntry
      <4> HIDE DEF e
      <4>4. /\ Len(rx_cbs') = Len(rx_cbs) + 1 /\ rx_cbs'[Len(rx_cbs) + 1] = e
            /\ \A i \in 1 .. Len(rx_cbs) : rx_cbs'[i] = rx_cbs[i]
        BY <2>2, <3>2, <4>1, <4>3, AppendSeq DEF e
      <4>5. CASE Len(rx_cbs) = 0
        BY <1>1, <2>3, <4>3, <4>4, <4>5 DEF Pending, Parsed
      <4>6. CASE Len(rx_cbs) > 0
        <5>1. 1 \in 1 .. Len(rx_cbs) /\ 1 <= Len(rx_cbs) /\ 1 <= Len(rx_cbs')
          BY <1>1, <4>4, <4>6
        <5> QED
          BY <2>3, <4>4, <5>1 DEF Pending, Parsed
      <4> QED
        BY <1>1, <4>5, <4>6
    <3> QED
      BY <3>1, <3>2
  <2> QED
    BY <1>0, <1>1, <2>1, <2>4, KeepStep
<1>7. ASSUME err' = "none" => err = "none", UNCHANGED <<rpos, done, rx_cbs>>, Cur' = Cur,
             resps' = resps
      PROVE  InStep'
  <2>1. Pending' = Pending
    BY <1>7 DEF Pending, Parsed
  <2> QED
    BY <1>0, <1>1, <1>7, <2>1, KeepStep
<1>8. ASSUME NEW kind \in Kinds, NEW len \in ReqLen[kind], Generate(kind, len)
      PROVE  InStep'
  <2>1. UNCHANGED <<rpos, done, rx_cbs, resps>> /\ pc = "idle" /\ pc' # "rxcb"
    BY <1>8 DEF Generate, Throw, netvars
  <2>2. err = "none" /\ Cur' = Cur
    BY <1>0, <2>1 DEF Control, Cur
  <2> QED
    BY <1>7, <2>1, <2>2
<1>9. CASE Connect \/ EpollWait \/ RunIo \/ RunOut \/ UNCHANGED vars
  <2>1. UNCHANGED <<rpos, done, rx_cbs, resps>>
    BY <1>9 DEF Connect, EpollWait, RunIo, RunOut, vars, rxvars, farvars, netvars
  <2>2. (err' = "none" => err = "none") /\ Cur' = Cur
    BY <1>0, <1>1, <1>9 DEF Connect, EpollWait, RunIo, RunOut, vars, Throw, Cur, Control, loopvars
  <2> QED
    BY <1>7, <2>1, <2>2
<1>10. CASE TxStep
  <2>1. UNCHANGED <<rpos, done, rx_cbs, resps>>
    BY <1>10 DEF TxStep, TxReturn, TxAgain, TxWrite, TxError, TxCbPartial, TxCbFire, TxCbEnd,
       rxvars, farvars, netvars
  <2>2. (err' = "none" => err = "none") /\ pc # "rxcb" /\ pc' # "rxcb"
    BY <1>0, <1>1, <1>10 DEF TxStep, TxReturn, TxAgain, TxWrite, TxError, TxCbPartial, TxCbFire,
       TxCbEnd, Throw, Control
  <2>3. Cur' = Cur
    BY <2>2 DEF Cur
  <2> QED
    BY <1>7, <2>1, <2>2, <2>3
<1>11. CASE RxReturn \/ RxFull \/ RxAgain \/ RxError \/ RxRead
  <2>1. UNCHANGED <<rpos, done, rx_cbs, resps>>
    BY <1>11 DEF RxReturn, RxFull, RxAgain, RxError, RxRead, rxvars, farvars, netvars
  <2>2. (err' = "none" => err = "none") /\ Cur' = Cur
    BY <1>0, <1>1, <1>11 DEF RxReturn, RxFull, RxAgain, RxError, RxRead, Throw, Cur
  <2> QED
    BY <1>7, <2>1, <2>2
<1>12. CASE ConnectDone \/ Deliver \/ Arrive \/ PeerClose
  <2>1. UNCHANGED <<rpos, done, rx_cbs, resps, err, pc, drop>>
    BY <1>12 DEF ConnectDone, Deliver, Arrive, PeerClose, clientvars, rxvars, loopvars, netvars
  <2>2. Cur' = Cur
    BY <2>1 DEF Cur
  <2> QED
    BY <1>7, <2>1, <2>2
<1>13. CASE Answer
  <2>1. UNCHANGED <<rpos, done, rx_cbs, err, pc, drop>>
    BY <1>13 DEF Answer, clientvars, rxvars, loopvars
  <2>2. Pending' = Pending
    BY <2>1 DEF Pending, Parsed, Cur
  <2>3. PICK body \in Bodies[reqs[Len(resps) + 1].kind] :
          resps' = Append(resps, [start |-> Responded, body |-> body])
    BY <1>13 DEF Answer
  <2>4. Responded \in Nat /\ body \in Nat
    <3>1. InNumbers
      BY <1>0, InAreNumbers
    <3>2. Len(resps) + 1 \in 1 .. Len(reqs)
      BY <1>13, <3>1 DEF Answer, InNumbers
    <3>3. reqs[Len(resps) + 1].kind \in Kinds /\ Responded \in Nat
      BY <3>1, <3>2 DEF InNumbers
    <3> QED
      BY <3>3, KindsAssumption
  <2>5. Len(resps') = Len(resps) + 1 /\ \A i \in 1 .. Len(resps) : resps'[i] = resps[i]
    BY <1>0, <2>3, <2>4 DEF TypeOK
  <2>6. Len(resps') \in Nat /\ Len(resps) <= Len(resps')
    BY <1>1, <2>5
  <2> QED
    BY <1>0, <2>1, <2>2, <2>5, <2>6, KeepStep
<1> QED
  BY <1>2, <1>3, <1>4, <1>5, <1>6, <1>8, <1>9, <1>10, <1>11, <1>12, <1>13, NextCases
     DEF Elsewhere, TxStep, RxStep, Environment

(* rx() leaves rbuf_ empty when it leaves rx_cbs_ empty. *)
LEMMA AllRead ==
  ASSUME IInv, InStep, RxCbEnd, Len(rx_cbs) < MAX_OUTSTANDING_REQS
  PROVE  Len(rx_cbs') = 0 /\ rbuf' = 0
<1>0. TypeOK /\ Control /\ RecvOrder /\ Inbound /\ InNumbers
  BY InAreNumbers DEF IInv
<1>1. /\ pc = "rxcb" /\ err = "none" /\ rbuf' = rbuf /\ drop \in 0 .. Len(rx_cbs)
      /\ Len(rx_cbs') = Len(rx_cbs) - drop
  BY <1>0, LeaveEffect, Zenon
<1>2. /\ Len(rx_cbs) \in Nat /\ Len(reqs) \in Nat /\ Len(resps) \in Nat /\ Len(done) \in Nat
      /\ rpos \in Nat /\ rbuf \in Nat /\ krcv \in Nat /\ rnet \in Nat /\ drop \in Nat
  BY <1>0, RxAreNumbers DEF RxNumbers, InNumbers
<1>3. drop = Len(rx_cbs)
  BY <1>1, <1>2 DEF RxCbEnd, Visiting
<1>4. Reads = Len(reqs) /\ Cur = drop + 1
  BY <1>0, <1>1 DEF Reads, Cur, Control
<1>5. ~ Parsed
  BY <1>2, <1>3, <1>4 DEF Parsed
<1>6. Gone = Len(reqs)
  BY <1>1, <1>2, <1>3, <1>4 DEF Gone
<1>7. Len(done) = Len(reqs)
  BY <1>0, <1>1, <1>5, <1>6 DEF RecvOrder
<1>8. Len(done) <= Len(resps) /\ rpos + 0 = EndOf(Len(done)) /\ Len(resps) <= Len(reqs)
  BY <1>0, <1>1, <1>5 DEF InStep, Pending, Inbound
<1>9. Len(resps) = Len(done) /\ rpos = EndOf(Len(resps))
  BY <1>2, <1>7, <1>8
<1>10. Responded = EndOf(Len(resps)) /\ Responded = rpos + rbuf + krcv + rnet
  <2>1. resps = << >> <=> Len(resps) = 0
    BY <1>0 DEF TypeOK
  <2> QED
    BY <1>0, <2>1 DEF Responded, EndOf, Inbound
<1>11. rbuf = 0
  BY <1>2, <1>9, <1>10
<1> QED
  BY <1>1, <1>2, <1>3, <1>11

(* Every step keeps the promise that rx(), when it returns, has used all   *)
(* that it can.                                                            *)
LEMMA SettledPreserved ==
  ASSUME IInv, IInv', InStep, Settled, [Next]_vars
  PROVE  Settled'
<1>0. TypeOK /\ Control /\ RecvOrder /\ TypeOK' /\ Control'
  BY DEF IInv
<1>1. /\ Len(rx_cbs) \in Nat /\ Len(rx_cbs') \in Nat /\ drop \in Nat /\ rbuf \in Nat
      /\ after \in {"idle", "read", "out"} /\ HdrLen \in Nat /\ HdrLen > 0
      /\ MAX_OUTSTANDING_REQS \in Nat /\ Len(rx_cbs) <= MAX_OUTSTANDING_REQS
      /\ rx_cbs \in Seq(RxEntry) /\ rx_cbs' \in Seq(RxEntry)
  <2>1. /\ rx_cbs \in Seq(RxEntry) /\ Len(rx_cbs) <= MAX_OUTSTANDING_REQS
        /\ drop \in Nat /\ rbuf \in Nat /\ after \in {"idle", "read", "out"}
    <3>1. rx_cbs \in Seq(RxEntry)
      BY <1>0, Zenon DEF TypeOK, RxEntry
    <3>2. Len(rx_cbs) <= MAX_OUTSTANDING_REQS /\ drop \in Nat /\ rbuf \in 0 .. CHARBUF_SIZE
          /\ after \in {"idle", "read", "out"}
      BY <1>0, Zenon DEF TypeOK
    <3> QED
      BY <3>1, <3>2
  <2>2. rx_cbs' \in Seq(RxEntry)
    BY <1>0, Zenon DEF TypeOK, RxEntry
  <2>3. MAX_OUTSTANDING_REQS \in Nat /\ HdrLen \in Nat /\ HdrLen > 0
    BY SizesAssumption
  <2>4. Len(rx_cbs) \in Nat /\ Len(rx_cbs') \in Nat
    BY <2>1, <2>2, LenProperties, Zenon
  <2> QED
    BY <2>1, <2>2, <2>3, <2>4
<1>2. ASSUME UNCHANGED <<rx_cbs, rbuf>>, pc \in {"rxcb", "dead"} => pc' \in {"rxcb", "dead"}
      PROVE  Settled'
  BY <1>2 DEF Settled
<1>3. CASE RxRead
  BY <1>3 DEF RxRead, Settled
<1>4. CASE RxHdr \/ RxBody
  <2>1. pc' \in {"rxcb", "dead"}
    <3>1. CASE RxHdr
      <4>1. pc = "rxcb"
        BY <3>1 DEF RxHdr
      <4> QED
        BY <3>1, <4>1, RecvEffect
    <3>2. CASE RxBody
      BY <3>2 DEF RxBody
    <3> QED
      BY <1>4, <3>1, <3>2
  <2> QED
    BY <2>1 DEF Settled
<1>5. CASE RxBodyPartial
  <2> DEFINE b == rx_cbs[drop + 1].bodylen
  <2>1. /\ Visiting(rx_cbs) /\ rbuf' = 0 /\ b > rbuf /\ Len(rx_cbs') = Len(rx_cbs) - drop
        /\ rx_cbs'[1] = [id |-> rx_cbs[drop + 1].id, hdrlen |-> 0, bodylen |-> b - rbuf]
    BY <1>0, <1>5, BodyPartialEffect, Zenon
  <2>2. drop + 1 \in 1 .. Len(rx_cbs) /\ b \in Nat
    BY <1>0, <2>1, RxVisits, Zenon
  <2>3. rx_cbs'[1].hdrlen = 0 /\ rx_cbs'[1].bodylen = b - rbuf
    BY <2>1
  <2> HIDE DEF b
  <2>4. b - rbuf > 0 /\ Len(rx_cbs') > 0
    BY <1>1, <2>1, <2>2
  <2>5. rx_cbs' # << >>
    BY <1>1, <2>4
  <2> QED
    BY <2>1, <2>3, <2>4, <2>5 DEF Settled
<1>6. CASE RxHdrPartial
  <2>1. /\ rbuf' = rbuf /\ drop \in 0 .. Len(rx_cbs) /\ Len(rx_cbs') = Len(rx_cbs) - drop
        /\ \A j \in 1 .. Len(rx_cbs') : rx_cbs'[j] = rx_cbs[drop + j]
    BY <1>0, <1>6, LeaveEffect, Zenon
  <2>2. drop < Len(rx_cbs) /\ rx_cbs[drop + 1].hdrlen > rbuf
    BY <1>6 DEF RxHdrPartial, Visiting
  <2>3. Len(rx_cbs') > 0 /\ rx_cbs'[1] = rx_cbs[drop + 1]
    BY <1>1, <2>1, <2>2, SMTT(30)
  <2>4. rx_cbs' # << >>
    BY <1>1, <2>3
  <2>5. rx_cbs[drop + 1].hdrlen \in Nat
    <3>1. Visiting(rx_cbs)
      BY <1>6 DEF RxHdrPartial
    <3> QED
      BY <1>0, <3>1, RxVisits, Zenon
  <2> DEFINE h == rx_cbs[drop + 1].hdrlen
  <2>6. rx_cbs'[1].hdrlen = h /\ h \in Nat /\ h > rbuf
    BY <2>2, <2>3, <2>5
  <2> HIDE DEF h
  <2>7. h > 0
    BY <1>1, <2>6
  <2> QED
    BY <1>1, <2>1, <2>4, <2>6, <2>7 DEF Settled
<1>7. CASE RxCbEnd
  <2>1. CASE Len(rx_cbs) < MAX_OUTSTANDING_REQS
    <3>1. Len(rx_cbs') = 0 /\ rbuf' = 0
      BY <1>7, <2>1, AllRead
    <3>2. rx_cbs' = << >>
      BY <1>1, <3>1
    <3> QED
      BY <3>1, <3>2 DEF Settled
  <2>2. CASE Len(rx_cbs) = MAX_OUTSTANDING_REQS
    <3>1. drop = 0 /\ Len(rx_cbs') = Len(rx_cbs) - drop
      BY <1>0, <1>7, <2>2, LeaveEffect DEF Control
    <3> QED
      BY <1>1, <2>2, <3>1 DEF Settled
  <2> QED
    BY <1>1, <2>1, <2>2
<1>8. CASE SockRead
  <2>1. pc = "read" /\ rbuf' = rbuf
    BY <1>8 DEF SockRead
  <2>2. CASE rx_cbs' = rx_cbs
    BY <1>2, <2>1, <2>2
  <2>3. CASE rx_cbs' # rx_cbs
    <3> DEFINE e == [id |-> Len(reqs), hdrlen |-> HdrLen, bodylen |-> 0]
    <3>1. rx_cbs' = Append(rx_cbs, e) /\ Len(rx_cbs) < MAX_OUTSTANDING_REQS
      BY <1>8, <2>3 DEF SockRead
    <3>2. Len(reqs) \in Ids
      BY <1>0, <1>8, SizesAssumption DEF SockRead, Control, TypeOK, Ids
    <3>3. e \in RxEntry /\ e.hdrlen = HdrLen
      BY <3>2 DEF RxEntry
    <3> HIDE DEF e
    <3>4. /\ Len(rx_cbs') = Len(rx_cbs) + 1 /\ rx_cbs'[Len(rx_cbs) + 1] = e
          /\ \A i \in 1 .. Len(rx_cbs) : rx_cbs'[i] = rx_cbs[i]
      BY <1>1, <3>1, <3>3, AppendSeq
    <3>5. rx_cbs' # << >>
      BY <1>1, <3>4
    <3>6. CASE rx_cbs = << >>
      <4>1. rbuf = 0
        BY <2>1, <3>1, <3>6 DEF Settled
      <4>2. rx_cbs'[1] = e
        BY <3>4, <3>6
      <4> QED
        BY <1>1, <2>1, <3>3, <3>5, <4>1, <4>2 DEF Settled
    <3>7. CASE rx_cbs # << >>
      <4>1. Len(rx_cbs) > 0
        BY <1>1, <3>7
      <4>2. rx_cbs'[1] = rx_cbs[1]
        BY <1>1, <3>4, <4>1
      <4> QED
        BY <2>1, <3>1, <3>5, <3>7, <4>2 DEF Settled
    <3> QED
      BY <3>6, <3>7
  <2> QED
    BY <2>2, <2>3
<1>9. ASSUME NEW kind \in Kinds, NEW len \in ReqLen[kind], Generate(kind, len)
      PROVE  Settled'
  BY <1>2, <1>9 DEF Generate
<1>10. CASE Connect \/ EpollWait \/ RunIo \/ RunOut \/ UNCHANGED vars
  BY <1>2, <1>10 DEF Connect, EpollWait, RunIo, RunOut, vars, rxvars
<1>11. CASE TxStep
  BY <1>2, <1>11 DEF TxStep, TxReturn, TxAgain, TxWrite, TxError, TxCbPartial, TxCbFire, TxCbEnd, rxvars
<1>12. CASE RxReturn \/ RxFull \/ RxAgain \/ RxError
  BY <1>2, <1>12 DEF RxReturn, RxFull, RxAgain, RxError, rxvars
<1>13. CASE Environment
  BY <1>2, <1>13 DEF Environment, ConnectDone, Deliver, Answer, Arrive, PeerClose, clientvars, rxvars
<1> QED
  BY <1>3, <1>4, <1>5, <1>6, <1>7, <1>8, <1>9, <1>10, <1>11, <1>12, <1>13, NextCases
     DEF Elsewhere, TxStep, RxStep

(* No step raises one of the exceptions that recv_response and rx() hold   *)
(* to be impossible.                                                       *)
LEMMA ErrorsPreserved ==
  ASSUME IInv, InStep, HeadersWhole, Settled, NoInternalError, [Next]_vars
  PROVE  NoInternalError'
<1>0. TypeOK /\ Control /\ RecvOrder
  BY DEF IInv
<1>1. CASE err' \notin {"mismatch", "early", "overrun", "EINVAL"}
  BY <1>1 DEF NoInternalError
<1>2. CASE err' = err /\ rx_cbs' = rx_cbs
  BY <1>2 DEF NoInternalError
<1>3. CASE RxHdr
  <2>1. requests # << >> /\ Head(requests) = rx_cbs[drop + 1].id
    BY <1>0, <1>3, NeverMismatch, Zenon
  <2>2. \E i \in DOMAIN sent : sent[i] = rx_cbs[drop + 1].id
    BY <1>3, NeverEarly, Zenon
  <2>3. ~ Overruns(rx_cbs[drop + 1].id)
    BY <1>3, NeverOverrun, Zenon
  <2>4. err' = err
    BY <1>3, <2>1, <2>2, <2>3, RecvEffect, Zenon
  <2>5. err = "none"
    BY <1>0, <1>3, HdrEffect, Zenon
  <2> QED
    BY <1>1, <2>4, <2>5
<1>4. CASE RxFull
  <2>1. /\ pc = "rx" /\ rx_cbs # << >> /\ rbuf = CHARBUF_SIZE /\ err' = "EINVAL" /\ rx_cbs' = rx_cbs
    BY <1>4 DEF RxFull, Throw, rxvars
  <2>2. ~ (Len(rx_cbs) < MAX_OUTSTANDING_REQS)
    <3> SUFFICES ASSUME Len(rx_cbs) < MAX_OUTSTANDING_REQS PROVE FALSE
      OBVIOUS
    <3>1. IF rx_cbs[1].hdrlen > 0 THEN rbuf < rx_cbs[1].hdrlen ELSE rbuf = 0
      BY <2>1 DEF Settled
    <3>2. 1 \in 1 .. Len(rx_cbs) /\ rx_cbs \in Seq(RxEntry)
      BY <1>0, <2>1 DEF TypeOK, RxEntry
    <3>3. rx_cbs[1] \in RxEntry
      BY <3>2, ElementOfSeq, Zenon
    <3>4. rx_cbs[1].hdrlen \in {0, HdrLen}
      BY <3>3 DEF RxEntry
    <3> QED
      BY <2>1, <3>1, <3>4, SizesAssumption
  <2>3. Len(rx_cbs) = MAX_OUTSTANDING_REQS
    BY <1>0, <2>2, SizesAssumption DEF TypeOK
  <2> QED
    BY <2>1, <2>3 DEF NoInternalError
<1>5. ASSUME NEW kind \in Kinds, NEW len \in ReqLen[kind], Generate(kind, len)
      PROVE  NoInternalError'
  <2>1. (err' = err \/ err' = "ENOSPC") /\ rx_cbs' = rx_cbs
    BY <1>5 DEF Generate, Throw
  <2> QED
    BY <1>1, <1>2, <2>1
<1>6. CASE SockRead
  <2>1. pc = "read" /\ (err' = err \/ err' = "ENOSPC")
    BY <1>6 DEF SockRead, Throw
  <2>2. err = "none"
    BY <1>0, <2>1 DEF Control
  <2> QED
    BY <1>1, <2>1, <2>2
<1>7. CASE RxHdrPartial \/ RxBodyPartial \/ RxBody \/ RxCbEnd
  <2>1. pc = "rxcb" /\ err' = err
    BY <1>7 DEF RxHdrPartial, RxBodyPartial, RxBody, RxCbEnd
  <2>2. err = "none"
    BY <1>0, <2>1 DEF Control
  <2> QED
    BY <1>1, <2>1, <2>2
<1>8. CASE Connect \/ EpollWait \/ RunIo \/ RunOut \/ UNCHANGED vars
  <2>1. (err' = err \/ err' = "connect") /\ rx_cbs' = rx_cbs
    BY <1>8 DEF Connect, EpollWait, RunIo, RunOut, vars, Throw, rxvars
  <2> QED
    BY <1>1, <1>2, <2>1
<1>9. CASE TxStep
  <2>1. (err' = err \/ err' = "write") /\ rx_cbs' = rx_cbs
    BY <1>9 DEF TxStep, TxReturn, TxAgain, TxWrite, TxError, TxCbPartial, TxCbFire, TxCbEnd, Throw, rxvars
  <2> QED
    BY <1>1, <1>2, <2>1
<1>10. CASE RxReturn \/ RxAgain \/ RxError \/ RxRead
  <2>1. (err' = err \/ err' = "read") /\ rx_cbs' = rx_cbs
    BY <1>10 DEF RxReturn, RxAgain, RxError, RxRead, Throw, rxvars
  <2> QED
    BY <1>1, <1>2, <2>1
<1>11. CASE Environment
  <2>1. err' = err /\ rx_cbs' = rx_cbs
    BY <1>11 DEF Environment, ConnectDone, Deliver, Answer, Arrive, PeerClose, clientvars, rxvars
  <2> QED
    BY <1>2, <2>1
<1> QED
  BY <1>3, <1>4, <1>5, <1>6, <1>7, <1>8, <1>9, <1>10, <1>11, NextCases
     DEF Elsewhere, TxStep, RxStep

(* A new socket is in step with the empty stream of responses.             *)
LEMMA InitFInv == Init => FInv
<1> SUFFICES ASSUME Init PROVE FInv
  OBVIOUS
<1>0. /\ rx_cbs = << >> /\ done = << >> /\ resps = << >> /\ rbuf = 0 /\ rpos = 0
      /\ pc = "new" /\ err = "none"
  BY DEF Init
<1>1. Len(<< >>) = 0
  OBVIOUS
<1>2. ~ Parsed
  BY <1>0, <1>1 DEF Parsed, Cur
<1>3. InStep
  BY <1>0, <1>1, <1>2 DEF InStep, Pending, EndOf
<1>4. Settled /\ NoInternalError
  BY <1>0 DEF Settled, NoInternalError
<1> QED
  BY <1>3, <1>4 DEF FInv

(* As long as no get's header wraps within its body length, rx() stays in  *)
(* step with the stream, settles, and meets no internal error.             *)
THEOREM ParsingInvariant ==
  ASSUME OnlyGetsHaveBodies
  PROVE  Spec /\ []HeadersWhole => []FInv
<1>1. IInv /\ IInv' /\ HeadersWhole /\ FInv /\ [Next]_vars => FInv'
  BY InStepPreserved, SettledPreserved, ErrorsPreserved, Zenon DEF FInv
<1> QED
  BY <1>1, InitFInv, Invariant, PTL DEF Spec

(* A socket that is in step reads headers where responses begin.           *)
LEMMA Framed == IInv /\ FInv => Framing
<1> SUFFICES ASSUME IInv, FInv, pc = "rxcb", Visiting(rx_cbs), rx_cbs[drop + 1].hdrlen \in 1 .. rbuf
             PROVE  /\ rx_cbs[drop + 1].id \in DOMAIN resps
                    /\ rpos = resps[rx_cbs[drop + 1].id].start
  BY DEF Framing
<1>1. InStep
  BY DEF FInv
<1>2. DOMAIN resps = 1 .. Len(resps)
  BY DEF IInv, TypeOK
<1> QED
  BY <1>1, <1>2, HeaderAtHand, Zenon

(* A socket that has settled strands no bytes.                             *)
LEMMA NotStranded == IInv /\ FInv => NothingStranded
<1> SUFFICES ASSUME IInv, FInv, pc = "idle", Len(rx_cbs) < MAX_OUTSTANDING_REQS
             PROVE  IF rx_cbs = << >> THEN rbuf = 0
                    ELSE IF Head(rx_cbs).hdrlen > 0 THEN rbuf < Head(rx_cbs).hdrlen
                    ELSE rbuf = 0 /\ Head(rx_cbs).bodylen > 0
  BY DEF NothingStranded
<1>1. IF rx_cbs = << >> THEN rbuf = 0
      ELSE IF rx_cbs[1].hdrlen > 0 THEN rbuf < rx_cbs[1].hdrlen
      ELSE rbuf = 0 /\ rx_cbs[1].bodylen > 0
  BY DEF FInv, Settled
<1>2. Head(rx_cbs) = rx_cbs[1]
  OBVIOUS
<1> QED
  BY <1>1, <1>2

(* Framing, NothingStranded and NoInternalError hold in every behaviour in *)
(* which no get's header wraps around the end of rbuf_.  The code does not *)
(* ensure that: the run sock_header_wraps shows a behaviour in which a     *)
(* header wraps, and Framing fails.                                        *)
THEOREM ParsingCorrect ==
  ASSUME OnlyGetsHaveBodies
  PROVE  Spec /\ []HeadersWhole => [](Framing /\ NothingStranded /\ NoInternalError)
<1>1. IInv /\ FInv => Framing /\ NothingStranded /\ NoInternalError
  BY Framed, NotStranded DEF FInv
<1> QED
  BY <1>1, ParsingInvariant, Invariant, PTL

(* With requests that are not gets (the synthetic protocol, or a load of   *)
(* sets) no hypothesis about wrapping is needed: Framing, NothingStranded  *)
(* and NoInternalError hold in every behaviour.                            *)
THEOREM ParsingWithoutGets ==
  ASSUME OnlyGetsHaveBodies, "get" \notin Kinds
  PROVE  Spec => [](Framing /\ NothingStranded /\ NoInternalError)
<1>1. IInv => HeadersWhole
  <2> SUFFICES ASSUME IInv, NEW i \in DOMAIN resps PROVE reqs[i].kind # "get"
    BY DEF HeadersWhole
  <2>1. InNumbers /\ DOMAIN resps = 1 .. Len(resps) /\ Len(resps) <= Len(reqs)
    BY InAreNumbers DEF IInv, TypeOK, Inbound
  <2>2. i \in 1 .. Len(reqs)
    BY <2>1 DEF InNumbers
  <2>3. reqs[i].kind \in Kinds
    BY <2>1, <2>2 DEF InNumbers
  <2> QED
    BY <2>3
<1> QED
  BY <1>1, ParsingCorrect, Invariant, PTL

(* NoInternalError on its own, as long as no get's header wraps: neither   *)
(* recv_response nor rx() meets a condition it throws for, nor does        *)
(* recv_response write beyond its header.                                  *)
THEOREM ErrorsCorrect ==
  ASSUME OnlyGetsHaveBodies
  PROVE  Spec /\ []HeadersWhole => []NoInternalError
BY ParsingCorrect, PTL

================================================================================

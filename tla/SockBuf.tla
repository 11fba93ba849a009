-------------------------------- MODULE SockBuf --------------------------------
(***************************************************************************)
(* One connection of the load generator: a Sock (client/socket_buf.cc)     *)
(* driven by a generator (gen_synthetic.cc, gen_memcache.cc) and by the    *)
(* edge-triggered epoll loop of Client::run, against a kernel socket, a    *)
(* network and a server that answers requests in order.                    *)
(*                                                                         *)
(* Bytes are counted, not stored: a byte is known by its position in its   *)
(* stream.  Requests are numbered in the order they are generated; the     *)
(* addresses the code passes as cbdata are these numbers.  The client is   *)
(* one thread, so a step of it is a stretch of code between two points     *)
(* where something outside the process can change what it sees (a system   *)
(* call), or one turn of a loop over callbacks.                            *)
(***************************************************************************)
EXTENDS Integers, Sequences

CONSTANTS
  MAX_OUTSTANDING_REQS,  \* slots of rx_cbs_, tx_cbs_ and requests_
  CHARBUF_SIZE,          \* bytes of rbuf_ and of wbuf_
  Kinds,                 \* kinds of request: {"synthetic"} or within {"get", "set"}
  ReqLen,                \* ReqLen[kind]: the lengths a request can have
  HdrLen,                \* length of a response header (resp_pkt, MemcHeader)
  BodyLenEnd,            \* bytes of the header up to the end of its bodylen field
  LowBytes,              \* LowBytes[n]: 256^n, what n bytes of a number can count
  Bodies,                \* Bodies[kind]: the body lengths a response can have
  NReqs,                 \* bound: requests generated in a behaviour
  SndBuf,                \* bytes of the kernel's send buffer
  SndLow,                \* the kernel reports EPOLLOUT up to this many bytes in it
  MayFail                \* can connecting fail, or the server close?

ASSUME SizesAssumption ==
  /\ MAX_OUTSTANDING_REQS \in Nat \ {0}
  /\ CHARBUF_SIZE \in Nat \ {0}
  /\ HdrLen \in 1 .. CHARBUF_SIZE
  /\ BodyLenEnd \in 1 .. HdrLen
  /\ LowBytes \in [1 .. BodyLenEnd -> Nat \ {0}]
  /\ NReqs \in Nat
  /\ SndBuf \in Nat \ {0}
  /\ SndLow \in 0 .. SndBuf - 1
  /\ MayFail \in BOOLEAN

ASSUME KindsAssumption ==
  /\ Kinds \subseteq {"synthetic", "get", "set"}
  /\ ReqLen \in [Kinds -> SUBSET (Nat \ {0})]
  /\ Bodies \in [Kinds -> SUBSET Nat]
  /\ \A k \in Kinds : Bodies[k] # {}

VARIABLES
  (* Sock *)
  connected, rx_rdy, tx_rdy,
  rx_cbs,      \* responses being waited for: [id, hdrlen, bodylen]
  rbuf,        \* bytes in rbuf_
  tx_cbs,      \* write callbacks: [id, len], len a delta to the one before
  wbuf,        \* bytes in wbuf_
  tx_out,
  (* the generator *)
  requests,    \* requests_: outstanding requests, oldest first
  (* where the thread is *)
  pc,          \* the next stretch of code
  after,       \* where rx() or tx() returns to
  nbytes,      \* in the callback loop of tx(): bytes not yet accounted for
  drop,        \* in a callback loop: callbacks that are done
  ev,          \* events epoll_wait returned that run_io has not seen yet
  err,         \* the exception that ended the process, or "none"
  (* kernel, network and server *)
  link,        \* "none", "connecting", "up", "refused" or "closed"
  edge,        \* epoll has a wakeup to deliver for this socket
  nospace,     \* a write found the send buffer full: wake the writer up
  ksnd, krcv,  \* bytes in the kernel's send and receive buffers
  srvin,       \* request bytes that reached the server
  rnet,        \* response bytes on their way to the client
  (* history *)
  reqs,        \* requests generated: [end, kind], end is a stream position
  resps,       \* responses produced: [start, body], start is a stream position
  rpos,        \* position of the first byte in rbuf_ in the response stream
  sent, done   \* requests whose sent_request / record_sample was called

sockvars == <<connected, rx_rdy, tx_rdy>>
rxvars   == <<rx_cbs, rbuf, rpos, requests, done>>
txvars   == <<tx_cbs, wbuf, tx_out, sent>>
loopvars == <<nbytes, drop>>
netvars  == <<srvin, rnet, resps>>
farvars  == <<ev, netvars, reqs>>
kvars    == <<link, edge, nospace, ksnd, krcv>>
vars     == <<sockvars, rxvars, txvars, loopvars, pc, after, ev, err, kvars,
              netvars, reqs>>

Init ==
  /\ connected = FALSE /\ rx_rdy = FALSE /\ tx_rdy = FALSE
  /\ rx_cbs = << >> /\ rbuf = 0 /\ rpos = 0
  /\ tx_cbs = << >> /\ wbuf = 0 /\ tx_out = 0
  /\ requests = << >> /\ sent = << >> /\ done = << >>
  /\ pc = "new" /\ after = "idle" /\ nbytes = 0 /\ drop = 0
  /\ ev = {} /\ err = "none"
  /\ link = "none" /\ edge = FALSE /\ nospace = FALSE
  /\ ksnd = 0 /\ krcv = 0 /\ srvin = 0 /\ rnet = 0
  /\ reqs = << >> /\ resps = << >>

-----------------------------------------------------------------------------
(* Stream positions. *)

Smaller(m, n) == IF m < n THEN m ELSE n

(* Request bytes generated, and request bytes the kernel has accepted. *)
Written  == IF reqs = << >> THEN 0 ELSE reqs[Len(reqs)].end
Accepted == srvin + ksnd

RespEnd(r) == r.start + HdrLen + r.body
Responded  == IF resps = << >> THEN 0 ELSE RespEnd(resps[Len(resps)])

(* The process ends: nothing between Client::run and main catches. *)
Throw(e) ==
  /\ err' = e
  /\ pc' = "dead"

(* connect(): the connection is being established, or cannot be.           *)
Connect ==
  /\ pc = "new"
  /\ \/ link' = "connecting" /\ pc' = "idle" /\ UNCHANGED err
     \/ MayFail /\ Throw("connect") /\ UNCHANGED link
  /\ UNCHANGED <<sockvars, rxvars, txvars, loopvars, after, farvars, edge, nospace,
                 ksnd, krcv>>

-----------------------------------------------------------------------------
(* The generator sends a request: _send_request up to try_tx. *)

(* A write_cb_point that stores totals where tx() expects deltas. *)
write_cb_point_total(id, items) ==
  /\ tx_cbs' = Append(tx_cbs, [id |-> id, len |-> items])
  /\ tx_out' = items

(* write_cb_point, after the request has been written to wbuf_. *)
write_cb_point(id, items) ==
  /\ tx_cbs' = Append(tx_cbs,
                      [id  |-> id,
                       len |-> IF tx_cbs = << >> THEN items ELSE items - tx_out])
  /\ tx_out' = items

(* Writing the request, queueing it in requests_ and placing the callback; *)
(* each of the three queues may be full.                                   *)
Generate(kind, len) ==
  /\ pc = "idle"
  /\ Len(reqs) < NReqs
  /\ UNCHANGED <<sockvars, rx_cbs, rbuf, rpos, done, sent, loopvars, ev, kvars,
                 netvars>>
  /\ \/ /\ \/ Len(requests) = MAX_OUTSTANDING_REQS
           \/ len > CHARBUF_SIZE - wbuf
           \/ Len(tx_cbs) = MAX_OUTSTANDING_REQS
        /\ Throw("ENOSPC")
        /\ UNCHANGED <<requests, wbuf, tx_cbs, tx_out, reqs, after>>
     \/ /\ Len(requests) < MAX_OUTSTANDING_REQS
        /\ len <= CHARBUF_SIZE - wbuf
        /\ Len(tx_cbs) < MAX_OUTSTANDING_REQS
        /\ LET id == Len(reqs) + 1 IN
             /\ reqs' = Append(reqs, [end |-> Written + len, kind |-> kind])
             /\ requests' = Append(requests, id)
             /\ wbuf' = wbuf + len
             /\ write_cb_point(id, wbuf + len)
        /\ pc' = IF tx_rdy THEN "tx" ELSE "read"
        /\ after' = "read"
        /\ UNCHANGED err

(* The two generators do this in a different order, which does not show:   *)
(* an exception ends the process, and none of it is a system call.         *)
SyntheticSend ==
  \E kind \in Kinds \cap {"synthetic"} : \E len \in ReqLen[kind] : Generate(kind, len)

MemcacheSend ==
  \E kind \in Kinds \cap {"get", "set"} : \E len \in ReqLen[kind] : Generate(kind, len)

(* Sock::read, called for the request just generated. *)
SockRead ==
  /\ pc = "read"
  /\ after' = "idle"
  /\ UNCHANGED <<sockvars, rbuf, rpos, requests, done, txvars, loopvars, farvars,
                 kvars>>
  /\ \/ /\ Len(rx_cbs) = MAX_OUTSTANDING_REQS
        /\ Throw("ENOSPC")
        /\ UNCHANGED rx_cbs
     \/ /\ Len(rx_cbs) < MAX_OUTSTANDING_REQS
        /\ rx_cbs' = Append(rx_cbs, [id |-> Len(reqs), hdrlen |-> HdrLen,
                                     bodylen |-> 0])
        /\ pc' = IF rx_rdy THEN "rx" ELSE "idle"
        /\ UNCHANGED err

-----------------------------------------------------------------------------
(* Sock::tx: one action for each outcome of a turn of its loop. *)

TxReturn ==
  /\ pc = "tx" /\ wbuf = 0
  /\ pc' = after
  /\ UNCHANGED <<sockvars, rxvars, txvars, loopvars, after, farvars, err, kvars>>

TxAgain ==
  /\ pc = "tx" /\ wbuf > 0
  /\ link # "refused" /\ ksnd = SndBuf
  /\ tx_rdy' = FALSE
  /\ nospace' = TRUE
  /\ pc' = after
  /\ UNCHANGED <<connected, rx_rdy, rxvars, txvars, loopvars, after, farvars, err, link,
                 edge, ksnd, krcv>>

TxWrite ==
  /\ pc = "tx" /\ wbuf > 0
  /\ link # "refused" /\ ksnd < SndBuf
  /\ LET n == Smaller(wbuf, SndBuf - ksnd) IN
       /\ wbuf' = wbuf - n
       /\ ksnd' = ksnd + n
       /\ nbytes' = n
  /\ drop' = 0
  /\ pc' = "txcb"
  /\ UNCHANGED <<sockvars, rxvars, tx_cbs, tx_out, sent, after, farvars, err, link,
                 edge, nospace, krcv>>

(* The peer has reset the connection. *)
TxError ==
  /\ pc = "tx" /\ wbuf > 0
  /\ link \in {"refused", "closed"}
  /\ Throw("write")
  /\ UNCHANGED <<sockvars, rxvars, txvars, loopvars, after, farvars, kvars>>

(* A range-for that visits one callback for each read or write. *)
Visiting_first(queue) == queue # << >> /\ drop = 0

(* A range-for over a queue: a full queue is never entered, its begin()    *)
(* equals its end() (module Buffer).                                       *)
Visiting(queue) == Len(queue) < MAX_OUTSTANDING_REQS /\ drop < Len(queue)

(* A callback loop that leaves the callbacks it has made in the queue. *)
Remaining_all(queue) == queue

(* What queue.drop(drop) leaves after the loop. *)
Remaining(queue) == SubSeq(queue, drop + 1, Len(queue))

(* The callback of a request: the moment its sent_ts is taken. *)
sent_request(id) == sent' = Append(sent, id)

(* The callback loop reaches a request whose bytes are not all sent. *)
TxCbPartial ==
  /\ pc = "txcb" /\ Visiting(tx_cbs)
  /\ tx_cbs[drop + 1].len > nbytes
  /\ tx_cbs' = Remaining([tx_cbs EXCEPT ![drop + 1].len = @ - nbytes])
  /\ tx_out' = tx_out - nbytes
  /\ nbytes' = 0 /\ drop' = 0
  /\ pc' = "tx"
  /\ UNCHANGED <<sockvars, rxvars, wbuf, sent, after, farvars, err, kvars>>

(* The callback loop calls sent_request. *)
TxCbFire ==
  /\ pc = "txcb" /\ Visiting(tx_cbs)
  /\ tx_cbs[drop + 1].len <= nbytes
  /\ sent_request(tx_cbs[drop + 1].id)
  /\ nbytes' = nbytes - tx_cbs[drop + 1].len
  /\ tx_out' = tx_out - tx_cbs[drop + 1].len
  /\ drop' = drop + 1
  /\ UNCHANGED <<sockvars, rxvars, tx_cbs, wbuf, pc, after, farvars, err, kvars>>

TxCbEnd ==
  /\ pc = "txcb" /\ ~ Visiting(tx_cbs)
  /\ tx_cbs' = Remaining(tx_cbs)
  /\ nbytes' = 0 /\ drop' = 0
  /\ pc' = "tx"
  /\ UNCHANGED <<sockvars, rxvars, wbuf, tx_out, sent, after, farvars, err, kvars>>

-----------------------------------------------------------------------------
(* Sock::rx: one action for each outcome of a turn of its loop. *)

RxReturn ==
  /\ pc = "rx" /\ rx_cbs = << >>
  /\ pc' = after
  /\ UNCHANGED <<sockvars, rxvars, txvars, loopvars, after, farvars, err, kvars>>

(* queue_prep rejects a length of 0. *)
RxFull ==
  /\ pc = "rx" /\ rx_cbs # << >>
  /\ rbuf = CHARBUF_SIZE
  /\ Throw("EINVAL")
  /\ UNCHANGED <<sockvars, rxvars, txvars, loopvars, after, farvars, kvars>>

RxAgain ==
  /\ pc = "rx" /\ rx_cbs # << >>
  /\ rbuf < CHARBUF_SIZE
  /\ krcv = 0 /\ link = "up"
  /\ rx_rdy' = FALSE
  /\ pc' = after
  /\ UNCHANGED <<connected, tx_rdy, rxvars, txvars, loopvars, after, farvars, err,
                 kvars>>

(* End of file and errors. *)
RxError ==
  /\ pc = "rx" /\ rx_cbs # << >>
  /\ rbuf < CHARBUF_SIZE
  /\ krcv = 0 /\ link # "up"
  /\ Throw("read")
  /\ UNCHANGED <<sockvars, rxvars, txvars, loopvars, after, farvars, kvars>>

(* A read that asks for the size of rbuf_ where only its space is free. *)
RxSpace_size == CHARBUF_SIZE

RxSpace == CHARBUF_SIZE - rbuf

RxRead ==
  /\ pc = "rx" /\ rx_cbs # << >>
  /\ rbuf < CHARBUF_SIZE
  /\ krcv > 0
  /\ LET n == Smaller(krcv, RxSpace) IN
       /\ rbuf' = rbuf + n
       /\ krcv' = krcv - n
  /\ drop' = 0
  /\ pc' = "rxcb"
  /\ UNCHANGED <<sockvars, rx_cbs, rpos, requests, done, txvars, nbytes, after, farvars,
                 err, link, edge, nospace, ksnd>>

(* What the bodylen field of the header at rpos holds.  Bytes that are not *)
(* a header can say anything.                                              *)
HeaderHolds ==
  IF \E i \in DOMAIN resps : resps[i].start = rpos
  THEN {resps[i].body : i \in {j \in DOMAIN resps : resps[j].start = rpos}}
  ELSE 0 .. CHARBUF_SIZE

(* The part of the header that lies before the end of rbuf_.               *)
FirstSegment == CHARBUF_SIZE - (rpos % CHARBUF_SIZE)

(* What recv_response reads of it.  Of a header that wraps only the first  *)
(* part is copied to where it is read from, and the rest of a new          *)
(* MemcHeader is zero: the low bytes of a field that is cut are lost.      *)
HeaderSays ==
  IF FirstSegment < BodyLenEnd
  THEN {body - (body % LowBytes[BodyLenEnd - FirstSegment]) : body \in HeaderHolds}
  ELSE HeaderHolds

ParsedBodies(id) == IF reqs[id].kind = "get" THEN HeaderSays ELSE {0}

(* The second part of a header that wraps is copied to &hdr + n, which is  *)
(* n headers beyond it on the stack, not n bytes.                          *)
Overruns(id) == reqs[id].kind = "get" /\ FirstSegment < HdrLen

(* The callback loop finds less than a header.  Every caller of Sock::read *)
(* passes a header callback, so nothing is dropped.                        *)
RxHdrPartial ==
  /\ pc = "rxcb" /\ Visiting(rx_cbs)
  /\ rx_cbs[drop + 1].hdrlen > rbuf
  /\ rx_cbs' = Remaining(rx_cbs)
  /\ drop' = 0
  /\ pc' = "rx"
  /\ UNCHANGED <<sockvars, rbuf, rpos, requests, done, txvars, nbytes, after, farvars,
                 err, kvars>>

(* The callback of a response.  It throws unless its request is the oldest *)
(* one and has been sent, and otherwise records the sample.  Writing       *)
(* beyond the header is undefined: the process ends, or goes on with what  *)
(* it has read.                                                            *)
recv_response(id) ==
  \/ /\ requests = << >> \/ Head(requests) # id
     /\ Throw("mismatch")
     /\ UNCHANGED <<requests, done>>
  \/ /\ requests # << >> /\ Head(requests) = id
     /\ \A i \in DOMAIN sent : sent[i] # id
     /\ Throw("early")
     /\ UNCHANGED <<requests, done>>
  \/ /\ requests # << >> /\ Head(requests) = id
     /\ \E i \in DOMAIN sent : sent[i] = id
     /\ Overruns(id)
     /\ Throw("overrun")
     /\ UNCHANGED <<requests, done>>
  \/ /\ requests # << >> /\ Head(requests) = id
     /\ \E i \in DOMAIN sent : sent[i] = id
     /\ requests' = Tail(requests)
     /\ done' = Append(done, id)
     /\ UNCHANGED <<pc, err>>

(* The header is handed to the callback, then dropped. *)
RxHdr ==
  /\ pc = "rxcb" /\ Visiting(rx_cbs)
  /\ rx_cbs[drop + 1].hdrlen \in 1 .. rbuf
  /\ recv_response(rx_cbs[drop + 1].id)
  /\ rbuf' = rbuf - rx_cbs[drop + 1].hdrlen
  /\ rpos' = rpos + rx_cbs[drop + 1].hdrlen
  /\ \E body \in ParsedBodies(rx_cbs[drop + 1].id) :
       rx_cbs' = [rx_cbs EXCEPT ![drop + 1].hdrlen = 0, ![drop + 1].bodylen = body]
  /\ UNCHANGED <<sockvars, txvars, loopvars, after, farvars, kvars>>

(* A length that is not counted down. *)
BodyLeft_whole(bodylen) == bodylen

BodyLeft(bodylen) == bodylen - rbuf

(* Less than a body: without a body callback what is there is dropped. *)
RxBodyPartial ==
  /\ pc = "rxcb" /\ Visiting(rx_cbs)
  /\ rx_cbs[drop + 1].hdrlen = 0 /\ rx_cbs[drop + 1].bodylen > rbuf
  /\ rx_cbs' = Remaining([rx_cbs EXCEPT ![drop + 1].bodylen = BodyLeft(@)])
  /\ rpos' = rpos + rbuf
  /\ rbuf' = 0
  /\ drop' = 0
  /\ pc' = "rx"
  /\ UNCHANGED <<sockvars, requests, done, txvars, nbytes, after, farvars, err, kvars>>

(* The rest of the response, which may be nothing, is there. *)
RxBody ==
  /\ pc = "rxcb" /\ Visiting(rx_cbs)
  /\ rx_cbs[drop + 1].hdrlen = 0 /\ rx_cbs[drop + 1].bodylen <= rbuf
  /\ rpos' = rpos + rx_cbs[drop + 1].bodylen
  /\ rbuf' = rbuf - rx_cbs[drop + 1].bodylen
  /\ rx_cbs' = [rx_cbs EXCEPT ![drop + 1].bodylen = 0]
  /\ drop' = drop + 1
  /\ UNCHANGED <<sockvars, requests, done, txvars, nbytes, pc, after, farvars, err,
                 kvars>>

(* An rx() that reads once instead of until EAGAIN. *)
RxTurn_once == after

RxTurn == "rx"

RxCbEnd ==
  /\ pc = "rxcb" /\ ~ Visiting(rx_cbs)
  /\ rx_cbs' = Remaining(rx_cbs)
  /\ drop' = 0
  /\ pc' = RxTurn
  /\ UNCHANGED <<sockvars, rbuf, rpos, requests, done, txvars, nbytes, after, farvars,
                 err, kvars>>

-----------------------------------------------------------------------------
(* Client::run and Sock::run_io. *)

Readiness ==
  {e \in {"in", "out"} :
     \/ link \in {"refused", "closed"}
     \/ link = "up" /\ e = "in"  /\ krcv > 0
     \/ link = "up" /\ e = "out" /\ ksnd <= SndLow}

(* epoll_wait.  Other events of its batch, a timer for one, are handled    *)
(* before this socket's, so a request can be sent between this and RunIo.  *)
EpollWait ==
  /\ pc = "idle" /\ ev = {}
  /\ edge
  /\ edge' = FALSE
  /\ ev' = Readiness
  /\ UNCHANGED <<sockvars, rxvars, txvars, loopvars, pc, after, err, link, nospace,
                 ksnd, krcv, netvars, reqs>>

(* A run_io with an else between its two conditions. *)
AfterIn_else == "idle"

AfterIn == IF "out" \in ev THEN "out" ELSE "idle"

(* run_io handles EPOLLIN before EPOLLOUT. *)
RunIo ==
  /\ pc = "idle" /\ ev # {}
  /\ ev' = {}
  /\ \/ /\ "in" \in ev
        /\ rx_rdy' = TRUE
        /\ pc' = "rx"
        /\ after' = AfterIn
     \/ /\ "in" \notin ev
        /\ pc' = "out"
        /\ UNCHANGED <<rx_rdy, after>>
  /\ UNCHANGED <<connected, tx_rdy, rxvars, txvars, loopvars, err, kvars, netvars,
                 reqs>>

RunOut ==
  /\ pc = "out"
  /\ \/ /\ ~ connected /\ link = "refused"
        /\ Throw("connect")
        /\ UNCHANGED <<connected, tx_rdy, after>>
     \/ /\ connected \/ link # "refused"
        /\ connected' = TRUE
        /\ tx_rdy' = TRUE
        /\ pc' = "tx"
        /\ after' = "idle"
        /\ UNCHANGED err
  /\ UNCHANGED <<rx_rdy, rxvars, txvars, loopvars, farvars, kvars>>

-----------------------------------------------------------------------------
(* The kernel, the network and the server (external). *)

clientvars == <<sockvars, rxvars, txvars, loopvars, pc, after, ev, err, reqs>>

ConnectDone ==
  /\ link = "connecting"
  /\ link' \in {"up"} \cup IF MayFail THEN {"refused"} ELSE {}
  /\ edge' = TRUE
  /\ UNCHANGED <<clientvars, nospace, ksnd, krcv, netvars>>

(* Some bytes reach the server and are acknowledged. *)
Deliver ==
  /\ link = "up" /\ ksnd > 0
  /\ \E n \in 1 .. ksnd :
       /\ ksnd' = ksnd - n
       /\ srvin' = srvin + n
  /\ LET wake == nospace /\ ksnd' <= SndLow IN
       /\ edge' = (edge \/ wake)
       /\ nospace' = (nospace /\ ~ wake)
  /\ UNCHANGED <<clientvars, link, krcv, rnet, resps>>

(* The server has the whole of a request and answers it. *)
Answer ==
  /\ link = "up"
  /\ Len(resps) < Len(reqs)
  /\ LET i == Len(resps) + 1 IN
       /\ reqs[i].end <= srvin
       /\ \E body \in Bodies[reqs[i].kind] :
            /\ resps' = Append(resps, [start |-> Responded, body |-> body])
            /\ rnet' = rnet + HdrLen + body
  /\ UNCHANGED <<clientvars, kvars, srvin>>

(* Some bytes of the responses reach the client. *)
Arrive ==
  /\ link = "up" /\ rnet > 0
  /\ \E n \in 1 .. rnet :
       /\ rnet' = rnet - n
       /\ krcv' = krcv + n
  /\ edge' = TRUE
  /\ UNCHANGED <<clientvars, link, nospace, ksnd, srvin, resps>>

PeerClose ==
  /\ MayFail /\ link = "up"
  /\ link' = "closed"
  /\ edge' = TRUE
  /\ UNCHANGED <<clientvars, nospace, ksnd, krcv, netvars>>

-----------------------------------------------------------------------------
TxStep == TxReturn \/ TxAgain \/ TxWrite \/ TxError
            \/ TxCbPartial \/ TxCbFire \/ TxCbEnd

RxStep == RxReturn \/ RxFull \/ RxAgain \/ RxError \/ RxRead
            \/ RxHdrPartial \/ RxHdr \/ RxBodyPartial \/ RxBody \/ RxCbEnd

(* What the thread does by itself once it is running. *)
Thread == Connect \/ SockRead \/ TxStep \/ RxStep \/ EpollWait \/ RunIo \/ RunOut

Environment == ConnectDone \/ Deliver \/ Answer \/ Arrive \/ PeerClose

Next ==
  \/ SyntheticSend
  \/ MemcacheSend
  \/ Thread
  \/ Environment

Spec == Init /\ [][Next]_vars

(* The thread keeps running, the network delivers and the server answers.  *)
(* Nothing is assumed of when requests are generated.                      *)
Fairness ==
  /\ WF_vars(Thread)
  /\ WF_vars(ConnectDone)
  /\ WF_vars(Deliver)
  /\ WF_vars(Answer)
  /\ WF_vars(Arrive)

FairSpec == Spec /\ Fairness

-----------------------------------------------------------------------------
Errors  == {"none", "ENOSPC", "EINVAL", "write", "read", "connect", "mismatch",
            "early", "overrun"}
Points  == {"new", "idle", "read", "tx", "txcb", "rx", "rxcb", "out", "dead"}
Ids     == 1 .. NReqs

(* Every variable stays in its range; in particular the unsigned counters  *)
(* len, tx_out_, hdrlen, bodylen and the item counts of socket_buf.cc,     *)
(* which are only ever added to and subtracted from, do not wrap below 0   *)
(* and no buffer holds more than it can.                                   *)
TypeOK ==
  /\ connected \in BOOLEAN /\ rx_rdy \in BOOLEAN /\ tx_rdy \in BOOLEAN
  /\ rx_cbs \in Seq([id : Ids, hdrlen : {0, HdrLen}, bodylen : Nat])
  /\ tx_cbs \in Seq([id : Ids, len : Nat])
  /\ Len(rx_cbs) <= MAX_OUTSTANDING_REQS /\ Len(tx_cbs) <= MAX_OUTSTANDING_REQS
  /\ requests \in Seq(Ids) /\ Len(requests) <= MAX_OUTSTANDING_REQS
  /\ rbuf \in 0 .. CHARBUF_SIZE /\ wbuf \in 0 .. CHARBUF_SIZE /\ tx_out \in Nat
  /\ pc \in Points /\ after \in {"idle", "read", "out"}
  /\ nbytes \in Nat /\ drop \in Nat
  /\ ev \in SUBSET {"in", "out"} /\ err \in Errors
  /\ link \in {"none", "connecting", "up", "refused", "closed"}
  /\ edge \in BOOLEAN /\ nospace \in BOOLEAN
  /\ ksnd \in 0 .. SndBuf /\ krcv \in Nat /\ srvin \in Nat /\ rnet \in Nat
  /\ reqs \in Seq([end : Nat, kind : Kinds]) /\ Len(reqs) <= NReqs
  /\ resps \in Seq([start : Nat, body : Nat])
  /\ rpos \in Nat /\ sent \in Seq(Ids) /\ done \in Seq(Ids)

(* sent_request, which stamps sent_ts, has been called for exactly the     *)
(* requests whose last byte the kernel has accepted, however the writes of *)
(* tx() were cut up and whatever was queued in between: the deltas that    *)
(* write_cb_point stores and tx() counts down are right.                   *)
SentOnTime ==
  pc # "txcb" /\ Len(tx_cbs) < MAX_OUTSTANDING_REQS =>
    \A i \in DOMAIN reqs :
      (\E j \in DOMAIN sent : sent[j] = i) <=> reqs[i].end <= Accepted

(* None of the "cannot happen" errors happens: recv_response finds the     *)
(* request it was called for at the front of requests_, finds it sent and  *)
(* does not write beyond the header it takes apart, and rx() has room to   *)
(* read into unless rx_cbs_ is full.                                       *)
NoInternalError ==
  /\ err \notin {"mismatch", "early", "overrun"}
  /\ err = "EINVAL" => Len(rx_cbs) = MAX_OUTSTANDING_REQS

(* Epoll is edge-triggered, so a wakeup that is consumed without reading   *)
(* or writing until EAGAIN is lost.  When the thread has nothing left to   *)
(* handle, no response it waits for is in the kernel, a socket left unread *)
(* is remembered in rx_rdy_, and unsent bytes wait for a full kernel       *)
(* buffer that will wake the thread up.                                    *)
NoLostWakeup ==
  pc = "idle" /\ ev = {} /\ ~ edge /\ link = "up" =>
    /\ krcv > 0 => rx_cbs = << >> /\ rx_rdy
    /\ wbuf > 0 => nospace /\ ksnd > SndLow

(* rx() parses only after a read that returned something, so whatever it   *)
(* leaves in rbuf_ waits for more to arrive.  When the thread leaves it,   *)
(* rbuf_ holds less than the header that comes next, and nothing of a body *)
(* that is being dropped or when no response is awaited.                   *)
NothingStranded ==
  pc = "idle" /\ Len(rx_cbs) < MAX_OUTSTANDING_REQS =>
    IF rx_cbs = << >> THEN rbuf = 0
    ELSE IF Head(rx_cbs).hdrlen > 0 THEN rbuf < Head(rx_cbs).hdrlen
    ELSE rbuf = 0 /\ Head(rx_cbs).bodylen > 0

(* recv_response is called at the first byte of the response to its own    *)
(* request: headers and bodies of a pipelined stream are never mixed up.   *)
Framing ==
  pc = "rxcb" /\ Visiting(rx_cbs) /\ rx_cbs[drop + 1].hdrlen \in 1 .. rbuf =>
    /\ rx_cbs[drop + 1].id \in DOMAIN resps
    /\ rpos = resps[rx_cbs[drop + 1].id].start

(* A request that was generated is answered and recorded, or the process   *)
(* ends with an exception; it is never just forgotten.                     *)
EveryRequestSettled ==
  \A i \in Ids :
    i \in DOMAIN reqs ~> err # "none" \/ \E j \in DOMAIN done : done[j] = i

(* The connection carries requests out and samples back in order, each     *)
(* exactly once.                                                           *)
Pipe == INSTANCE RequestPipe WITH generated <- Len(reqs), failed <- err # "none"

ImplementsPipe == Pipe!Spec

================================================================================

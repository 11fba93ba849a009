--------------------------------- MODULE SockVec ---------------------------------
(***************************************************************************)
(* The scatter-gather socket (client/socket_vec.cc): the other             *)
(* implementation of Sock, which reads and writes the buffers of its user  *)
(* directly.  It is reference counted, makes one readv or writev for each  *)
(* call, and tells its user of each completed buffer by a callback.        *)
(*                                                                         *)
(* Receiving and sending are the same code up to the system call, so most  *)
(* of the state is a function of the direction.  Bytes are counted.  A     *)
(* callback may put the socket and may start operations in the other       *)
(* direction; one that starts another in its own direction re-enters a     *)
(* loop that is not ready for it, and is left out (see the README).        *)
(***************************************************************************)
EXTENDS Integers, Sequences, FiniteSetsExt

CONSTANTS
  MAX_SGS,         \* slots of rx_ents_ and tx_ents_
  Lens,            \* lengths of buffers the user passes
  NOps,            \* bound: operations in each direction
  SndBuf, SndLow,  \* the kernel's send buffer, as in SockBuf
  RcvTotal,        \* bytes the peer sends
  MayFail          \* can connecting fail, or the peer close?

ASSUME VecAssumption ==
  /\ MAX_SGS \in Nat \ {0} /\ Lens \subseteq Nat \ {0} /\ NOps \in Nat
  /\ SndBuf \in Nat \ {0} /\ SndLow \in 0 .. SndBuf - 1
  /\ RcvTotal \in Nat /\ MayFail \in BOOLEAN

Dirs == {"rx", "tx"}
Other(d) == IF d = "rx" THEN "tx" ELSE "rx"

VARIABLES
  ref, connected, rdy,
  ents,      \* rx_ents_ and tx_ents_: [id, len]
  pc,        \* "new", "idle", "rx", "tx", "rxloop", "txloop", "io_out",
             \* "io_end", "deleted" or "dead"
  i, ret,    \* the locals of rx() and tx()
  to,        \* where rx() and tx() return to, or "none"
  ev, inio,  \* events run_io handles, and whether it is on the stack
  err,
  link, edge, nospace, ksnd, krcv, rcvd,   \* kernel and peer, as in SockBuf
  (* the user, and history *)
  held,      \* does the user hold a reference?
  ends,      \* where in its stream each operation ends
  moved,     \* bytes moved
  done       \* callbacks: [id, status]

iovars   == <<ev, inio, err>>
uservars == <<held, ends, moved, done>>
kvars == <<link, edge, nospace, ksnd, krcv, rcvd>>
vars  == <<ref, connected, rdy, ents, pc, i, ret, to, ev, inio, err, kvars, held,
           ends, moved, done>>

Both(x) == [d \in Dirs |-> x]

Init ==
  /\ ref = 1 /\ connected = FALSE /\ rdy = Both(FALSE) /\ ents = Both(<< >>)
  /\ pc = "new" /\ i = Both(0) /\ ret = Both(0) /\ to = Both("none")
  /\ ev = {} /\ inio = FALSE /\ err = "none"
  /\ link = "none" /\ edge = FALSE /\ nospace = FALSE
  /\ ksnd = 0 /\ krcv = 0 /\ rcvd = 0
  /\ held = TRUE /\ ends = Both(<< >>) /\ moved = Both(0) /\ done = Both(<< >>)

Throw(e) == err' = e /\ pc' = "dead"

(* connect(): the connection is being established, or cannot be.           *)
Connect ==
  /\ pc = "new"
  /\ \/ link' = "connecting" /\ pc' = "idle" /\ UNCHANGED err
     \/ MayFail /\ Throw("connect") /\ UNCHANGED link
  /\ UNCHANGED <<ref, connected, rdy, ents, i, ret, to, ev, inio, edge, nospace, ksnd,
                 krcv, rcvd, uservars>>

Loop(d)   == IF d = "rx" THEN "rxloop" ELSE "txloop"
Active(d) == to[d] # "none"

-----------------------------------------------------------------------------
(* Reference counting *)

Ids(es) == [k \in DOMAIN es |-> [id |-> es[k].id, status |-> "EIO"]]

(* ~Sock tells the owners of the entries es that they are cancelled. *)
Cancelled(es) == [d \in Dirs |-> done[d] \o Ids(es[d])]

(* put(), with the entries es, going on at next: the last reference        *)
(* deletes the socket.                                                     *)
Put(es, next) ==
  /\ ref' = ref - 1
  /\ IF ref = 1
     THEN /\ done' = Cancelled(es) /\ ents' = Both(<< >>) /\ pc' = "deleted"
     ELSE /\ ents' = es /\ pc' = next /\ UNCHANGED done

(* A callback is running when a loop has completed an entry. *)
InCallback == \E d \in Dirs : pc = Loop(d) /\ i[d] > 0

(* The user gives up its reference, the one of the constructor. *)
UserPut ==
  /\ pc = "idle" \/ InCallback
  /\ held
  /\ held' = FALSE
  /\ Put(ents, pc)
  /\ UNCHANGED <<connected, rdy, i, ret, to, iovars, kvars, ends, moved>>

-----------------------------------------------------------------------------
(* The operations, up to the call of rx() or tx(). *)

Ended(d) == IF ends[d] = << >> THEN 0 ELSE ends[d][Len(ends[d])]

Start(d, len) ==
  /\ held /\ Len(ends[d]) < NOps
  /\ pc = "idle" \/ (pc = Loop(Other(d)) /\ InCallback /\ ~ Active(d))
  /\ IF Len(ents[d]) >= MAX_SGS
     THEN Throw("ENOSPC") /\ UNCHANGED <<ents, ends, to>>
     ELSE /\ ends' = [ends EXCEPT ![d] = Append(@, Ended(d) + len)]
          /\ ents' = [ents EXCEPT ![d] = Append(@, [id |-> Len(ends'[d]), len |-> len])]
          /\ IF rdy[d] THEN pc' = d /\ to' = [to EXCEPT ![d] = pc]
                       ELSE UNCHANGED <<pc, to>>
          /\ UNCHANGED err
  /\ UNCHANGED <<ref, connected, rdy, i, ret, ev, inio, kvars, held, moved, done>>

Read(len)  == Start("rx", len)
Write(len) == Start("tx", len)

(* rx() and tx() return when there is nothing to do. *)
NothingPending(d) ==
  /\ pc = d /\ ents[d] = << >>
  /\ pc' = to[d] /\ to' = [to EXCEPT ![d] = "none"]
  /\ UNCHANGED <<ref, connected, rdy, ents, i, ret, iovars, kvars, uservars>>

(* The size of the io vector. *)
Asked(d) ==
  LET sum[k \in 0 .. Len(ents[d])] == IF k = 0 THEN 0 ELSE sum[k - 1] + ents[d][k].len
  IN  sum[Len(ents[d])]

(* readv or writev has moved n bytes, and get() has been called. *)
Moved(d, n) ==
  /\ n > 0
  /\ moved' = [moved EXCEPT ![d] = @ + n]
  /\ ret' = [ret EXCEPT ![d] = n] /\ i' = [i EXCEPT ![d] = 0]
  /\ ref' = ref + 1
  /\ pc' = Loop(d)
  /\ UNCHANGED <<connected, rdy, ents, to, iovars, held, ends, done>>

(* EAGAIN: the socket is not ready, until epoll says so. *)
Again(d) ==
  /\ rdy' = [rdy EXCEPT ![d] = FALSE]
  /\ pc' = to[d] /\ to' = [to EXCEPT ![d] = "none"]
  /\ UNCHANGED <<ref, connected, ents, i, ret, iovars, uservars>>

SysError(e) ==
  /\ Throw(e)
  /\ UNCHANGED <<ref, connected, rdy, ents, i, ret, to, ev, inio, kvars, uservars>>

Readv ==
  /\ pc = "rx" /\ ents["rx"] # << >>
  /\ LET n == Min({krcv, Asked("rx")}) IN
     \/ /\ Moved("rx", n)
        /\ krcv' = krcv - n
        /\ UNCHANGED <<link, edge, nospace, ksnd, rcvd>>
     \/ krcv = 0 /\ link = "up" /\ Again("rx") /\ UNCHANGED kvars
     \/ krcv = 0 /\ link # "up" /\ SysError("read")

(* The kernel remembers a writer that found too little space. *)
Writev ==
  /\ pc = "tx" /\ ents["tx"] # << >>
  /\ LET n == Min({SndBuf - ksnd, Asked("tx")}) IN
     \/ /\ link = "up" /\ Moved("tx", n)
        /\ ksnd' = ksnd + n
        /\ nospace' = (nospace \/ n < Asked("tx"))
        /\ UNCHANGED <<link, edge, krcv, rcvd>>
     \/ /\ link = "up" /\ n = 0 /\ Again("tx")
        /\ nospace' = TRUE
        /\ UNCHANGED <<link, edge, ksnd, krcv, rcvd>>
     \/ link # "up" /\ SysError("write")

(* A loop that takes an entry that is just complete for an incomplete one. *)
Short_equal(d) == ret[d] <= ents[d][i[d] + 1].len

(* The system call ended within the current entry of the loop. *)
Short(d) == ret[d] < ents[d][i[d] + 1].len

(* The loop over the entries: the callback of an entry that is complete. *)
Complete(d) ==
  /\ pc = Loop(d) /\ i[d] < Len(ents[d]) /\ ~ Short(d)
  /\ LET e == ents[d][i[d] + 1] IN
       /\ done' = [done EXCEPT ![d] = Append(@, [id |-> e.id, status |-> "OK"])]
       /\ ret' = [ret EXCEPT ![d] = @ - e.len]
  /\ i' = [i EXCEPT ![d] = @ + 1]
  /\ UNCHANGED <<ref, connected, rdy, ents, pc, to, iovars, kvars, held, ends, moved>>

(* A loop that leaves the completed entries in place. *)
Rest_unmoved(d) == [ents[d] EXCEPT ![i[d] + 1].len = @ - ret[d]]

(* What is left after an entry that is not complete, moved to the front. *)
Rest(d) ==
  SubSeq([ents[d] EXCEPT ![i[d] + 1].len = @ - ret[d]], i[d] + 1, Len(ents[d]))

(* The end of rx() and of tx(): an entry that is not complete, or none.    *)
Leave(d, left) ==
  /\ to' = [to EXCEPT ![d] = "none"]
  /\ i' = [i EXCEPT ![d] = 0] /\ ret' = [ret EXCEPT ![d] = 0]
  /\ Put([ents EXCEPT ![d] = left], to[d])
  /\ UNCHANGED <<connected, rdy, iovars, kvars, held, ends, moved>>

Partial(d) ==
  /\ pc = Loop(d) /\ i[d] < Len(ents[d]) /\ Short(d)
  /\ Leave(d, Rest(d))

(* A system call that returned more than asked would throw here; the       *)
(* kernel of this model does not, and the guard would stop the thread.     *)
AllComplete(d) ==
  /\ pc = Loop(d) /\ i[d] = Len(ents[d])
  /\ ret[d] = 0
  /\ Leave(d, << >>)

-----------------------------------------------------------------------------
(* The user's event loop, and run_io *)

Readiness ==
  {e \in {"in", "out"} :
     \/ link \in {"refused", "closed"}
     \/ link = "up" /\ e = "in"  /\ krcv > 0
     \/ link = "up" /\ e = "out" /\ ksnd <= SndLow}

EpollWait ==
  /\ pc = "idle" /\ ev = {} /\ edge
  /\ edge' = FALSE
  /\ ev' = Readiness
  /\ UNCHANGED <<ref, connected, rdy, ents, pc, i, ret, to, inio, err, link, nospace,
                 ksnd, krcv, rcvd, uservars>>

(* A run_io that ignores an event nobody waits for. *)
MarkReady_pending(d) == [rdy EXCEPT ![d] = ents[d] # << >>]

(* The event is remembered, also when there is nothing to do. *)
MarkReady(d) == [rdy EXCEPT ![d] = TRUE]

(* A run_io with an else between its two conditions. *)
WantsOut_else == "out" \in ev /\ "in" \notin ev

WantsOut == "out" \in ev

(* A run_io that does not hold a reference of its own. *)
IoRef_none == ref

IoRef == ref + 1

RunIo ==
  /\ pc = "idle" /\ ev # {}
  /\ ref' = IoRef /\ inio' = TRUE
  /\ IF "in" \in ev
     THEN /\ rdy' = MarkReady("rx")
          /\ pc' = "rx" /\ to' = [to EXCEPT !["rx"] = "io_out"]
     ELSE pc' = "io_out" /\ UNCHANGED <<rdy, to>>
  /\ UNCHANGED <<connected, ents, i, ret, ev, err, kvars, uservars>>

IoOut ==
  /\ pc = "io_out"
  /\ \/ /\ ~ WantsOut
        /\ pc' = "io_end"
        /\ UNCHANGED <<connected, rdy, to, err>>
     \/ /\ WantsOut /\ ~ connected /\ link = "refused"
        /\ Throw("connect")
        /\ UNCHANGED <<connected, rdy, to>>
     \/ /\ WantsOut /\ (connected \/ link # "refused")
        /\ connected' = TRUE /\ rdy' = MarkReady("tx")
        /\ pc' = "tx" /\ to' = [to EXCEPT !["tx"] = "io_end"]
        /\ UNCHANGED err
  /\ UNCHANGED <<ref, ents, i, ret, ev, inio, kvars, uservars>>

IoEnd ==
  /\ pc = "io_end"
  /\ ev' = {} /\ inio' = FALSE
  /\ Put(ents, "idle")
  /\ UNCHANGED <<connected, rdy, i, ret, to, err, kvars, held, ends, moved>>

-----------------------------------------------------------------------------
(* The kernel and the peer (external) *)

sockvars == <<ref, connected, rdy, ents, pc, i, ret, to, ev, inio, err, held, ends,
              moved, done>>

ConnectDone ==
  /\ link = "connecting"
  /\ link' \in {"up"} \cup (IF MayFail THEN {"refused"} ELSE {})
  /\ edge' = TRUE
  /\ UNCHANGED <<sockvars, nospace, ksnd, krcv, rcvd>>

Deliver ==
  /\ link = "up"
  /\ \E n \in 1 .. ksnd : ksnd' = ksnd - n
  /\ LET wake == nospace /\ ksnd' <= SndLow IN
       edge' = (edge \/ wake) /\ nospace' = (nospace /\ ~ wake)
  /\ UNCHANGED <<sockvars, link, krcv, rcvd>>

Arrive ==
  /\ link = "up"
  /\ \E n \in 1 .. RcvTotal - rcvd : krcv' = krcv + n /\ rcvd' = rcvd + n
  /\ edge' = TRUE
  /\ UNCHANGED <<sockvars, link, nospace, ksnd>>

PeerClose ==
  /\ MayFail /\ link = "up"
  /\ link' = "closed" /\ edge' = TRUE
  /\ UNCHANGED <<sockvars, nospace, ksnd, krcv, rcvd>>

Thread ==
  \/ \E d \in Dirs : NothingPending(d) \/ Complete(d) \/ Partial(d) \/ AllComplete(d)
  \/ Connect \/ Readv \/ Writev \/ EpollWait \/ RunIo \/ IoOut \/ IoEnd

User == UserPut \/ \E len \in Lens : Read(len) \/ Write(len)

Next == Thread \/ User \/ ConnectDone \/ Deliver \/ Arrive \/ PeerClose

(* The thread returns to its event loop and is woken up, and the network   *)
(* delivers; the user need not do anything.                                *)
Spec ==
  /\ Init /\ [][Next]_vars
  /\ WF_vars(Thread) /\ WF_vars(ConnectDone) /\ WF_vars(Deliver) /\ WF_vars(Arrive)

-----------------------------------------------------------------------------
(* Properties *)

(* Every variable keeps its type; no length is used up without its entry   *)
(* being completed, and no more entries are held than there are slots.     *)
TypeOK ==
  /\ ref \in Nat
  /\ held \in BOOLEAN /\ connected \in BOOLEAN /\ rdy \in [Dirs -> BOOLEAN] /\ inio \in BOOLEAN
  /\ pc \in Dirs \cup {"new", "idle", "rxloop", "txloop", "io_out", "io_end", "deleted", "dead"}
  /\ \A d \in Dirs :
       /\ ents[d] \in Seq([id : 1 .. NOps, len : Nat \ {0}]) /\ Len(ents[d]) <= MAX_SGS
       /\ i[d] \in 0 .. Len(ents[d]) /\ ret[d] \in Nat /\ ends[d] \in Seq(Nat)
       /\ to[d] \in {"none", "idle", "rxloop", "txloop", "io_out", "io_end"}
  /\ ev \subseteq {"in", "out"}
  /\ err \in {"none", "ENOSPC", "read", "write", "connect"}
  /\ ksnd \in 0 .. SndBuf /\ krcv \in Nat /\ rcvd \in 0 .. RcvTotal

(* Callbacks come once for each operation and in its order, with success   *)
(* for exactly those whose last byte has been moved, whatever the pieces   *)
(* and whoever drops the last reference where; when the socket has been    *)
(* deleted the owner of every buffer has been told (rx, tx, ~Sock).        *)
ToldOnce ==
  \A d \in Dirs :
    /\ \A k \in DOMAIN done[d] : done[d][k].id = k
    /\ \A k \in DOMAIN done[d] : done[d][k].status = "OK" => ends[d][k] <= moved[d]
    /\ pc # Loop(d) /\ ~ Active(d) =>
         \A k \in DOMAIN ends[d] :
           ends[d][k] <= moved[d] => k \in DOMAIN done[d] /\ done[d][k].status = "OK"
    /\ pc = "deleted" => Len(done[d]) = Len(ends[d])

(* The count is one for the reference of the user, for each loop past its  *)
(* system call and for run_io, so that no code of the socket runs after it *)
(* has been deleted (get, put, run_io).                                    *)
RefsHeld ==
  /\ pc \notin {"deleted", "dead"} =>
       ref = (IF held THEN 1 ELSE 0) + (IF inio THEN 1 ELSE 0)
             + Quantify(Dirs, LAMBDA d : pc = Loop(d) \/ to[Other(d)] = Loop(d))
  /\ pc = "deleted" => ref = 0 /\ ~ held

(* One system call for each call of rx() or tx() is enough although epoll  *)
(* is edge-triggered: when the thread sleeps, nothing that is asked for is *)
(* in the kernel, and unsent data waits for a buffer that will wake it.    *)
NoLostWakeup ==
  pc = "idle" /\ ev = {} /\ ~ edge /\ link = "up" =>
    /\ krcv > 0 => ents["rx"] = << >> /\ rdy["rx"]
    /\ ents["tx"] # << >> => nospace /\ ksnd > SndLow

(* Every write completes, and every read the peer sends enough for, unless *)
(* the socket fails or the peer closes: a readv that takes the last bytes  *)
(* before the end of the stream uses up the wakeup for both, and nobody    *)
(* reads the end (rx reads once, socket_vec.cc:147).                       *)
OperationsEnd ==
  \A d \in Dirs : \A k \in 1 .. NOps :
    k \in DOMAIN ends[d] ~>
      \/ err # "none" \/ link = "closed"
      \/ k \in DOMAIN done[d]
      \/ d = "rx" /\ k \in DOMAIN ends[d] /\ ends[d][k] > RcvTotal

==================================================================================

------------------------------ MODULE LoadMemcache ------------------------------
(***************************************************************************)
(* The memcache loader (client/load_memcache.cc).  It stores toload keys   *)
(* over one connection and keeps at most batch of them unacknowledged.     *)
(* Most are sent as quiet SETs, which a server answers only if they fail;  *)
(* every notify-th, and the last, is loud, and its response acknowledges   *)
(* a window of notify keys.                                                *)
(*                                                                         *)
(* Keys are numbered from 1 in the order in which they are sent.  The      *)
(* connection is abstracted to counts, as module SockBuf shows it: bytes   *)
(* are written and responses handled in order.                             *)
(***************************************************************************)
EXTENDS Integers, Sequences

CONSTANTS
  ToLoad,    \* toload_: the keys to load
  StartId,   \* the sequence number of the first key
  Batch,     \* batch_
  NotifyArg, \* the notify argument of the constructor
  WORD       \* 2^64, the modulus of uint64_t

ASSUME LoadAssumption ==
  /\ ToLoad \in Nat
  /\ StartId \in Nat
  /\ Batch \in Nat \ {0}
  /\ NotifyArg \in Nat \ {0}
  /\ WORD \in Nat
  /\ ToLoad + Batch + NotifyArg < WORD

VARIABLES
  sent, recv, onwire, seqid,
  pc,       \* "loop", "sending", "wait", "io" or "done"
  rx,       \* rx_cbs_: the loud requests waited for, oldest first
  tx_rdy,
  (* outside *)
  up,       \* the connection is established
  written,  \* keys written to the kernel
  served,   \* SETs the server has handled
  inbox,    \* responses that have arrived
  (* history *)
  keys      \* sequence numbers of the keys sent, in order

vars == <<sent, recv, onwire, seqid, pc, rx, tx_rdy, up, written, served, inbox,
          keys>>
netvars == <<up, written, served>>

(* The notify window is at most a batch. *)
notify == IF NotifyArg < Batch THEN NotifyArg ELSE Batch

(* A subtraction that does not wrap. *)
Minus_signed(a, b) == a - b

(* Subtraction and increment of uint64_t. *)
Minus(a, b) == IF b <= a THEN a - b ELSE a - b + WORD
Plus1(a) == IF a + 1 = WORD THEN 0 ELSE a + 1

(* A loud request at the end of every window and nowhere else. *)
Loud_windows_only(n) == n % notify = 0

(* Is the n-th request loud? *)
Loud(n) == n % notify = 0 \/ n = ToLoad

Init ==
  /\ sent = 0 /\ recv = 0 /\ onwire = 0 /\ seqid = StartId
  /\ pc = "loop" /\ rx = << >> /\ tx_rdy = FALSE
  /\ up = FALSE /\ written = 0 /\ served = 0 /\ inbox = 0
  /\ keys = << >>

-----------------------------------------------------------------------------
(* MemcacheLoad::run *)

(* A loop that lets one more than a batch out. *)
SendRequest_one_more ==
  /\ pc = "loop"
  /\ sent < ToLoad
  /\ onwire <= Batch
  /\ keys' = Append(keys, seqid)
  /\ seqid' = seqid + 1
  /\ pc' = "sending"
  /\ UNCHANGED <<sent, recv, onwire, rx, tx_rdy, netvars, inbox>>

(* A turn of the inner loop: send_request up to try_tx. *)
SendRequest ==
  /\ pc = "loop"
  /\ sent < ToLoad
  /\ onwire < Batch
  /\ keys' = Append(keys, seqid)
  /\ seqid' = seqid + 1
  /\ pc' = "sending"
  /\ UNCHANGED <<sent, recv, onwire, rx, tx_rdy, netvars, inbox>>

(* try_tx, and tx() from run_io, write keys to the kernel. *)
Transmit ==
  /\ pc \in {"sending", "io"}
  /\ tx_rdy
  /\ written < Len(keys)
  /\ written' = written + 1
  /\ UNCHANGED <<sent, recv, onwire, seqid, pc, rx, tx_rdy, up, served, inbox, keys>>

(* A quiet request is not waited for. *)
SentQuiet ==
  /\ pc = "sending"
  /\ ~ Loud(sent + 1)
  /\ sent' = sent + 1
  /\ onwire' = Plus1(onwire)
  /\ pc' = "loop"
  /\ UNCHANGED <<recv, seqid, rx, tx_rdy, netvars, inbox, keys>>

(* Sock::read queues the response of a loud request, and may receive.      *)
Read ==
  /\ pc = "sending"
  /\ Loud(sent + 1)
  /\ rx' = Append(rx, sent + 1)
  /\ pc' = "reading"
  /\ UNCHANGED <<sent, recv, onwire, seqid, tx_rdy, netvars, inbox, keys>>

SentLoud ==
  /\ pc = "reading"
  /\ sent' = sent + 1
  /\ onwire' = Plus1(onwire)
  /\ pc' = "loop"
  /\ UNCHANGED <<recv, seqid, rx, tx_rdy, netvars, inbox, keys>>

(* A recv_response that acknowledges a whole batch. *)
recv_response_batch ==
  /\ recv' = recv + Batch
  /\ onwire' = Minus(onwire, Batch)

(* recv_response does not look at the status of the response. *)
recv_response ==
  /\ recv' = recv + notify
  /\ onwire' = Minus(onwire, notify)

(* rx() hands the oldest response to recv_response: in a call of           *)
(* Sock::read, before sent_ and onwire_ count the request, or of run_io.   *)
Receive ==
  /\ pc \in {"reading", "io"}
  /\ rx # << >>
  /\ inbox > 0
  /\ inbox' = inbox - 1
  /\ rx' = Tail(rx)
  /\ recv_response
  /\ UNCHANGED <<sent, seqid, pc, tx_rdy, netvars, keys>>

(* The inner loop is over: the loader is done, or waits for an event. *)
LoopDone ==
  /\ pc = "loop"
  /\ sent >= ToLoad \/ onwire >= Batch
  /\ pc' = IF recv >= ToLoad THEN "done" ELSE "wait"
  /\ UNCHANGED <<sent, recv, onwire, seqid, rx, tx_rdy, netvars, inbox, keys>>

EpollWait ==
  /\ pc = "wait"
  /\ up
  /\ ~ tx_rdy \/ written < Len(keys) \/ inbox > 0
  /\ tx_rdy' = TRUE
  /\ pc' = "io"
  /\ UNCHANGED <<sent, recv, onwire, seqid, rx, netvars, inbox, keys>>

(* run_io reads and writes until EAGAIN. *)
IoEnd ==
  /\ pc = "io"
  /\ pc' = "loop"
  /\ UNCHANGED <<sent, recv, onwire, seqid, rx, tx_rdy, netvars, inbox, keys>>

-----------------------------------------------------------------------------
(* The connection and the server *)

Connected ==
  /\ ~ up
  /\ up' = TRUE
  /\ UNCHANGED <<sent, recv, onwire, seqid, pc, rx, tx_rdy, written, served, inbox,
                 keys>>

(* The server handles SETs in order and answers the loud ones. *)
Serve ==
  /\ served < written
  /\ served' = served + 1
  /\ inbox' = IF Loud(served + 1) THEN inbox + 1 ELSE inbox
  /\ UNCHANGED <<sent, recv, onwire, seqid, pc, rx, tx_rdy, up, written, keys>>

Thread ==
  \/ SendRequest \/ Transmit \/ SentQuiet \/ Read \/ SentLoud \/ Receive
  \/ LoopDone \/ EpollWait \/ IoEnd

Next == Thread \/ Connected \/ Serve

Spec == Init /\ [][Next]_vars

(* The thread runs, the connection is established, the server answers, and *)
(* a socket with events keeps making progress.                             *)
FairSpec ==
  /\ Spec
  /\ WF_vars(Thread)
  /\ SF_vars(Transmit)
  /\ SF_vars(Receive)
  /\ WF_vars(Connected)
  /\ WF_vars(Serve)

-----------------------------------------------------------------------------
(* Properties *)

(* Every variable keeps its type, onwire_ as a 64-bit word. *)
TypeOK ==
  /\ sent \in 0 .. ToLoad /\ recv \in Nat /\ onwire \in 0 .. WORD - 1
  /\ seqid \in Nat /\ keys \in Seq(Nat)
  /\ pc \in {"loop", "sending", "reading", "wait", "io", "done"}
  /\ rx \in Seq(1 .. ToLoad)
  /\ tx_rdy \in BOOLEAN /\ up \in BOOLEAN
  /\ written \in 0 .. ToLoad /\ served \in 0 .. ToLoad /\ inbox \in Nat

(* No more than a batch of keys is sent and not acknowledged, although     *)
(* recv_response may run before onwire_ has counted the request it answers *)
(* and takes onwire_ below zero (load_memcache.cc:202, 278).               *)
WindowKept == Len(keys) - recv <= Batch

(* The loader never waits for events with no loud request outstanding: it  *)
(* would wait for ever (load_memcache.cc:203).                             *)
NeverStalls == pc = "wait" => rx # << >>

(* When run() returns, each key has been sent once, in sequence, and       *)
(* handled by the server, although the last window may be partial and      *)
(* recv_ count more than was sent.                                         *)
DoneMeansServed ==
  pc = "done" =>
    /\ keys = [i \in 1 .. ToLoad |-> StartId + i - 1]
    /\ served = ToLoad
    /\ rx = << >>

(* The loader comes to an end. *)
Finishes == <>(pc = "done")

=============================================================================

--------------------------------- MODULE Client ---------------------------------
(***************************************************************************)
(* The client (client/client.cc): it draws the schedule, sends a request   *)
(* at each deadline from a timer or from a busy loop, and records a sample *)
(* for each response, over connections that are pooled or opened for one   *)
(* request.  Generators are reference counted and delete themselves        *)
(* (client/generator.hh).                                                  *)
(*                                                                         *)
(* A connection is abstracted to what module SockBuf shows of it: bytes    *)
(* leave and responses are handled in the order of the requests, and       *)
(* whatever can be done is sooner or later reported by epoll.  Generators  *)
(* and requests are numbered in the order in which they are created.  Time *)
(* is counted in ticks from exp_start_time_ and passes between any two     *)
(* steps of the thread.                                                    *)
(***************************************************************************)
EXTENDS Integers, Sequences, FiniteSets

CONSTANTS
  Configs,               \* the configurations to run (client/opts.hh)
  Gaps,                  \* differences between deadlines the schedule may draw
  MAX_OUTSTANDING_REQS,  \* slots of requests_ and rx_cbs_
  MaxTime                \* bound: the last tick

Modes == {"PER_REQUEST", "ROUND_ROBIN", "RANDOM"}

ASSUME ConfigsAssumption ==
  /\ Configs \subseteq
       [conn_mode : Modes, conn_cnt : Nat \ {0}, protocol : {"SYNTHETIC", "MEMCACHE"},
        send_only : BOOLEAN, use_busy_timer : BOOLEAN,
        warmup : Nat, samples : Nat \ {0}, cooldown : Nat, missed_window : Nat]
  /\ \A c \in Configs : c.send_only => c.protocol = "SYNTHETIC"

ASSUME SizesAssumption ==
  /\ Gaps \subseteq Nat \ {0}
  /\ MAX_OUTSTANDING_REQS \in Nat \ {0}
  /\ MaxTime \in Nat

VARIABLES
  cfg,
  (* the schedule *)
  deadlines, pre_samples,
  (* counters, and the state of results_ *)
  sent_count, rcvd_count, measure_count, missed_send,
  started, ended,   \* has the measured interval begun, has it ended?
  (* connections *)
  gens,             \* generators: [live, ref, link, tx_rdy, rx]
  idx,              \* the static counter of get_connection
  (* where the thread is *)
  pc,
  cur,              \* the generator whose send_request or run_io is on the stack
  clk,              \* the time the running timer handler has read
  looped,           \* has it sent a request?
  batch,            \* events of the last epoll_wait not yet handled
  err,
  (* outside *)
  now,
  due,              \* when the timer expires, or NotArmed
  fired,            \* the timer has expired since the last epoll_wait
  reqs,             \* requests: [conn, measure, st]
  (* history *)
  recorded,         \* requests record_sample was called for
  discarded         \* requests deleted with their generator before being written

schedvars == <<cfg, deadlines, pre_samples>>
countvars == <<sent_count, rcvd_count, measure_count, recorded, started, ended>>
sendvars  == <<missed_send, idx, looped>>
timevars  == <<now, due, fired>>
basevars  == <<schedvars, countvars, sendvars, timevars>>
vars == <<schedvars, countvars, sendvars, timevars, gens, pc, cur, clk, batch,
          err, reqs, discarded>>

NotArmed == -1
Timer    == 0     \* the event with a null data pointer
NoGen    == 0

(* A generator whose count starts at 0. *)
NewGen_unreferenced ==
  [live |-> TRUE, ref |-> 0, link |-> "connecting", tx_rdy |-> FALSE, rx |-> << >>]

(* A generator after its constructor and connect(). *)
NewGen == [live |-> TRUE, ref |-> 1, link |-> "connecting", tx_rdy |-> FALSE,
           rx |-> << >>]

Init ==
  /\ cfg \in Configs
  /\ deadlines = << >> /\ pre_samples = 0
  /\ sent_count = 0 /\ rcvd_count = 0 /\ measure_count = 0 /\ missed_send = 0
  /\ started = FALSE /\ ended = FALSE
  /\ gens = << >> /\ idx = 0
  /\ pc = "connections" /\ cur = NoGen /\ clk = 0 /\ looped = FALSE
  /\ batch = {} /\ err = "none"
  /\ now = 0 /\ due = NotArmed /\ fired = FALSE
  /\ reqs = << >> /\ recorded = {} /\ discarded = {}

total_samples == Len(deadlines)

Throw(e) == err' = e /\ pc' = "dead"

-----------------------------------------------------------------------------
(* setup_experiment *)

SetupConnections ==
  /\ pc = "connections"
  /\ gens' = IF cfg.conn_mode = "PER_REQUEST" THEN << >>
             ELSE [i \in 1 .. cfg.conn_cnt |-> NewGen]
  /\ pc' = "warmup"
  /\ UNCHANGED <<basevars, cur, clk, batch, err, reqs, discarded>>

accum == IF deadlines = << >> THEN 0 ELSE deadlines[Len(deadlines)]

(* The three loops of setup_deadlines: draw while there is more to draw,   *)
(* then go on to the next.                                                 *)
Draw(loop, more, next) ==
  /\ pc = loop
  /\ IF more
     THEN /\ \E g \in Gaps : deadlines' = Append(deadlines, accum + g)
          /\ pc' = loop
     ELSE /\ pc' = next
          /\ UNCHANGED deadlines
  /\ pre_samples' = IF loop = "warmup" THEN Len(deadlines') ELSE pre_samples
  /\ UNCHANGED <<cfg, countvars, sendvars, timevars, gens, cur, clk, batch, err, reqs,
                 discarded>>

coolstart == deadlines[pre_samples + cfg.samples]

(* exp_start_time_ is taken after the last loop; the first call of         *)
(* timer_handler does not wait for an event.                               *)
SetupDeadlines ==
  \/ Draw("warmup", accum < cfg.warmup, "measured")
  \/ Draw("measured", Len(deadlines) - pre_samples < cfg.samples, "cooldown")
  \/ Draw("cooldown", accum - coolstart < cfg.cooldown,
          IF cfg.use_busy_timer THEN "wait" ELSE "clock")

Running == pc \notin {"connections", "warmup", "measured", "cooldown", "exit", "dead"}

-----------------------------------------------------------------------------
(* Generators *)

Queued(g) == {r \in DOMAIN reqs : reqs[r].conn = g /\ reqs[r].st = "queued"}

(* The oldest response a generator waits for has come: its header, or the  *)
(* rest of a body whose header has been handled.  A range-for over a full  *)
(* rx_cbs_ visits nothing (module Buffer).                                 *)
Arrived(gen) ==
  /\ gen.rx # << >>
  /\ Len(gen.rx) < MAX_OUTSTANDING_REQS
  /\ LET st == reqs[Head(gen.rx).id].st
     IN  IF Head(gen.rx).parsed THEN st = "whole" ELSE st \in {"header", "whole"}

(* Generator::put, on the function gs of generators. *)
Put(gs, g) == [gs EXCEPT ![g].ref = @ - 1, ![g].live = gs[g].ref # 1]

(* ~Sock passes an error to the callbacks of every entry of rx_cbs_, also  *)
(* of one whose header callback has been called: recv_response then drops  *)
(* from an empty requests_, and the exception leaves a noexcept destructor.*)
CancelsParsed(gen) ==
  /\ gen.ref = 1
  /\ Len(gen.rx) < MAX_OUTSTANDING_REQS
  /\ \E i \in DOMAIN gen.rx : gen.rx[i].parsed

(* The put at the end of send_request and of run_io. *)
PutCur(next) ==
  /\ gens' = Put(gens, cur)
  /\ cur' = NoGen
  /\ discarded' = IF gens[cur].ref = 1 THEN discarded \cup Queued(cur) ELSE discarded
  /\ IF CancelsParsed(gens[cur])
     THEN Throw("terminate")
     ELSE pc' = next /\ UNCHANGED err

(* An interval that ends with the last measured request sent instead of    *)
(* the last one answered.                                                  *)
LastMeasured_sent(r) == r = pre_samples + cfg.samples

LastMeasured(r) == reqs[r].measure /\ measure_count + 1 = cfg.samples

(* Ends that count what has been sent, or wait for one sample too many. *)
AllReceived_sent == sent_count >= total_samples
AllReceived_one_more == rcvd_count + 1 > total_samples

AllReceived == rcvd_count + 1 >= total_samples

(* Client::record_sample for request r, called with the generators gs.  It *)
(* returns to the line next, or exits.                                     *)
record_sample(gs, r, next) ==
  /\ measure_count' = measure_count + (IF reqs[r].measure THEN 1 ELSE 0)
  /\ ended' = (ended \/ LastMeasured(r))
  /\ gens' = Put(gs, reqs[r].conn)
  /\ rcvd_count' = rcvd_count + 1
  /\ recorded' = recorded \cup {r}
  /\ pc' = IF AllReceived THEN "exit" ELSE next

-----------------------------------------------------------------------------
(* The event loop of Client::run *)

HasEvent(g) ==
  /\ gens[g].live
  /\ gens[g].link = "up"
  /\ ~ gens[g].tx_rdy \/ Queued(g) # {} \/ Arrived(gens[g])

(* epoll_wait blocks until there is an event, unless the timer is busy. *)
EpollWait ==
  /\ pc = "wait"
  /\ batch' = {g \in DOMAIN gens : HasEvent(g)} \cup (IF fired THEN {Timer} ELSE {})
  /\ cfg.use_busy_timer \/ batch' # {}
  /\ fired' = FALSE
  /\ pc' = "batch"
  /\ UNCHANGED <<schedvars, countvars, sendvars, now, due, gens, cur, clk, err, reqs,
                 discarded>>

TimerEvent ==
  /\ pc = "batch"
  /\ Timer \in batch
  /\ batch' = batch \ {Timer}
  /\ pc' = "clock"
  /\ UNCHANGED <<basevars, gens, cur, clk, err, reqs, discarded>>

(* A run_io that does not hold a reference while the socket runs. *)
IoHold_none(g) == gens

IoHold(g) == [gens EXCEPT ![g].ref = @ + 1]

(* Generator::run_io up to the call of Sock::run_io. *)
RunIo(g) ==
  /\ pc = "batch"
  /\ g \in batch
  /\ batch' = batch \ {g}
  /\ gens' = IoHold(g)
  /\ cur' = g
  /\ pc' = "io_rx"
  /\ UNCHANGED <<basevars, clk, err, reqs, discarded>>

(* Sock::run_io first receives and then transmits, each until EAGAIN and   *)
(* only if the event says so; the event may be older than what it finds.   *)
(* RxDone goes on to the part for EPOLLOUT.                                *)
RxDone ==
  /\ pc = "io_rx"
  /\ gens' = [gens EXCEPT ![cur].tx_rdy = TRUE]
  /\ pc' = "io_tx"
  /\ UNCHANGED <<basevars, cur, clk, batch, err, reqs, discarded>>

(* An event without EPOLLOUT leaves tx_rdy alone. *)
IoEnd ==
  /\ pc \in {"io_rx", "io_tx"}
  /\ PutCur("batch")
  /\ UNCHANGED <<basevars, clk, batch, reqs>>

BatchDone ==
  /\ pc = "batch"
  /\ batch = {}
  /\ pc' = IF cfg.use_busy_timer THEN "clock" ELSE "wait"
  /\ UNCHANGED <<basevars, gens, cur, clk, batch, err, reqs, discarded>>

-----------------------------------------------------------------------------
(* The sockets *)

(* tx() writes the oldest request not yet written to the kernel. *)
Transmit ==
  /\ pc \in {"send_tx", "io_tx"}
  /\ gens[cur].tx_rdy
  /\ \E r \in Queued(cur) :
       /\ \A q \in Queued(cur) : r <= q
       /\ reqs' = [reqs EXCEPT ![r].st = "wire"]
  /\ UNCHANGED <<basevars, gens, pc, cur, clk, batch, err, discarded>>

(* An rx() that leaves a complete response in rx_cbs_. *)
AfterHeader_keep(rx, st) == [rx EXCEPT ![1].parsed = TRUE]

(* rx_cbs_ when the header of its oldest response has been handled: the    *)
(* entry goes unless its body is incomplete.                               *)
AfterHeader(rx, st) ==
  IF st = "whole" THEN Tail(rx) ELSE [rx EXCEPT ![1].parsed = TRUE]

(* rx() calls recv_response, which calls record_sample.                    *)
RecvResponse ==
  /\ pc \in {"send_rx", "io_rx"}
  /\ Arrived(gens[cur])
  /\ ~ Head(gens[cur].rx).parsed
  /\ LET r == Head(gens[cur].rx).id
     IN  record_sample([gens EXCEPT ![cur].rx = AfterHeader(@, reqs[r].st)], r, pc)
  /\ UNCHANGED <<schedvars, sent_count, started, sendvars, timevars, cur, clk, batch,
                 err, reqs, discarded>>

(* The rest of a body is dropped. *)
RecvBody ==
  /\ pc \in {"send_rx", "io_rx"}
  /\ Arrived(gens[cur])
  /\ Head(gens[cur].rx).parsed
  /\ gens' = [gens EXCEPT ![cur].rx = Tail(@)]
  /\ UNCHANGED <<basevars, pc, cur, clk, batch, err, reqs, discarded>>

-----------------------------------------------------------------------------
(* Timers *)

(* timer_handler and busy_timer read the clock once. *)
ReadClock ==
  /\ pc = "clock"
  /\ clk' = now
  /\ looped' = FALSE
  /\ pc' = "timer"
  /\ UNCHANGED <<schedvars, countvars, missed_send, idx, timevars, gens, cur, batch,
                 err, reqs, discarded>>

next_deadline == deadlines[sent_count + 1]

(* timer_arm with the time left when the clock was read; the timer counts  *)
(* from now.  MaxTime bounds it.                                           *)
TimerArm ==
  /\ pc = "timer"
  /\ ~ cfg.use_busy_timer
  /\ clk < next_deadline
  /\ LET end == now + (next_deadline - clk)
     IN  due' = IF end < MaxTime THEN end ELSE MaxTime
  /\ pc' = "batch"
  /\ UNCHANGED <<schedvars, countvars, sendvars, now, fired, gens, cur, clk, batch, err,
                 reqs, discarded>>

(* After the last request busy_timer reads one past the end of deadlines_, *)
(* but looks at sent_count_ before it acts on what it read.                *)
BusyDone ==
  /\ pc = "timer"
  /\ cfg.use_busy_timer
  /\ sent_count < total_samples => clk < next_deadline
  /\ pc' = "wait"
  /\ UNCHANGED <<basevars, gens, cur, clk, batch, err, reqs, discarded>>

-----------------------------------------------------------------------------
(* Sending *)

(* get_connection: the generators it can return, and the generators after  *)
(* it has taken a reference to g.                                          *)
Candidates ==
  CASE cfg.conn_mode = "PER_REQUEST" -> {Len(gens) + 1}
    [] cfg.conn_mode = "ROUND_ROBIN" -> {(idx % cfg.conn_cnt) + 1}
    [] OTHER                         -> 1 .. cfg.conn_cnt

(* A get_connection that takes no reference to a pooled connection. *)
get_connection_no_get(g) ==
  IF cfg.conn_mode = "PER_REQUEST" THEN Append(gens, NewGen) ELSE gens

get_connection(g) ==
  IF cfg.conn_mode = "PER_REQUEST" THEN Append(gens, NewGen)
  ELSE [gens EXCEPT ![g].ref = @ + 1]

(* The next request is later than the threshold, by the time read. *)
Overdue == clk - next_deadline > cfg.missed_window

(* A turn of the loop of timer_handler or busy_timer: send_request up to   *)
(* the call of try_tx.                                                     *)
SendRequest ==
  /\ pc = "timer"
  /\ sent_count < total_samples
  /\ next_deadline <= clk
  /\ started' = (started \/ sent_count = pre_samples)
  /\ missed_send' = missed_send +
       (IF Overdue /\ (looped \/ cfg.use_busy_timer) THEN 1 ELSE 0)
  /\ looped' = TRUE
  /\ idx' = IF cfg.conn_mode = "ROUND_ROBIN" THEN idx + 1 ELSE idx
  /\ \E g \in Candidates :
       LET gs == get_connection(g)
           r  == Len(reqs) + 1
       IN  IF Len(gs[g].rx) = MAX_OUTSTANDING_REQS
           THEN /\ Throw("ENOSPC")
                /\ gens' = gs
                /\ UNCHANGED <<cur, reqs>>
           ELSE /\ gens' = [gs EXCEPT ![g].ref = @ + 1,
                                      ![g].rx = Append(@, [id |-> r, parsed |-> FALSE])]
                /\ reqs' = Append(reqs,
                     [conn |-> g, st |-> "queued",
                      measure |-> sent_count \in pre_samples .. pre_samples + cfg.samples - 1])
                /\ cur' = g
                /\ pc' = "send_tx"
                /\ UNCHANGED err
  /\ UNCHANGED <<schedvars, sent_count, rcvd_count, measure_count, recorded, ended,
                 timevars, clk, batch, discarded>>

(* try_tx has returned; Sock::read may receive. *)
TryTxDone ==
  /\ pc = "send_tx"
  /\ pc' = "send_rx"
  /\ UNCHANGED <<basevars, gens, cur, clk, batch, err, reqs, discarded>>

(* In send_only mode Synthetic::_send_request records a sample itself. *)
FakeResponse ==
  /\ pc = "send_rx"
  /\ cfg.send_only
  /\ record_sample(gens, Len(reqs), "send_end")
  /\ UNCHANGED <<schedvars, sent_count, started, sendvars, timevars, cur, clk, batch,
                 err, reqs, discarded>>

(* A timer_handler that sends one request and does not arm the timer. *)
AfterSend_return == "batch"

AfterSend ==
  IF sent_count + 1 >= total_samples /\ ~ cfg.use_busy_timer THEN "batch" ELSE "timer"

(* The end of Generator::send_request and of the turn of the timer's loop. *)
SendEnd ==
  /\ pc = IF cfg.send_only THEN "send_end" ELSE "send_rx"
  /\ sent_count' = sent_count + 1
  /\ PutCur(AfterSend)
  /\ UNCHANGED <<schedvars, rcvd_count, measure_count, recorded, started, ended,
                 sendvars, timevars, clk, batch, reqs>>

-----------------------------------------------------------------------------
(* Time, the kernel and the server *)

Tick ==
  /\ Running
  /\ now < MaxTime
  /\ now' = now + 1
  /\ UNCHANGED <<schedvars, countvars, sendvars, due, fired, gens, pc, cur, clk, batch,
                 err, reqs, discarded>>

TimerExpire ==
  /\ Running
  /\ due # NotArmed
  /\ due <= now
  /\ fired' = TRUE
  /\ due' = NotArmed
  /\ UNCHANGED <<schedvars, countvars, sendvars, now, gens, pc, cur, clk, batch, err,
                 reqs, discarded>>

Connected(g) ==
  /\ Running
  /\ gens[g].live
  /\ gens[g].link = "connecting"
  /\ gens' = [gens EXCEPT ![g].link = "up"]
  /\ UNCHANGED <<basevars, pc, cur, clk, batch, err, reqs, discarded>>

(* A server answers the requests of a connection in order, unless told not *)
(* to; the response of a memcache server can arrive in two parts.          *)
Answer(r) ==
  /\ Running
  /\ ~ cfg.send_only
  /\ gens[reqs[r].conn].live
  /\ reqs[r].st \in {"wire", "header"}
  /\ \A q \in 1 .. r - 1 : reqs[q].conn = reqs[r].conn => reqs[q].st = "whole"
  /\ \E st \in {"whole"} \cup
          (IF cfg.protocol = "MEMCACHE" /\ reqs[r].st = "wire" THEN {"header"} ELSE {}) :
       reqs' = [reqs EXCEPT ![r].st = st]
  /\ UNCHANGED <<basevars, gens, pc, cur, clk, batch, err, discarded>>

Thread ==
  \/ SetupConnections \/ SetupDeadlines
  \/ EpollWait \/ TimerEvent \/ (\E g \in DOMAIN gens : RunIo(g)) \/ BatchDone
  \/ RxDone \/ IoEnd \/ Transmit \/ RecvResponse \/ RecvBody
  \/ ReadClock \/ TimerArm \/ BusyDone
  \/ SendRequest \/ TryTxDone \/ FakeResponse \/ SendEnd

Env ==
  \/ Tick \/ TimerExpire
  \/ \E g \in DOMAIN gens : Connected(g)
  \/ \E r \in DOMAIN reqs : Answer(r)

Next == Thread \/ Env

Spec == Init /\ [][Next]_vars

(* The thread runs, time passes, armed timers expire, connections are      *)
(* established and requests that reach the server are answered.  A socket  *)
(* with events keeps making progress (EveryRequestSettled in SockBuf): a   *)
(* socket that stays writable is reported with EPOLLOUT in the end.        *)
FairSpec ==
  /\ Spec
  /\ WF_vars(Thread)
  /\ SF_vars(RxDone)
  /\ SF_vars(Transmit)
  /\ SF_vars(RecvResponse \/ RecvBody)
  /\ WF_vars(Tick)
  /\ WF_vars(TimerExpire)
  /\ WF_vars(\E g \in DOMAIN gens : Connected(g))
  /\ WF_vars(\E r \in DOMAIN reqs : Answer(r))

-----------------------------------------------------------------------------
(* Properties *)

(* Every variable keeps its type; a reference count is never negative. *)
TypeOK ==
  /\ cfg \in Configs
  /\ deadlines \in Seq(Nat) /\ pre_samples \in 0 .. Len(deadlines)
  /\ {sent_count, rcvd_count, measure_count, missed_send, idx, clk, now} \subseteq Nat
  /\ {started, ended, looped, fired} \subseteq BOOLEAN
  /\ gens \in Seq([live : BOOLEAN, ref : Nat, link : {"connecting", "up"},
                   tx_rdy : BOOLEAN, rx : Seq([id : 1 .. Len(reqs), parsed : BOOLEAN])])
  /\ pc \in {"connections", "warmup", "measured", "cooldown", "wait", "batch",
             "io_rx", "io_tx", "clock", "timer", "send_tx", "send_rx", "send_end",
             "exit", "dead"}
  /\ cur \in 0 .. Len(gens) /\ batch \subseteq 0 .. Len(gens)
  /\ err \in {"none", "ENOSPC", "terminate"}
  /\ due \in Nat \cup {NotArmed}
  /\ reqs \in Seq([conn : 1 .. Len(gens), measure : BOOLEAN,
                   st : {"queued", "wire", "header", "whole"}])
  /\ recorded \subseteq DOMAIN reqs /\ discarded \subseteq DOMAIN reqs

Outstanding(g) == {r \in DOMAIN reqs : reqs[r].conn = g /\ r \notin recorded}

(* The count of a generator is one for each request not yet recorded, one  *)
(* for the call on the stack and, for a pooled connection, the first one,  *)
(* which is never given back; it is live exactly while the count is above  *)
(* zero (Generator::get and put, get_connection, record_sample).           *)
RefsAccounted ==
  err = "none" =>
    \A g \in DOMAIN gens :
      /\ gens[g].ref = Cardinality(Outstanding(g)) + (IF cur = g THEN 1 ELSE 0)
                       + (IF cfg.conn_mode = "PER_REQUEST" THEN 0 ELSE 1)
      /\ gens[g].live <=> gens[g].ref > 0

(* A generator is never deleted while its own code is on the stack or an   *)
(* event of the current batch points to it (client.cc:125, and the comment *)
(* on Generator).                                                          *)
NoUseAfterFree ==
  Running => \A g \in (batch \cup {cur}) \ {Timer, NoGen} : gens[g].live

(* A request deleted with its generator has been written to the kernel,    *)
(* except where a connection is opened for one request and its response is *)
(* faked (gen_synthetic.cc:84).                                            *)
NothingDiscarded ==
  discarded # {} => cfg.send_only /\ cfg.conn_mode = "PER_REQUEST"

(* A generator is not deleted while a response body is outstanding: ~Sock  *)
(* cancels pending reads only (socket_buf.cc:41).                          *)
CancelsPendingOnly == err # "terminate"

(* The measured interval covers every measured request from its generation *)
(* to its sample, and is complete when the summary is printed; the count   *)
(* of requests sent that is printed with it is short by the last one at    *)
(* most, whose response can be handled inside send_request (client.cc:257).*)
WindowCovers ==
  /\ \A r \in DOMAIN reqs : reqs[r].measure => started
  /\ ended => /\ measure_count = cfg.samples
              /\ \A r \in DOMAIN reqs : reqs[r].measure => r \in recorded
  /\ pc = "exit" => ended /\ sent_count + 1 >= total_samples

(* Before the last request is sent the client never sleeps without a timer *)
(* armed or expired, although a timer is armed for one shot only.          *)
TimerPending ==
  pc = "wait" /\ sent_count < total_samples =>
    cfg.use_busy_timer \/ due # NotArmed \/ fired

(* The experiment ends, and prints its summary, unless a queue of          *)
(* outstanding requests is filled (record_sample, client.cc:318).          *)
ExperimentEnds ==
  <>(\/ pc = "exit"
     \/ \E g \in DOMAIN gens : Len(gens[g].rx) = MAX_OUTSTANDING_REQS)

(* The client implements the experiment that README.md describes. *)
E == INSTANCE Experiment WITH
       sched  <- IF pc \in {"connections", "warmup", "measured", "cooldown"}
                 THEN << >> ELSE deadlines,
       clock  <- now,
       sent   <- Len(reqs),
       status <- CASE pc = "exit" -> "over" [] pc = "dead" -> "failed"
                   [] OTHER -> "running"

ImplementsExperiment == E!Spec

=============================================================================

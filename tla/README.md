# A verification of mutated

`mutated` is an open-loop load generator: it draws a schedule of transmit times
before the experiment, sends a request at each of them over nonblocking TCP
connections, and measures how long the responses take. Its measurements mean
something only if the socket layer never blocks, never loses a wakeup, and never
attributes a response, or a timestamp, to the wrong request. This directory holds
TLA+ models of that code, the TLC runs that check them on small instances and the
TLAPS proofs that hold for every instance.

## Inventory

| component | source | state | operations |
|---|---|---|---|
| circular buffer | `client/buffer.hh` | `buf_`, `head_`, `tail_`, `used_` | `queue_prep`, `queue_commit`, `queue`, `queue_emplace`, `last`, `peek`, `drop`, `clear`, `dequeue`, iteration |
| socket | `client/socket_buf.*` | readiness flags, receive and send buffers, queues of read and write callbacks, `tx_out_` | `connect`, `read`, `rx`, `write*`, `write_cb_point`, `try_tx`, `tx`, `run_io`, destructor |
| generators | `client/gen_*`, `client/generator.hh` | `requests_`, reference count, memcache sequence id | `_send_request`, `sent_request`, `recv_response`, `get`, `put` |
| client | `client/client.*` | schedule, counters, connections, timer, results | `run`, `timer_handler`, `busy_timer`, `send_request`, `record_sample`, connection modes |
| results | `client/results.hh`, `client/accum.*` | samples, `sorted_`, measured interval, byte counts | `add_sample`, percentiles |
| memcache protocol | `client/memcache.hh` | none | header construction, byte order |
| memcache loader | `client/load_memcache.*` | `sent_`, `recv_`, `onwire_` | batched quiet and loud SETs |
| scatter-gather socket | `client/socket_vec.*` (not built) | reference count, readiness flags, arrays of entries | `get`, `put`, `read`, `rx`, `write`, `tx`, `run_io`, destructor |
| coordinator | `scripts/coord.go` | configuration, one goroutine and connection for each agent, result of a step | warm-up, dividing the load, starting agents, gathering samples, percentiles |
| options, main programs | `client/opts*`, `client/mutated_*.cc` | configuration | parsing |

The client calls a generator to send a request; the generator writes it to the
socket's `wbuf_`, queues a write callback and then a read callback, and records
the request in its own queue. The socket calls back into the generator when the
last byte of the request has been written to the kernel (`sent_request`) and when
a response header is complete (`recv_response`), which calls the client back
(`record_sample`). The client's epoll loop, edge-triggered, drives the socket
(`run_io`). Everything runs on one thread; what happens at the same time is in the
kernel, the network and the server, and in the order of the events of one
`epoll_wait` batch. The coordinator is another program: it starts several
`mutated_synthetic` processes over TCP, each from a goroutine of its own, and reads
the samples they print.

What is hard here:

* the buffer wraps, a full buffer and an empty one have the same pointers, and
  space is prepared and committed in two steps of different lengths;
* reads and writes are partial, so a write ends inside any request and a response
  arrives in any pieces;
* write callbacks are kept as deltas and counted down by partial writes;
* edge-triggered wakeups are lost when a handler stops before `EAGAIN`, and event
  masks are stale when they are handled;
* the request can be on the wire before its read callback is queued;
* generators delete themselves when their reference count drops to 0;
* the timers of the schedule compete with the handling of responses;
* objects are copied into a buffer that wraps, in two parts;
* agents finish, fail or hang in any order, and a step is displayed from what
  they sent.

`PROJECT.json` lists these as hazards, each at its line.

## Modules

* `BufferOps` - the pointer arithmetic of `buffer.hh` as operators on the record
  `[head, tail, used]`; pointers are offsets from `buf_`.
* `Buffer` - the buffer with its slots: one action for each method, with the
  caller's copying (`PrepFillCommit` is `Sock::write` and the read of `Sock::rx`),
  and a range-for loop as three actions, so that other steps could interleave.
* `BoundedQueue` - what a buffer promises: a FIFO queue that refuses exactly what
  does not fit. `Buffer` implements it (`ImplementsQueue`).
* `SockBuf` - one connection: the socket, the two generators' use of it, the part
  of `Client::run` that concerns it, and the kernel, network and server. Bytes are
  positions in two streams; requests are numbers. Each system call ends a step, so
  the environment can act between any two of them; each turn of a callback loop is
  a step of its own. `EpollWait` and `RunIo` are separate, because other events of
  the batch (a timer that sends on this connection) are handled in between.
* `RequestPipe` - what a connection promises the client: every request reported
  sent once and recorded once, in order, never recorded before it is sent.
  `SockBuf` implements it (`ImplementsPipe`).
* `Client` - the client with several connections: the schedule, the timer and the
  busy timer, the three connection modes, the event loop, sending, `record_sample`,
  and the generators with their reference counts, self-deletion, `~Sock` and
  `send_only`. A connection is what `SockBuf` shows of it. Time is in ticks that
  pass between any two steps of the thread.
* `Experiment` - what a run promises (`README.md`, "What latency are we measuring?"):
  a schedule fixed beforehand, requests in its order and never early, each sample
  recorded once, and an end exactly when the last one is. `Client` implements it
  (`ImplementsExperiment`).
* `LoadMemcache` - the loader: quiet and loud SETs, the batch, the notify window and
  the 64-bit counter `onwire_`.
* `Wire` - the bytes of requests in `wbuf_`: the calls by which both generators and the
  loader put a request together, the copies these calls make on the segments of
  `queue_prep`, and what `tx()` takes from the segments of `peek`. It uses `BufferOps`, so
  the arithmetic is the one proved about.
* `Accum` - percentiles of a set of samples, as `accum.cc` and as `coord.go` compute
  them, and the nearest-rank definition to compare them with. A fraction is an exact ratio
  here; the rounding of `double` is left out. `Sorted` gives each sample its place by
  counting, because `SortSeq` is defined for TLC only and the prover cannot expand it.
* `Coord` - the coordinator: the warm-up, the steps, `divCfg`, a goroutine for each agent,
  and the agents as the lines they print.
* `SockVec` - the scatter-gather socket, with a user that starts operations and drops its
  reference, from its event loop or from inside a callback.
* `BufferOpsProofs`, `BufferProofs`, `LoadMemcacheProofs`, `SockBufProofs`, `ClientProofs`,
  `SockVecProofs`, `WireProofs`, `CoordProofs` - the proofs about the module each is named
  after. `BufferOpsProofs` has the lemmas on pointers that `BufferProofs` and `WireProofs`
  share.
* `MCBuffer`, `MCSockBuf`, `MCClient`, `MCLoadMemcache`, `MCWire`, `MCCoord`, `MCSockVec` -
  the instances for TLC.

A mutated form of a definition, such as `Remaining_all` next to `Remaining`, is used by no
specification: it is a plausible mistake, kept to show that a property notices it.

How `SockBuf` corresponds to the code: `rx_cbs`, `tx_cbs`, `requests` are the queues of
`Sock` and of the generator; `rbuf` and `wbuf` are the item counts of the two character
buffers (module `Buffer` shows that a buffer is a queue, so counts are enough); `pc`,
`after`, `nbytes` and `drop` are where the thread is inside `rx()` or `tx()` and the
locals that live there. `Connect` is `Sock::connect`, which starts connecting or throws,
`Generate` is `_send_request` up to `try_tx`, `SockRead` is `Sock::read`, `Tx*` and `Rx*`
are the outcomes of one turn of the loops of `tx()` and `rx()`, `RunIo` and `RunOut` the
two halves of `run_io`. The environment is external: `link`, `edge`, `nospace`, `ksnd`,
`krcv`, `srvin`, `rnet` are modelled from how the code uses `connect`, `epoll`, `read` and
`write`. An exception ends the process (`err`, `pc = "dead"`), as `main` makes it do.

One statement of that code has undefined behaviour: when a GET response header wraps around
the end of `rbuf_`, `recv_response` copies its second part to `&hdr + n`, beyond `hdr` on the
stack (`gen_memcache.cc:209`). `Overruns` says when, and `recv_response` then has two outcomes:
the process ends (`"overrun"`), or it goes on with what it reads. That is `HeaderSays`: of the
body length only the bytes in the first segment count, and the others are the 0 of a new
`MemcHeader`, so a length cut in the middle keeps its high bytes. What a write to the stack
could change besides is not modelled.

How `Client` corresponds to the code: `SetupConnections` and `SetupDeadlines` are
`setup_experiment`; `EpollWait`, `TimerEvent`, `RunIo` and `BatchDone` are the loop of
`run`, which handles the events of a batch in any order; `ReadClock`, `TimerArm`,
`BusyDone`, `SendRequest` and `SendEnd` are the turns of `timer_handler` and
`busy_timer`. `cur` is the generator whose `send_request` or `run_io` is on the stack,
`clk` and `looped` are the locals of the timer handler. A generator is a record with
its count, whether it is live, and `rx`, its socket's `rx_cbs_`; a request's `st` says
how far its bytes have come. `record_sample` is an operator with the line it returns
to as an argument, because it is called from `run_io`, from inside `send_request` and,
in `send_only` mode, by the generator itself. The configuration is a variable chosen
at the start, so one run covers several. `sent_count` is incremented after
`send_request` has returned, as in the code, and the clock is read once for each
call of a timer handler: both matter below.

How `LoadMemcache` corresponds to the code: `SendRequest` is a turn of the inner loop of
`run` up to `try_tx`; `SentQuiet`, or `Read` and `SentLoud`, is the rest of it, split
because `Sock::read` can handle responses before `sent_` and `onwire_` count the
request. `Receive` is `recv_response`, called there or from `run_io`.

How `Wire` corresponds to the code: `SynPacket`, `GetPacket`, `SetPacket` and `LoadPacket`
are the calls of the three `send_request`s, `Call` is one of them, with its
`write_prepare`, copy and `write_commit`. The byte that belongs at a position of the
stream is that position, so a byte out of place is recognised; what is copied from
beyond an object is `Garbage`. `keylen` and `bodylen` keep the widths of their fields: the
generator writes the key size as the 16-bit number that `choose_key` returns, the loader the
whole of it.

How `Coord` corresponds to the code: job 0 is the warm-up, which `main` runs itself; the
others are the goroutines of `measure`, each going through `Dial`, `Spawn`, `ScanRate`, `ScanSample`
and `ScanEof`, or failing (`MeasureError`), which ends the process. `Receive` is one
rendezvous on the unbuffered channel, `Display` a line of output. A sample is known by
its agent and its number; `Latencies` gives values to compute percentiles from. What
an agent does with its arguments is from `parse_synthetic` and `print_summary`: `-s` is a
number of seconds there, so an agent prints more samples than the coordinator reads. What
becomes of an agent is `Started`: it exits at a `-m` or `-d` it does not know, which is the mode
`"unknown"`, draws its schedule from an undefined distribution when it has no rate, and
divides by zero or reads beyond its pool when it has no connections. An agent can break off
between two lines or within one (`AgentEnds`): `bufio.Scanner` hands out what there is of the
last line as if it were whole, so a sample can be a number with its last digits missing.
`cut` and `CutIn` keep track of those; one digit lost stands for any number of them.

How `SockVec` corresponds to the code: `rx()` and `tx()` are the same code up to the system
call, so the state is a function of the direction. `Start` is `read` or `write`, `Readv` and
`Writev` the system calls, `Complete` a turn of the loop with its callback, `Partial` and
`AllComplete` the two ways out, `Put` the end of a reference, with `~Sock` when it is the last.
`to` is the return address, because `rx()` can be called below `run_io`, from `read`, and
from a callback of `tx()`.

## Runs

| run | checks | shows |
|---|---|---|
| `buffer` | `TypeOK`, `TailAgrees`, `PrepMatchesCommit`, `ForLoopVisitsQueue`, `ImplementsQueue` | every sequence of calls on a buffer of 3 slots |
| `sock_synthetic` | `TypeOK`, `SentOnTime`, `NoInternalError`, `NoLostWakeup`, `ImplementsPipe` | 5 requests, queues of 4, buffers of 5 bytes, kernel buffer of 3, failures |
| `sock_memcache` | `NothingStranded`, `Framing`, `EveryRequestSettled` | 3 requests, GET and SET, bodies of 0 and 3, headers that wrap behind their length; every request ends in a sample or a failure |
| `sock_full_queue_hangs` | `EveryRequestSettled` (violated) | a full `rx_cbs_` is never emptied |
| `sock_header_wraps` | `Framing` (violated) | a response header that wraps within its length is misread |
| `client` | `TypeOK`, `RefsAccounted`, `NoUseAfterFree`, `NothingDiscarded`, `CancelsPendingOnly`, `WindowCovers`, `TimerPending`, `ImplementsExperiment`, `ExperimentEnds` | 11 configurations, 3 or 4 requests, 2 connections |
| `client_body_terminates` | `CancelsPendingOnly` (violated) | a body still on its way ends the process |
| `load` | `TypeOK`, `WindowKept`, `NeverStalls`, `DoneMeansServed`, `Finishes` | 14 keys, batch 7, window 3 |
| `wire` | `TypeOK`, `DamageConfined`, `FramesAddUp` | 4 requests of four kinds, 13 bytes of buffer, a key too long for `keylen` |
| `wire_emplace_wraps` | `EmplacedIntact` (violated) | a request header that wraps is sent damaged |
| `coord` | `TypeOK`, `ResultComplete`, `PercentilesBracketed`, `FailsForAReason`, `CoordinatorEnds` | 11 command lines, 2 agents, 2 steps, failures |
| `vec` | `TypeOK`, `ToldOnce`, `RefsHeld`, `NoLostWakeup`, `OperationsEnd` | 3 reads and 3 writes of 2 bytes, 2 slots, kernel buffer of 4, failures |

Bounds. Three slots are the fewest in which a buffer can be partly full, wrapped and
not wrapped, with room on both sides; the proofs remove the bound. In `SockBuf`
requests are longer than the kernel has room for, so every write that could be split
is; responses are two or three units of header and up to three of body, so a header and a
body can each arrive in two pieces and a read can end inside the second response. Five
requests over queues of four reach the limits of all three queues; the 5-byte
buffers reach `ENOSPC` on `wbuf_` and a full `rbuf_`. Header sizes stand for the 24
bytes of `MemcHeader` with `bodylen` in its bytes 8 to 11: `BodyLenEnd` says how many
bytes the first segment must have for the field to survive a header that wraps, and
`LowBytes[n]` what `n` bytes count to, 256^n in the code and 2^n in the instances. In
`sock_memcache` the field is in the first unit of the header and always survives; the second
unit does wrap. In `sock_header_wraps` it ends in the second of three, and a header can wrap
inside it.

In `Client` deadlines are one tick apart, so a handler can be on time, late for one
request, or late for several; the four ticks of `MaxTime` are one more than the last
deadline, after which the clock stands still and an armed timer is due at once. Two
connections are enough for responses to overtake each other; queues of three are
filled by four requests over one connection. `Configs` lists the configurations of a
run. In `LoadMemcache` the batch of 7 is not a multiple of the window of 3 and the 14
keys are a multiple of neither, so `onwire_` goes below zero both in the middle, when
a response is handled inside `Sock::read`, and at the end, when the last window is
partial; `WORD` stands for 2^64 and only has to exceed the counters.

In `Wire` the 13 bytes of the buffer have no common divisor with the lengths of the
requests (3, 4, 8 and 12 bytes), so after four requests every object has been at every
offset at which it can wrap. `KEYLEN_MOD` is less than the key size, so that the
generator's key is truncated and the loader's is not counted in full; `BODYLEN_MOD` is
just above the size of the buffer. In `Coord` two agents are enough for a remainder, for
one that gets nothing and for results in either order, and two steps for a step to follow
another; the command lines of `MCCoord` cover each share of 0, each connection mode and
one the agents do not know. The samples have ties, come sorted and unsorted, and have two
digits where one that is cut should differ. In `SockVec` entries of two bytes are split by
a kernel buffer of four and by four bytes from the peer, one call can complete two
entries, and a third operation finds two slots full.

`CHECK_DEADLOCK FALSE` in the runs other than `buffer`: a connection with nothing
outstanding does stop, and so does the process when it exits or after an exception.
That it stops nowhere else is `EveryRequestSettled`, `ExperimentEnds`, `Finishes`,
`CoordinatorEnds` and `OperationsEnd`; `Wire` has no liveness of its own.

Fairness (`FairSpec`): the thread keeps running (`WF` of its steps: it is an endless
loop that blocks only in `epoll_wait`, where `EpollWait` is disabled), the connection
attempt ends, the network delivers and the server answers. No fairness is assumed of
generating requests, nor of failures. In `Client` and `LoadMemcache` time passes, armed
timers expire and, besides, writing and receiving are strongly fair: there `run_io` may
return at any point, as it does on `EAGAIN`, and what `SockBuf` shows in detail, that a
connection with work left is reported by epoll and goes on, is the assumption. In `Client` the
part of `run_io` for `EPOLLOUT` is strongly fair too: a single event need not have that bit,
but epoll sets it in every event for a socket that is writable. In `Coord`
main, some goroutine and some agent that can go on does (the Go scheduler, and separate
processes); an agent without a rate may hang. In `SockVec` the thread and the network go on;
the user need not do anything.

## What does not hold

Four runs are expected to fail; each states what a comment or the README says.

1. A connection with `MAX_OUTSTANDING_REQS` requests outstanding never handles another
   response, and neither crashes nor goes on (`sock_full_queue_hangs`,
   `socket_buf.cc:167`): a range-for over a full buffer visits nothing, because
   `begin()` equals `end()` (`buffer.hh:370`, `383`).
2. A GET response header that wraps around the end of `rbuf_` is put together with
   `&hdr + n` (`sock_header_wraps`, `gen_memcache.cc:209`): the second part is written beyond
   the header on the stack, and where the process survives that, a body length that lies in
   the second part is read as 0 and one that is cut loses its low bytes. The real buffer is
   200 MB, so this takes that much data on one connection.
3. The same mistake on the way out: an object that wraps around the end of `wbuf_` is sent
   with a tail from `&t + n1` (`wire_emplace_wraps`, `socket_buf.hh:146`; also
   `gen_synthetic.cc:68`). `DamageConfined` shows that nothing else is damaged.
4. With a connection per request, a memcache response whose header arrives before its body
   ends the process (`client_body_terminates`): `~Sock` calls the header callback again
   (`socket_buf.cc:43`), and it throws in a destructor that is `noexcept`.

The passing runs stay clear of all but the third by their constants: `NReqs` below
`MAX_OUTSTANDING_REQS` and a `BodyLenEnd` that no wrap can cut in `sock_memcache`, and no
`PER_REQUEST` configuration of `Client` with memcache. `ExperimentEnds` itself excepts a
filled queue, `EveryRequestSettled` a process that has ended. `DamageConfined`
holds with the third, and says exactly how far the damage goes.

Some properties hold with an exception that is a defect or a limit of the code, and name it:

* `NothingDiscarded`: with a connection per request and `-z`, a request is deleted with its
  connection before the connection is even established, and counted as a sample
  (`gen_synthetic.cc:84`; `opts_synthetic.cc:53` says "send requests only").
* `WindowCovers`: `sent_count_`, printed in the summary, can be short by one, because the
  last response can be handled inside `send_request` (`client.cc:257`).
* `OperationsEnd`: a `readv` of the scatter-gather socket that takes the last bytes before
  the peer closes uses up the wakeup for both; the end of the stream is not read and the
  next operation waits for ever (`socket_vec.cc:147` reads once for each edge).
* `FramesAddUp`: with a key of 65536 bytes or more the loader's header announces less than the
  loader writes (`load_memcache.cc:245`; `memcache.hh:86` says "total body length (key + extra +
  value)"): `MemcHeader` takes the length as 16 bits, the key is written whole, and no option is
  checked. The generator writes the truncated length, and its frames add up.
* `ResultComplete`: a line that an agent did not finish is read as a sample, and a step with it is
  displayed like any other (`coord.go:133`); it can only be the last sample of that agent.
* `FailsForAReason`: options are passed to the agents unchecked, and one they do not know makes
  them exit before the first line; more agents than samples, or than requests a second, makes the
  coordinator fail with an index out of range (`coord.go:139`) or an agent hang or divide
  by zero; no argument is checked.
* `PercentilesBracketed`: `coord.go` rounds down on the last index and can be one rank below
  the nearest rank, which `accum.cc` computes exactly.

Seen in the code and in no run:

* the body of an error response to a SET is not dropped and is taken for the next header
  (`gen_memcache.cc:201`; the comment at 199 says "need to drop body"): with such a server
  `Framing` is violated;
* `timer_handler` arms the timer with the time that was left when it read the clock, so the
  timer is late by the time the handler took (`client.cc:248`; the comment at 77 says "and not
  the distribution + processing time"); requests are sent late, never early
  (`ImplementsExperiment`);
* `timer_handler` does not count the first request it sends as missed, however late it is
  (`client.cc:250`; `busy_timer` does);
* the loader counts a refused key as loaded (`load_memcache.cc:277`);
* `-s` is "measurement sample count" in `README.md:36` and in the coordinator, and seconds in
  `opts_synthetic.cc:154`; the coordinator keeps the first samples it asked for;
* in `socket_vec.cc` a callback that calls `read` re-enters `rx()` while the completed
  entries are still in the array, and `rx_nrents_ = 0` (line 180) forgets what it queued.

## Proofs

`BufferProofs` proves, for every `BUFSZ` and every set of values, the five properties
of run `buffer`: `TypeCorrect`, `TailAlwaysAgrees`, `PrepAlwaysMatchesCommit`,
`ForLoopAlwaysVisitsQueue` and `BufferIsQueue`. The only assumptions are
`BufszAssumption` (there is a slot) and `BlankAssumption` (the content of a fresh slot
is not an item, so that an answer made of one would be noticed).

The inductive invariant `IInv` says three things. `GoodControl`: the three fields are in
range and `tail` is `head + used` modulo the size; it is what the branches of
`queue_prep`, `queue_commit`, `peek` and `drop`, which look at different pairs of fields,
have in common. `Stored`: every slot that counts as an item holds a value. `Iterating`: a
running loop stands at the item after those it has visited, or the buffer is full and the
loop is over at once. The lemmas `CommitGood`, `DropGood`, `PrepSlots`, `PeekSlots` and
`SlotsDistinct` of `BufferOpsProofs` are about pointers; `PutAppends`, `PeekItems` and
`DropRemoves` lift them to the queue; one lemma for each method then gives a step of
`BoundedQueue`. Slot positions are written with a comparison instead of `%`, which keeps
the arithmetic linear.

`LoadMemcacheProofs` proves, for every number of keys, batch, window and first sequence
number, the four safety properties of run `load`: `LoadTypeCorrect`, `WindowAlwaysKept`,
`LoadNeverStalls` and `LoadDoneMeansServed`. `LoadAssumption` says that batch and window are
not 0 (with a window of 0 the code divides by it, with a batch of 0 it waits for ever) and
that a 64-bit word holds the sum of the parameters.

Its inductive invariant has three parts besides the type. `Counting`: the keys sent are
consecutive, `onwire` is `sent - recv` as a 64-bit word, and the batch is kept. `Windows`:
`recv` is a multiple of the window, `rx_cbs_` holds exactly the loud requests after it, one
window apart, and fewer than a window of requests have been sent since the last of them.
This is what makes a full batch contain a loud request, and what the wrapped counter relies
on. `Answers`: a response has arrived for exactly the loud requests served, or there is one
more for the request that `Sock::read` is about to queue. The properties alone are not
inductive: that a loader which waits has something to wait for follows only from where
the last window ended. The arithmetic of `%` is confined to the lemmas `NextBoundary`,
`NoBoundaryInside` and `LoudIsNext`.

`SockBufProofs` proves, for all buffer sizes, queue limits, numbers and lengths of requests
and responses, the properties of the runs `sock_synthetic` and `sock_memcache`
except their liveness. It has two invariants.

* `IInv` needs no more than the sizes (`SizesAssumption`: a header fits into `rbuf_`, the
  kernel's buffers hold something). `Control` says what each point of the code keeps;
  `Outbound` and `Deltas` that the bytes in `wbuf_`, in the kernel and at the server make
  up the stream of requests, and that the deltas in `tx_cbs_` are the distances between
  the ends of requests in it; `SentOrder` and `RecvOrder` that the two queues hold
  consecutive requests; `Inbound` that the same holds of the stream of responses;
  `Wakeups` that the socket is either known to be ready or promised an event. From it
  follow `TypeCorrect`, `SentCorrect`, `WakeupsKept` and `Refinement` (`RequestPipe`).
  None of the first three properties is inductive: `SentOnTime`, for instance, does not
  say that the deltas left add up to the bytes left.
* `FInv` (`InStep`, `Settled`, `NoInternalError`) says that the parser is where a response
  begins or continues. It is inductive only while no header of a GET's response wraps
  around `rbuf_`, which the code does not ensure (run `sock_header_wraps`): one that wraps
  within its body length is misread, and any that wraps is copied beyond its place on the
  stack. `ParsingCorrect` therefore has the hypothesis `[]HeadersWhole`: in every
  behaviour that meets it `Framing`, `NothingStranded` and `NoInternalError` hold;
  `ParsingWithoutGets` needs no such hypothesis and covers the synthetic protocol and
  SETs. `OnlyGetsHaveBodies` says what the protocol does. `ErrorsCorrect` is
  `NoInternalError` alone, under the same hypothesis.

So a header that wraps is the only way in which the buffered socket loses its place in the
stream.

`ClientProofs` proves, for every set of configurations, every schedule and any number of
connections and requests, all safety properties of run `client`, and its refinement of
`Experiment`. The reference counts cannot be proved alone. That a `put` finds a count above
zero needs that what is recorded was not recorded before; this needs the order of `rx_cbs_`
(`Queues`), and to know what the server has answered (`Answers`). That an event of the batch
finds its generator needs to know what is on the stack (`Stack`). `Schedule` and `Progress`
tie the counters to the schedule and to the set of requests recorded, which gives
`WindowCorrect` in whatever order the connections answer. `Timers` says that there is one
timer, and that it is armed, has expired, is in the batch or is being handled: hence
`TimerCorrect`. `CancelCorrect` has a hypothesis, that no configuration is memcache on a
connection for each request; with one, run `client_body_terminates` shows the property
violated.

`SockVecProofs` proves the four invariants of run `vec` for any number of slots and
operations, buffers of any length and any split of the transfers. `Stack` says how calls of
`rx()` and `tx()` nest when callbacks start operations; `RefsHeld` then counts the
references. `Books` relates the arrays to what the user asked for: their entries are the
last operations, the lengths left are the distances between end positions in the stream,
and the operations told are those whose end has been passed, with the entries a loop has
completed but not yet shifted out in between. `Wakeups` says, for each direction, that it is
ready, has an event coming, or that a loop that is still on the stack has everything it
asked for (`Settled`). That `readv` moves no more than the sum of the lengths is the one
induction over data. It is stated for the set of good indices (`LeastNat`, from
`NatLessThanWellFounded`), since a theorem with an operator as a parameter cannot be used.

`WireProofs` proves the three invariants of run `wire` for every size of buffer, object,
key and value. `Tiled` says that the objects appended cover the stream without gap or
overlap; `Aligned` that position `p` of the stream is in slot `(p - 1) % BUFSZ`; `Held`
and `Sent` that a byte is right or has one of the two excuses of `DamageConfined`;
`Requests` how far the request at hand has been put together. `WireAssumption` asks no
more of the sizes than that the buffer is shorter than what `bodylen` can count: with 2^32
and 200 MB it is. Nothing is asked of the key. `FramesCorrect` therefore says what a
header announces for keys of any size: all that follows, except the bytes of a loader's
key that `keylen` cannot count. `BodyLengthCorrect` draws the line: what the comment on
`bodylen` says (`BodyLengthTotal`) is right if the key size fits into 16 bits or if there
is no loader. `IntactBeforeWrap` adds what run `wire_emplace_wraps` cannot show: until the
buffer has been filled once, every object arrives as it was constructed, so the copy that
`write_emplace` misplaces shows only after 200 MB on one connection.

`CoordProofs` proves the four safety properties of run `coord`, `TypeOK`, `ResultComplete`,
`FailsForAReason` and `PercentilesBracketed`, for every command line and number of agents and
steps. That the result is complete at the end follows from what it
is in between: `Gathered` says that what `measure` has added up is what the agents received
from were given. A sum over a set would again need an induction over data; `Shares` is
its closed form, a quotient for each agent and one more for those whose number is below
the remainder, and `SharesAdd` shows that an agent more adds `share`. `Collected` says the same
of the samples. `Reading` and `Printing` follow one job and its agent: an agent that was given
something of everything, and knows its options, prints as many lines as its job wants, so a
job that finds the end too early has a reason. `CutInv` follows the lines that are cut: there is
one only if an agent broke off, and it is the last of what that agent's job has read.

For `PercentilesBracketed`, `PInv` adds to `IInv` that a line displayed carries the percentiles of
its own samples, of which there are some. The rest is about the operators of `Accum`, for
every set of samples, ties included, and every fraction up to 1. Two samples are never in the
same place (`PlaceOrder`), and an injection of a finite set into itself is onto, so every place
is taken (`PlaceTaken`): no induction over the samples is needed. Hence `SortedCounts`, how
many samples are at most, and below, the one of rank r, and with the bounds of the two
formulas for ranks `AccumIsNearestRank` (the rank of `accum.cc` is the nearest rank) and
`PercentileBrackets` (that of `coord.go` is exact at both ends and a rank too low at most). The
one assumption, `LatenciesAssumption`, is that agents print numbers.

Every inductive invariant was checked by TLC on the instance of its run before it was
proved. What stays with TLC: the liveness properties (`EveryRequestSettled`,
`ExperimentEnds`, `Finishes`, `CoordinatorEnds`, `OperationsEnd`), since the prover has no rules
for fairness, and the four disagreements, which are single behaviours. Every safety property
of a passing run is a theorem, four of them with a hypothesis that is named above (`Framing`,
`NothingStranded`, `NoInternalError` and `CancelsPendingOnly`).

## Not modelled, and the plan

The values of clocks and timestamps, service-time distributions, means and deviations,
byte order, printing, `Accum::min` and `Accum::max` and option parsing are not
modelled; neither are the text of memcache keys, a server that refuses a SET of the
loader, a loader whose connection fails or whose `wbuf_` is full (`SockBuf` has both for the
generators), or callbacks of the scatter-gather socket that re-enter the direction they are
called from. A connection of `Client` does not fail and has room for every request; that too
is in `SockBuf` only. The wrappers of system calls (`util.hh`, `linux_compat.hh`) have no state, and
`test1.cc` prints the results of calls that `Buffer` covers. Refused SETs in
`LoadMemcache` are what is left of the plan.

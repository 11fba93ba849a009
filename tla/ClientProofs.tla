------------------------------ MODULE ClientProofs ------------------------------
(***************************************************************************)
(* Proofs about the client, Client, for every configuration, every         *)
(* schedule and any number of connections and requests.                    *)
(*                                                                         *)
(* IInv is inductive.  The reference counts cannot be proved alone: that a *)
(* put finds a count above zero needs that what is recorded was not        *)
(* recorded before, which needs the order of the queues (Queues), which    *)
(* needs to know what the server has answered (Answers); that an event of  *)
(* a batch finds its generator needs to know what is on the stack (Stack). *)
(***************************************************************************)
EXTENDS Client, FiniteSetTheorems, SequenceTheorems, TLAPS

(* Where the thread can be: drawing the schedule, inside send_request, or  *)
(* with a generator on the stack.                                          *)
Setup   == {"connections", "warmup", "measured", "cooldown"}
Sending == {"send_tx", "send_rx", "send_end"}
OnStack == Sending \cup {"io_rx", "io_tx"}

PerRequest == cfg.conn_mode = "PER_REQUEST"

(* The requests to be measured. *)
Window == pre_samples + 1 .. pre_samples + cfg.samples

(* The schedule is drawn in order and before anything else happens.        *)
Schedule ==
  /\ err # "none" <=> pc = "dead"
  /\ pc = "connections" => gens = << >> /\ deadlines = << >>
  /\ pc \in {"connections", "warmup"} => pre_samples = Len(deadlines)
  /\ pc \notin {"connections", "warmup", "measured"} =>
       pre_samples + cfg.samples <= Len(deadlines)
  /\ \A i \in 1 .. Len(deadlines) - 1 : deadlines[i] <= deadlines[i + 1]
  /\ pc \in Setup => /\ reqs = << >> /\ sent_count = 0 /\ recorded = {} /\ now = 0
                     /\ batch = {} /\ cur = NoGen
  /\ pc # "connections" /\ ~ PerRequest => Len(gens) = cfg.conn_cnt
  /\ clk <= now

(* What is counted is what has happened.                                   *)
Progress ==
  /\ Len(reqs) <= total_samples
  /\ Len(reqs) \in {sent_count, sent_count + 1}
  /\ pc \in Sending => Len(reqs) = sent_count + 1
  /\ pc \notin Sending \cup {"exit"} => Len(reqs) = sent_count
  /\ \A r \in 1 .. Len(reqs) : reqs[r].measure <=> r \in Window
  /\ Len(reqs) > pre_samples => started
  /\ rcvd_count = Cardinality(recorded)
  /\ measure_count = Cardinality(recorded \cap Window)
  /\ ended <=> measure_count = cfg.samples
  /\ pc = "exit" => rcvd_count >= total_samples

(* The generator on the stack, and those the batch of events points to.    *)
Stack ==
  /\ pc # "exit" => (cur # NoGen <=> pc \in OnStack)
  /\ pc \in Sending => reqs[Len(reqs)].conn = cur
  /\ PerRequest /\ cur # NoGen => cur \notin batch
  /\ NoUseAfterFree

(* rx_cbs_ holds requests of its own generator, oldest first; only the     *)
(* oldest can have its header behind it, and the others have no sample.    *)
Queues ==
  \A g \in 1 .. Len(gens) :
    /\ \A i \in 1 .. Len(gens[g].rx) :
         /\ reqs[gens[g].rx[i].id].conn = g
         /\ gens[g].rx[i].parsed => i = 1 /\ cfg.protocol = "MEMCACHE"
         /\ ~ cfg.send_only /\ ~ gens[g].rx[i].parsed => gens[g].rx[i].id \notin recorded
    /\ \A i, j \in 1 .. Len(gens[g].rx) : i < j => gens[g].rx[i].id < gens[g].rx[j].id

(* What the server has done for a request agrees with what is recorded.    *)
Answers ==
  /\ \A r \in 1 .. Len(reqs) :
       /\ cfg.send_only => reqs[r].st \in {"queued", "wire"}
       /\ cfg.protocol = "SYNTHETIC" => reqs[r].st # "header"
       /\ ~ cfg.send_only /\ r \in recorded => reqs[r].st \in {"header", "whole"}
  /\ cfg.send_only /\ pc \in {"send_tx", "send_rx"} => Len(reqs) \notin recorded

(* There is one timer, and exactly one of its shots, its event or its      *)
(* handler under way while there are requests to send.                     *)
Armed    == due # NotArmed
Handling == pc \in {"clock", "timer"} \cup Sending
Timers ==
  /\ Armed => ~ fired /\ Timer \notin batch
  /\ fired => Timer \notin batch
  /\ Armed \/ fired \/ Timer \in batch =>
       /\ ~ cfg.use_busy_timer /\ ~ Handling /\ pc \notin Setup
       /\ sent_count < total_samples
  /\ ~ cfg.use_busy_timer =>
       /\ pc = "wait" => batch = {}
       /\ Handling => sent_count < total_samples
       /\ Running /\ sent_count < total_samples => Armed \/ fired \/ Timer \in batch \/ Handling

(* A socket is destroyed with a body outstanding only where a connection   *)
(* is opened for one request whose response has a body.                    *)
Terminates == err = "terminate" => PerRequest /\ cfg.protocol = "MEMCACHE"

(* The inductive invariant. *)
IInv ==
  /\ TypeOK /\ Schedule /\ Progress /\ RefsAccounted /\ Stack /\ Queues /\ Answers
  /\ Timers /\ NothingDiscarded /\ Terminates

-----------------------------------------------------------------------------
(* Types. *)

GenType(n) ==
  [live : BOOLEAN, ref : Nat, link : {"connecting", "up"}, tx_rdy : BOOLEAN,
   rx : Seq([id : 1 .. n, parsed : BOOLEAN])]
ReqType(n) ==
  [conn : 1 .. n, measure : BOOLEAN, st : {"queued", "wire", "header", "whole"}]
Points ==
  {"connections", "warmup", "measured", "cooldown", "wait", "batch", "io_rx", "io_tx",
   "clock", "timer", "send_tx", "send_rx", "send_end", "exit", "dead"}

(* The type invariant in parts: plain variables, and the two tables.       *)
PlainTypes ==
  /\ cfg \in Configs
  /\ deadlines \in Seq(Nat) /\ pre_samples \in 0 .. Len(deadlines)
  /\ {sent_count, rcvd_count, measure_count, missed_send, idx, clk, now} \subseteq Nat
  /\ {started, ended, looped, fired} \subseteq BOOLEAN
  /\ pc \in Points
  /\ err \in {"none", "ENOSPC", "terminate"}
  /\ due \in Nat \cup {NotArmed}
TableTypes ==
  /\ gens \in Seq(GenType(Len(reqs)))
  /\ reqs \in Seq(ReqType(Len(gens)))
  /\ cur \in 0 .. Len(gens) /\ batch \subseteq 0 .. Len(gens)
  /\ recorded \subseteq DOMAIN reqs /\ discarded \subseteq DOMAIN reqs

(* The type invariant falls into these two parts.                          *)
LEMMA TypeParts == TypeOK <=> PlainTypes /\ TableTypes
BY Zenon DEF TypeOK, PlainTypes, TableTypes, GenType, ReqType, Points

(* The fields of the configuration.                                        *)
LEMMA CfgTypes ==
  ASSUME PlainTypes
  PROVE  /\ cfg.conn_mode \in Modes /\ cfg.conn_cnt \in Nat /\ cfg.conn_cnt > 0
         /\ cfg.protocol \in {"SYNTHETIC", "MEMCACHE"}
         /\ cfg.send_only \in BOOLEAN /\ cfg.use_busy_timer \in BOOLEAN
         /\ cfg.warmup \in Nat /\ cfg.samples \in Nat /\ cfg.samples > 0 /\ cfg.cooldown \in Nat
         /\ cfg.send_only => cfg.protocol = "SYNTHETIC"
<1>1. cfg \in [conn_mode : Modes, conn_cnt : Nat \ {0}, protocol : {"SYNTHETIC", "MEMCACHE"},
               send_only : BOOLEAN, use_busy_timer : BOOLEAN,
               warmup : Nat, samples : Nat \ {0}, cooldown : Nat, missed_window : Nat]
  BY ConfigsAssumption, Zenon DEF PlainTypes
<1>2. cfg.send_only => cfg.protocol = "SYNTHETIC"
  BY ConfigsAssumption, Zenon DEF PlainTypes
<1>3. /\ cfg.conn_cnt \in Nat \ {0} /\ cfg.samples \in Nat \ {0}
      /\ cfg.conn_mode \in Modes /\ cfg.protocol \in {"SYNTHETIC", "MEMCACHE"}
      /\ cfg.send_only \in BOOLEAN /\ cfg.use_busy_timer \in BOOLEAN
      /\ cfg.warmup \in Nat /\ cfg.cooldown \in Nat
  BY <1>1, Zenon
<1>4. cfg.conn_cnt > 0 /\ cfg.samples > 0 /\ cfg.conn_cnt \in Nat /\ cfg.samples \in Nat
  BY <1>3
<1> QED
  BY <1>2, <1>3, <1>4, Zenon

(* The plain numbers.                                                      *)
LEMMA Numbers ==
  ASSUME PlainTypes
  PROVE  /\ sent_count \in Nat /\ rcvd_count \in Nat /\ measure_count \in Nat
         /\ missed_send \in Nat /\ idx \in Nat /\ clk \in Nat /\ now \in Nat
         /\ started \in BOOLEAN /\ ended \in BOOLEAN /\ looped \in BOOLEAN /\ fired \in BOOLEAN
         /\ Len(deadlines) \in Nat /\ pre_samples \in Nat /\ pre_samples <= Len(deadlines)
         /\ total_samples = Len(deadlines)
<1>1. /\ sent_count \in Nat /\ rcvd_count \in Nat /\ measure_count \in Nat
      /\ missed_send \in Nat /\ idx \in Nat /\ clk \in Nat /\ now \in Nat
  BY Zenon DEF PlainTypes
<1>2. started \in BOOLEAN /\ ended \in BOOLEAN /\ looped \in BOOLEAN /\ fired \in BOOLEAN
  BY Zenon DEF PlainTypes
<1>3. Len(deadlines) \in Nat /\ pre_samples \in Nat /\ pre_samples <= Len(deadlines)
  BY DEF PlainTypes
<1> QED
  BY <1>1, <1>2, <1>3, Zenon DEF total_samples

(* The fields of the tables.                                               *)
LEMMA Tables ==
  ASSUME TableTypes
  PROVE  /\ Len(gens) \in Nat /\ Len(reqs) \in Nat
         /\ DOMAIN gens = 1 .. Len(gens) /\ DOMAIN reqs = 1 .. Len(reqs)
         /\ cur \in Nat /\ (cur # NoGen => cur \in 1 .. Len(gens))
         /\ \A g \in 1 .. Len(gens) :
              /\ gens[g] \in GenType(Len(reqs))
              /\ gens[g].ref \in Nat /\ gens[g].live \in BOOLEAN
              /\ gens[g].rx \in Seq([id : 1 .. Len(reqs), parsed : BOOLEAN])
              /\ Len(gens[g].rx) \in Nat
              /\ \A i \in 1 .. Len(gens[g].rx) :
                   gens[g].rx[i].id \in 1 .. Len(reqs) /\ gens[g].rx[i].parsed \in BOOLEAN
         /\ \A r \in 1 .. Len(reqs) :
              /\ reqs[r] \in ReqType(Len(gens)) /\ reqs[r].conn \in 1 .. Len(gens)
              /\ reqs[r].measure \in BOOLEAN
              /\ reqs[r].st \in {"queued", "wire", "header", "whole"}
<1>1. gens \in Seq(GenType(Len(reqs))) /\ reqs \in Seq(ReqType(Len(gens)))
  BY Zenon DEF TableTypes
<1>2. /\ Len(gens) \in Nat /\ Len(reqs) \in Nat
      /\ DOMAIN gens = 1 .. Len(gens) /\ DOMAIN reqs = 1 .. Len(reqs)
  BY <1>1, LenProperties, Zenon
<1>3. cur \in Nat /\ (cur # NoGen => cur \in 1 .. Len(gens))
  BY <1>2 DEF TableTypes, NoGen
<1>4. ASSUME NEW g \in 1 .. Len(gens)
      PROVE  /\ gens[g] \in GenType(Len(reqs))
             /\ gens[g].ref \in Nat /\ gens[g].live \in BOOLEAN
             /\ gens[g].rx \in Seq([id : 1 .. Len(reqs), parsed : BOOLEAN])
             /\ Len(gens[g].rx) \in Nat
             /\ \A i \in 1 .. Len(gens[g].rx) :
                  gens[g].rx[i].id \in 1 .. Len(reqs) /\ gens[g].rx[i].parsed \in BOOLEAN
  <2>1. gens[g] \in GenType(Len(reqs))
    BY <1>1, ElementOfSeq, Zenon
  <2>2. gens[g].ref \in Nat /\ gens[g].live \in BOOLEAN
        /\ gens[g].rx \in Seq([id : 1 .. Len(reqs), parsed : BOOLEAN])
    BY <2>1, Zenon DEF GenType
  <2>3. Len(gens[g].rx) \in Nat
    BY <2>2, LenProperties, Zenon
  <2>4. ASSUME NEW i \in 1 .. Len(gens[g].rx)
        PROVE  gens[g].rx[i].id \in 1 .. Len(reqs) /\ gens[g].rx[i].parsed \in BOOLEAN
    <3>1. gens[g].rx[i] \in [id : 1 .. Len(reqs), parsed : BOOLEAN]
      BY <2>2, ElementOfSeq, Zenon
    <3> QED
      BY <3>1, Zenon
  <2> QED
    BY <2>1, <2>2, <2>3, <2>4, Zenon
<1>5. ASSUME NEW r \in 1 .. Len(reqs)
      PROVE  /\ reqs[r] \in ReqType(Len(gens)) /\ reqs[r].conn \in 1 .. Len(gens)
             /\ reqs[r].measure \in BOOLEAN
             /\ reqs[r].st \in {"queued", "wire", "header", "whole"}
  <2>1. reqs[r] \in ReqType(Len(gens))
    BY <1>1, ElementOfSeq, Zenon
  <2> QED
    BY <2>1, Zenon DEF ReqType
<1> QED
  BY <1>2, <1>3, <1>4, <1>5, Zenon

-----------------------------------------------------------------------------
(* Changes of the tables. *)

(* Appending to a sequence.                                                *)
LEMMA AppendSeq ==
  ASSUME NEW S, NEW s \in Seq(S), NEW e \in S
  PROVE  /\ Append(s, e) \in Seq(S)
         /\ Len(Append(s, e)) = Len(s) + 1
         /\ \A i \in 1 .. Len(s) : Append(s, e)[i] = s[i]
         /\ Append(s, e)[Len(s) + 1] = e
OBVIOUS

(* Replacing an element of a sequence.                                     *)
LEMMA ReplaceSeq ==
  ASSUME NEW S, NEW s \in Seq(S), NEW k \in 1 .. Len(s), NEW e \in S
  PROVE  /\ [s EXCEPT ![k] = e] \in Seq(S)
         /\ Len([s EXCEPT ![k] = e]) = Len(s)
         /\ [s EXCEPT ![k] = e][k] = e
         /\ \A j \in 1 .. Len(s) : j # k => [s EXCEPT ![k] = e][j] = s[j]
OBVIOUS

(* Removing the first element of a sequence.                               *)
LEMMA TailSeq ==
  ASSUME NEW S, NEW s \in Seq(S), s # << >>
  PROVE  /\ Tail(s) \in Seq(S) /\ Len(Tail(s)) = Len(s) - 1 /\ Head(s) = s[1]
         /\ Len(s) \in Nat /\ Len(s) >= 1
         /\ \A i \in 1 .. Len(s) - 1 : Tail(s)[i] = s[i + 1]
OBVIOUS

(* A larger set of elements has more sequences.                            *)
LEMMA SeqMonotone ==
  ASSUME NEW S, NEW T, S \subseteq T, NEW s \in Seq(S)
  PROVE  s \in Seq(T)
OBVIOUS

(* More requests make more types of generators, more generators more types *)
(* of requests.                                                            *)
LEMMA TypesMonotone ==
  ASSUME NEW m \in Nat, NEW n \in Nat, m <= n
  PROVE  GenType(m) \subseteq GenType(n) /\ ReqType(m) \subseteq ReqType(n)
<1>1. 1 .. m \subseteq 1 .. n
  OBVIOUS
<1>2. [id : 1 .. m, parsed : BOOLEAN] \subseteq [id : 1 .. n, parsed : BOOLEAN]
  BY <1>1
<1>3. Seq([id : 1 .. m, parsed : BOOLEAN]) \subseteq Seq([id : 1 .. n, parsed : BOOLEAN])
  BY <1>2, SeqMonotone, Zenon
<1>4. GenType(m) \subseteq GenType(n)
  BY <1>3 DEF GenType
<1> QED
  BY <1>1, <1>4 DEF ReqType

(* A generator with one field changed.                                     *)
LEMMA Fields ==
  ASSUME NEW n \in Nat, NEW e \in GenType(n)
  PROVE  /\ \A k \in Nat : [e EXCEPT !.ref = k] =
              [live |-> e.live, ref |-> k, link |-> e.link, tx_rdy |-> e.tx_rdy, rx |-> e.rx]
         /\ \A b \in BOOLEAN : [e EXCEPT !.live = b] =
              [live |-> b, ref |-> e.ref, link |-> e.link, tx_rdy |-> e.tx_rdy, rx |-> e.rx]
         /\ \A b \in BOOLEAN : [e EXCEPT !.tx_rdy = b] =
              [live |-> e.live, ref |-> e.ref, link |-> e.link, tx_rdy |-> b, rx |-> e.rx]
         /\ \A l \in {"connecting", "up"} : [e EXCEPT !.link = l] =
              [live |-> e.live, ref |-> e.ref, link |-> l, tx_rdy |-> e.tx_rdy, rx |-> e.rx]
         /\ \A q \in Seq([id : 1 .. n, parsed : BOOLEAN]) : [e EXCEPT !.rx = q] =
              [live |-> e.live, ref |-> e.ref, link |-> e.link, tx_rdy |-> e.tx_rdy, rx |-> q]
         /\ e.live \in BOOLEAN /\ e.ref \in Nat /\ e.link \in {"connecting", "up"}
         /\ e.tx_rdy \in BOOLEAN /\ e.rx \in Seq([id : 1 .. n, parsed : BOOLEAN])
<1> DEFINE X == Seq([id : 1 .. n, parsed : BOOLEAN])
           G == [live : BOOLEAN, ref : Nat, link : {"connecting", "up"}, tx_rdy : BOOLEAN, rx : X]
<1>1. e \in G
  BY DEF GenType
<1>2. /\ e.live \in BOOLEAN /\ e.ref \in Nat /\ e.link \in {"connecting", "up"}
      /\ e.tx_rdy \in BOOLEAN /\ e.rx \in X
  BY <1>1, Zenon
<1> HIDE DEF X
<1>3. ASSUME NEW k \in Nat
      PROVE  [e EXCEPT !.ref = k] =
              [live |-> e.live, ref |-> k, link |-> e.link, tx_rdy |-> e.tx_rdy, rx |-> e.rx]
  BY <1>1
<1>4. ASSUME NEW b \in BOOLEAN
      PROVE  [e EXCEPT !.live = b] =
              [live |-> b, ref |-> e.ref, link |-> e.link, tx_rdy |-> e.tx_rdy, rx |-> e.rx]
  BY <1>1
<1>5. ASSUME NEW b \in BOOLEAN
      PROVE  [e EXCEPT !.tx_rdy = b] =
              [live |-> e.live, ref |-> e.ref, link |-> e.link, tx_rdy |-> b, rx |-> e.rx]
  BY <1>1
<1>6. ASSUME NEW l \in {"connecting", "up"}
      PROVE  [e EXCEPT !.link = l] =
              [live |-> e.live, ref |-> e.ref, link |-> l, tx_rdy |-> e.tx_rdy, rx |-> e.rx]
  BY <1>1
<1>7. ASSUME NEW q \in X
      PROVE  [e EXCEPT !.rx = q] =
              [live |-> e.live, ref |-> e.ref, link |-> e.link, tx_rdy |-> e.tx_rdy, rx |-> q]
  BY <1>1
<1> QED
  BY <1>2, <1>3, <1>4, <1>5, <1>6, <1>7, Zenon DEF X

(* t is s with generator g given the count k, the state l and the queue q. *)
Edited(t, s, n, g, k, l, q) ==
  /\ t \in Seq(GenType(n)) /\ Len(t) = Len(s)
  /\ t[g].ref = k /\ t[g].live = l /\ t[g].rx = q
  /\ \A h \in 1 .. Len(s) : h # g => t[h] = s[h]

(* Replacing a generator edits it.                                         *)
LEMMA EditOne ==
  ASSUME NEW n \in Nat, NEW s \in Seq(GenType(n)), NEW g \in 1 .. Len(s),
         NEW e \in GenType(n)
  PROVE  Edited([s EXCEPT ![g] = e], s, n, g, e.ref, e.live, e.rx)
<1> DEFINE t == [s EXCEPT ![g] = e]
<1>1. /\ t \in Seq(GenType(n)) /\ Len(t) = Len(s) /\ t[g] = e
      /\ \A j \in 1 .. Len(s) : j # g => t[j] = s[j]
  BY ReplaceSeq
<1> HIDE DEF t
<1>2. Edited(t, s, n, g, e.ref, e.live, e.rx)
  BY <1>1, Zenon DEF Edited
<1> QED
  BY <1>2 DEF t

(* Changing the count of a generator.                                      *)
LEMMA EditRef ==
  ASSUME NEW n \in Nat, NEW s \in Seq(GenType(n)), NEW g \in 1 .. Len(s), NEW k \in Nat
  PROVE  Edited([s EXCEPT ![g].ref = k], s, n, g, k, s[g].live, s[g].rx)
<1> DEFINE e == [live |-> s[g].live, ref |-> k, link |-> s[g].link, tx_rdy |-> s[g].tx_rdy, rx |-> s[g].rx]
<1>1. s[g] \in GenType(n)
  BY ElementOfSeq, Zenon
<1>2. e = [s[g] EXCEPT !.ref = k]
  BY <1>1, Fields, Zenon
<1>3. [s EXCEPT ![g].ref = k] = [s EXCEPT ![g] = e]
  <2>1. [s EXCEPT ![g].ref = k] = [s EXCEPT ![g] = [s[g] EXCEPT !.ref = k]]
    BY Zenon
  <2> QED
    BY <1>2, <2>1, Zenon
<1>4. e \in GenType(n)
  <2>1. /\ s[g].live \in BOOLEAN /\ s[g].ref \in Nat /\ s[g].link \in {"connecting", "up"}
        /\ s[g].tx_rdy \in BOOLEAN /\ s[g].rx \in Seq([id : 1 .. n, parsed : BOOLEAN])
    BY <1>1, Fields, Zenon
  <2> QED
    BY <2>1 DEF GenType
<1>5. e.ref = k /\ e.live = s[g].live /\ e.rx = s[g].rx
  OBVIOUS
<1> HIDE DEF e
<1>6. Edited([s EXCEPT ![g] = e], s, n, g, e.ref, e.live, e.rx)
  BY <1>4, EditOne, Zenon
<1> QED
  BY <1>3, <1>5, <1>6, Zenon

(* Changing rx_cbs_ of a generator.                                        *)
LEMMA EditRx ==
  ASSUME NEW n \in Nat, NEW s \in Seq(GenType(n)), NEW g \in 1 .. Len(s),
         NEW q \in Seq([id : 1 .. n, parsed : BOOLEAN])
  PROVE  Edited([s EXCEPT ![g].rx = q], s, n, g, s[g].ref, s[g].live, q)
<1> DEFINE e == [live |-> s[g].live, ref |-> s[g].ref, link |-> s[g].link, tx_rdy |-> s[g].tx_rdy, rx |-> q]
<1>1. s[g] \in GenType(n)
  BY ElementOfSeq, Zenon
<1>2. e = [s[g] EXCEPT !.rx = q]
  BY <1>1, Fields, Zenon
<1>3. [s EXCEPT ![g].rx = q] = [s EXCEPT ![g] = e]
  <2>1. [s EXCEPT ![g].rx = q] = [s EXCEPT ![g] = [s[g] EXCEPT !.rx = q]]
    BY Zenon
  <2> QED
    BY <1>2, <2>1, Zenon
<1>4. e \in GenType(n)
  <2>1. /\ s[g].live \in BOOLEAN /\ s[g].ref \in Nat /\ s[g].link \in {"connecting", "up"}
        /\ s[g].tx_rdy \in BOOLEAN /\ s[g].rx \in Seq([id : 1 .. n, parsed : BOOLEAN])
    BY <1>1, Fields, Zenon
  <2> QED
    BY <2>1 DEF GenType
<1>5. e.ref = s[g].ref /\ e.live = s[g].live /\ e.rx = q
  OBVIOUS
<1> HIDE DEF e
<1>6. Edited([s EXCEPT ![g] = e], s, n, g, e.ref, e.live, e.rx)
  BY <1>4, EditOne, Zenon
<1> QED
  BY <1>3, <1>5, <1>6, Zenon

(* Changing whether a generator is live.                                   *)
LEMMA EditLive ==
  ASSUME NEW n \in Nat, NEW s \in Seq(GenType(n)), NEW g \in 1 .. Len(s), NEW b \in BOOLEAN
  PROVE  Edited([s EXCEPT ![g].live = b], s, n, g, s[g].ref, b, s[g].rx)
<1> DEFINE e == [live |-> b, ref |-> s[g].ref, link |-> s[g].link, tx_rdy |-> s[g].tx_rdy, rx |-> s[g].rx]
<1>1. s[g] \in GenType(n)
  BY ElementOfSeq, Zenon
<1>2. e = [s[g] EXCEPT !.live = b]
  BY <1>1, Fields, Zenon
<1>3. [s EXCEPT ![g].live = b] = [s EXCEPT ![g] = e]
  <2>1. [s EXCEPT ![g].live = b] = [s EXCEPT ![g] = [s[g] EXCEPT !.live = b]]
    BY Zenon
  <2> QED
    BY <1>2, <2>1, Zenon
<1>4. e \in GenType(n)
  <2>1. /\ s[g].live \in BOOLEAN /\ s[g].ref \in Nat /\ s[g].link \in {"connecting", "up"}
        /\ s[g].tx_rdy \in BOOLEAN /\ s[g].rx \in Seq([id : 1 .. n, parsed : BOOLEAN])
    BY <1>1, Fields, Zenon
  <2> QED
    BY <2>1 DEF GenType
<1>5. e.ref = s[g].ref /\ e.live = b /\ e.rx = s[g].rx
  OBVIOUS
<1> HIDE DEF e
<1>6. Edited([s EXCEPT ![g] = e], s, n, g, e.ref, e.live, e.rx)
  BY <1>4, EditOne, Zenon
<1> QED
  BY <1>3, <1>5, <1>6, Zenon

(* Changing tx_rdy_ of a generator.                                        *)
LEMMA EditTx ==
  ASSUME NEW n \in Nat, NEW s \in Seq(GenType(n)), NEW g \in 1 .. Len(s), NEW b \in BOOLEAN
  PROVE  Edited([s EXCEPT ![g].tx_rdy = b], s, n, g, s[g].ref, s[g].live, s[g].rx)
<1> DEFINE e == [live |-> s[g].live, ref |-> s[g].ref, link |-> s[g].link, tx_rdy |-> b, rx |-> s[g].rx]
<1>1. s[g] \in GenType(n)
  BY ElementOfSeq, Zenon
<1>2. e = [s[g] EXCEPT !.tx_rdy = b]
  BY <1>1, Fields, Zenon
<1>3. [s EXCEPT ![g].tx_rdy = b] = [s EXCEPT ![g] = e]
  <2>1. [s EXCEPT ![g].tx_rdy = b] = [s EXCEPT ![g] = [s[g] EXCEPT !.tx_rdy = b]]
    BY Zenon
  <2> QED
    BY <1>2, <2>1, Zenon
<1>4. e \in GenType(n)
  <2>1. /\ s[g].live \in BOOLEAN /\ s[g].ref \in Nat /\ s[g].link \in {"connecting", "up"}
        /\ s[g].tx_rdy \in BOOLEAN /\ s[g].rx \in Seq([id : 1 .. n, parsed : BOOLEAN])
    BY <1>1, Fields, Zenon
  <2> QED
    BY <2>1 DEF GenType
<1>5. e.ref = s[g].ref /\ e.live = s[g].live /\ e.rx = s[g].rx
  OBVIOUS
<1> HIDE DEF e
<1>6. Edited([s EXCEPT ![g] = e], s, n, g, e.ref, e.live, e.rx)
  BY <1>4, EditOne, Zenon
<1> QED
  BY <1>3, <1>5, <1>6, Zenon

(* Changing the state of the connection of a generator.                    *)
LEMMA EditLink ==
  ASSUME NEW n \in Nat, NEW s \in Seq(GenType(n)), NEW g \in 1 .. Len(s), NEW l \in {"connecting", "up"}
  PROVE  Edited([s EXCEPT ![g].link = l], s, n, g, s[g].ref, s[g].live, s[g].rx)
<1> DEFINE e == [live |-> s[g].live, ref |-> s[g].ref, link |-> l, tx_rdy |-> s[g].tx_rdy, rx |-> s[g].rx]
<1>1. s[g] \in GenType(n)
  BY ElementOfSeq, Zenon
<1>2. e = [s[g] EXCEPT !.link = l]
  BY <1>1, Fields, Zenon
<1>3. [s EXCEPT ![g].link = l] = [s EXCEPT ![g] = e]
  <2>1. [s EXCEPT ![g].link = l] = [s EXCEPT ![g] = [s[g] EXCEPT !.link = l]]
    BY Zenon
  <2> QED
    BY <1>2, <2>1, Zenon
<1>4. e \in GenType(n)
  <2>1. /\ s[g].live \in BOOLEAN /\ s[g].ref \in Nat /\ s[g].link \in {"connecting", "up"}
        /\ s[g].tx_rdy \in BOOLEAN /\ s[g].rx \in Seq([id : 1 .. n, parsed : BOOLEAN])
    BY <1>1, Fields, Zenon
  <2> QED
    BY <2>1 DEF GenType
<1>5. e.ref = s[g].ref /\ e.live = s[g].live /\ e.rx = s[g].rx
  OBVIOUS
<1> HIDE DEF e
<1>6. Edited([s EXCEPT ![g] = e], s, n, g, e.ref, e.live, e.rx)
  BY <1>4, EditOne, Zenon
<1> QED
  BY <1>3, <1>5, <1>6, Zenon

(* Two edits of a generator are one.                                       *)
LEMMA EditTwice ==
  ASSUME NEW n \in Nat, NEW s \in Seq(GenType(n)), NEW g \in 1 .. Len(s), NEW t, NEW u,
         NEW k1, NEW l1, NEW q1, NEW k, NEW l, NEW q,
         Edited(t, s, n, g, k1, l1, q1), Edited(u, t, n, g, k, l, q)
  PROVE  Edited(u, s, n, g, k, l, q)
<1>1. /\ Len(t) = Len(s) /\ Len(u) = Len(t)
      /\ \A h \in 1 .. Len(s) : h # g => t[h] = s[h]
      /\ \A h \in 1 .. Len(t) : h # g => u[h] = t[h]
  BY Zenon DEF Edited
<1>2. \A h \in 1 .. Len(s) : h # g => u[h] = s[h]
  BY <1>1, Zenon
<1> QED
  BY <1>1, <1>2, Zenon DEF Edited

(* Generator::put.                                                         *)
LEMMA EditPut ==
  ASSUME NEW n \in Nat, NEW s \in Seq(GenType(n)), NEW g \in 1 .. Len(s), s[g].ref >= 1
  PROVE  Edited(Put(s, g), s, n, g, s[g].ref - 1, s[g].ref # 1, s[g].rx)
<1> DEFINE k == s[g].ref - 1
           b == s[g].ref # 1
           t == [s EXCEPT ![g].ref = k]
<1>1. k \in Nat /\ b \in BOOLEAN
  <2>1. s[g] \in GenType(n)
    BY ElementOfSeq, Zenon
  <2>2. s[g].ref \in Nat
    BY <2>1, Fields, Zenon
  <2> QED
    BY <2>2
<1>2. Put(s, g) = [t EXCEPT ![g].live = b]
  BY Zenon DEF Put
<1> HIDE DEF k, b
<1>3. Edited(t, s, n, g, k, s[g].live, s[g].rx)
  BY <1>1, EditRef, Zenon
<1>4. t \in Seq(GenType(n)) /\ g \in 1 .. Len(t) /\ t[g].ref = k /\ t[g].rx = s[g].rx
  BY <1>3, Zenon DEF Edited
<1> HIDE DEF t
<1>5. Edited([t EXCEPT ![g].live = b], t, n, g, k, b, s[g].rx)
  <2>1. Edited([t EXCEPT ![g].live = b], t, n, g, t[g].ref, b, t[g].rx)
    BY <1>1, <1>4, EditLive, Zenon
  <2> QED
    BY <1>4, <2>1, Zenon
<1> DEFINE u == [t EXCEPT ![g].live = b]
<1>6. Edited(Put(s, g), s, n, g, k, b, s[g].rx)
  <2>1. Edited(u, t, n, g, k, b, s[g].rx) /\ Put(s, g) = u
    BY <1>2, <1>5
  <2> HIDE DEF u
  <2>2. Edited(u, s, n, g, k, b, s[g].rx)
    BY <1>3, <2>1, EditTwice
  <2> QED
    BY <2>1, <2>2, Zenon
<1> QED
  BY <1>6 DEF k, b

-----------------------------------------------------------------------------
(* Counting references. *)

Extra == IF PerRequest THEN 0 ELSE 1

(* The requests of a generator without a sample are finitely many.         *)
LEMMA OutstandingFinite ==
  ASSUME TableTypes, NEW g
  PROVE  /\ IsFiniteSet(Outstanding(g)) /\ Cardinality(Outstanding(g)) \in Nat
         /\ \A r \in Outstanding(g) : Cardinality(Outstanding(g)) >= 1
         /\ Cardinality(Outstanding(g)) = 0 <=> Outstanding(g) = {}
<1>1. IsFiniteSet(1 .. Len(reqs)) /\ DOMAIN reqs = 1 .. Len(reqs)
  <2>1. Len(reqs) \in Nat /\ DOMAIN reqs = 1 .. Len(reqs)
    BY Tables, Zenon
  <2>2. 1 \in Int /\ Len(reqs) \in Int
    BY <2>1
  <2> QED
    BY <2>1, <2>2, FS_Interval, Zenon
<1>2. Outstanding(g) \in SUBSET (1 .. Len(reqs))
  BY <1>1, Zenon DEF Outstanding
<1>3. IsFiniteSet(Outstanding(g))
  BY <1>1, <1>2, FS_Subset, Zenon
<1>4. Cardinality(Outstanding(g)) \in Nat
  BY <1>3, FS_CardinalityType, Zenon
<1>5. Cardinality(Outstanding(g)) = 0 <=> Outstanding(g) = {}
  BY <1>3, FS_EmptySet, Zenon
<1> QED
  BY <1>3, <1>4, <1>5

(* The count of the generator on the stack.                                *)
LEMMA OnStackCount ==
  ASSUME IInv, pc \in OnStack
  PROVE  /\ cur \in 1 .. Len(gens) /\ err = "none" /\ gens[cur].live
         /\ gens[cur].ref = Cardinality(Outstanding(cur)) + 1 + Extra
         /\ gens[cur].ref >= 1
         /\ Cardinality(Outstanding(cur)) \in Nat /\ gens[cur].ref \in Nat /\ Extra \in {0, 1}
         /\ \A r \in Outstanding(cur) : gens[cur].ref >= 2
<1>1. TableTypes /\ PlainTypes
  BY TypeParts DEF IInv
<1>2. pc # "exit" /\ pc # "dead"
  BY DEF OnStack, Sending
<1>3. cur # NoGen /\ err = "none"
  BY <1>1, <1>2 DEF IInv, Stack, Schedule, PlainTypes
<1>4. cur \in 1 .. Len(gens) /\ cur \in DOMAIN gens /\ gens[cur].ref \in Nat
  BY <1>1, <1>3, Tables, Zenon
<1>5. /\ gens[cur].ref = Cardinality(Outstanding(cur)) + (IF cur = cur THEN 1 ELSE 0)
                         + (IF cfg.conn_mode = "PER_REQUEST" THEN 0 ELSE 1)
      /\ gens[cur].live <=> gens[cur].ref > 0
  BY <1>3, <1>4, Zenon DEF IInv, RefsAccounted
<1>6. gens[cur].ref = Cardinality(Outstanding(cur)) + 1 + Extra
  BY <1>5 DEF Extra, PerRequest
<1>7. Cardinality(Outstanding(cur)) \in Nat /\ Extra \in {0, 1}
      /\ \A r \in Outstanding(cur) : Cardinality(Outstanding(cur)) >= 1
  BY <1>1, OutstandingFinite DEF Extra
<1>8. gens[cur].ref >= 1 /\ (Cardinality(Outstanding(cur)) >= 1 => gens[cur].ref >= 2)
  BY <1>6, <1>7
<1>9. gens[cur].ref > 0
  BY <1>4, <1>8
<1> QED
  BY <1>3, <1>4, <1>5, <1>6, <1>7, <1>8, <1>9, Zenon

Touched(g, k, l, q) == Edited(gens', gens, Len(reqs), g, k, l, q)

(* The tables are sequences of their types.                                *)
LEMMA TableSeqs ==
  ASSUME IInv
  PROVE  /\ PlainTypes /\ TableTypes /\ Len(reqs) \in Nat /\ Len(gens) \in Nat
         /\ gens \in Seq(GenType(Len(reqs))) /\ reqs \in Seq(ReqType(Len(gens)))
         /\ DOMAIN gens = 1 .. Len(gens) /\ DOMAIN reqs = 1 .. Len(reqs)
<1>1. PlainTypes /\ TableTypes
  BY TypeParts DEF IInv
<1> QED
  BY <1>1, Tables, Zenon DEF TableTypes

(* The first step of run_io takes a reference to a live generator. *)
LEMMA RunIoEffect ==
  ASSUME IInv, NEW g \in DOMAIN gens, RunIo(g)
  PROVE  /\ g \in 1 .. Len(gens) /\ g \in batch /\ gens[g].live /\ cur = NoGen /\ g # NoGen
         /\ Touched(g, gens[g].ref + 1, gens[g].live, gens[g].rx)
<1>1. pc = "batch" /\ g \in batch /\ gens' = [gens EXCEPT ![g].ref = gens[g].ref + 1]
  BY DEF RunIo, IoHold
<1>2. g \in 1 .. Len(gens) /\ gens[g].ref \in Nat
  BY TableSeqs, Tables, Zenon
<1>3. g # NoGen /\ g # Timer
  BY <1>2, TableSeqs DEF NoGen, Timer
<1>4. cur = NoGen
  BY <1>1 DEF IInv, Stack, OnStack, Sending
<1>5. gens[g].live
  <2>1. Running
    BY <1>1 DEF Running
  <2> QED
    BY <1>1, <1>3, <2>1, Zenon DEF IInv, Stack, NoUseAfterFree
<1>6. gens[g].ref + 1 \in Nat
  BY <1>2
<1>7. Touched(g, gens[g].ref + 1, gens[g].live, gens[g].rx)
  BY <1>1, <1>2, <1>6, TableSeqs, EditRef, Zenon DEF Touched
<1> QED
  BY <1>1, <1>2, <1>3, <1>4, <1>5, <1>7

(* The end of rx() and the establishment of a connection change flags only.*)
LEMMA FlagEffect ==
  ASSUME IInv, RxDone \/ \E g \in DOMAIN gens : Connected(g)
  PROVE  \E g \in 1 .. Len(gens) : Touched(g, gens[g].ref, gens[g].live, gens[g].rx)
<1>1. CASE RxDone
  <2>1. gens' = [gens EXCEPT ![cur].tx_rdy = TRUE] /\ pc \in OnStack
    BY <1>1 DEF RxDone, OnStack
  <2>2. cur \in 1 .. Len(gens)
    BY <2>1, OnStackCount, Zenon
  <2>3. Touched(cur, gens[cur].ref, gens[cur].live, gens[cur].rx)
    BY <2>1, <2>2, TableSeqs, EditTx, Zenon DEF Touched
  <2> QED
    BY <2>2, <2>3, Zenon
<1>2. CASE \E g \in DOMAIN gens : Connected(g)
  <2>1. PICK g \in DOMAIN gens : Connected(g)
    BY <1>2, Zenon
  <2>2. gens' = [gens EXCEPT ![g].link = "up"] /\ "up" \in {"connecting", "up"}
    BY <2>1 DEF Connected
  <2>3. g \in 1 .. Len(gens)
    BY TableSeqs, Zenon
  <2>4. Touched(g, gens[g].ref, gens[g].live, gens[g].rx)
    BY <2>2, <2>3, TableSeqs, EditLink, Zenon DEF Touched
  <2> QED
    BY <2>3, <2>4, Zenon
<1> QED
  BY <1>1, <1>2

(* The put at the end of send_request and of run_io.                       *)
LEMMA PutEffect ==
  ASSUME IInv, NEW next, PutCur(next), pc \in OnStack
  PROVE  /\ Touched(cur, gens[cur].ref - 1, gens[cur].ref # 1, gens[cur].rx)
         /\ cur' = NoGen
<1>1. gens' = Put(gens, cur) /\ cur' = NoGen
  BY DEF PutCur
<1>2. cur \in 1 .. Len(gens) /\ gens[cur].ref >= 1
  BY OnStackCount, Zenon
<1>3. Edited(Put(gens, cur), gens, Len(reqs), cur, gens[cur].ref - 1, gens[cur].ref # 1, gens[cur].rx)
  BY <1>2, TableSeqs, EditPut, Zenon
<1> QED
  BY <1>1, <1>3, Zenon DEF Touched

(* The rest of a body is dropped from the front of rx_cbs_.                *)
LEMMA BodyEffect ==
  ASSUME IInv, RecvBody
  PROVE  /\ cur \in 1 .. Len(gens) /\ gens[cur].rx # << >>
         /\ Touched(cur, gens[cur].ref, gens[cur].live, Tail(gens[cur].rx))
<1>1. /\ gens' = [gens EXCEPT ![cur].rx = Tail(gens[cur].rx)] /\ pc \in OnStack
      /\ gens[cur].rx # << >>
  BY DEF RecvBody, OnStack, Sending, Arrived
<1>2. cur \in 1 .. Len(gens)
  BY <1>1, OnStackCount, Zenon
<1>3. gens[cur].rx \in Seq([id : 1 .. Len(reqs), parsed : BOOLEAN])
  BY <1>2, TableSeqs, Tables, Zenon
<1>4. Tail(gens[cur].rx) \in Seq([id : 1 .. Len(reqs), parsed : BOOLEAN])
  BY <1>1, <1>3, TailSeq, Zenon
<1>5. Touched(cur, gens[cur].ref, gens[cur].live, Tail(gens[cur].rx))
  BY <1>1, <1>2, <1>4, TableSeqs, EditRx, Zenon DEF Touched
<1> QED
  BY <1>1, <1>2, <1>5

-----------------------------------------------------------------------------
(* Samples. *)

(* record_sample is called for request r, which leaves the queue q in the  *)
(* generator on the stack.                                                 *)
Records(r, q) ==
  /\ r \in 1 .. Len(reqs) /\ r \notin recorded /\ reqs[r].conn = cur
  /\ cur \in 1 .. Len(gens) /\ gens[cur].ref >= 2
  /\ Touched(cur, gens[cur].ref - 1, gens[cur].ref # 1, q)
  /\ recorded' = recorded \cup {r} /\ rcvd_count' = rcvd_count + 1
  /\ measure_count' = measure_count + (IF reqs[r].measure THEN 1 ELSE 0)
  /\ ended' = (ended \/ LastMeasured(r))
  /\ pc \in {"send_rx", "io_rx"} /\ (pc' = "exit" <=> AllReceived)
  /\ UNCHANGED <<schedvars, sent_count, started, sendvars, timevars, cur, clk, batch,
                 err, reqs, discarded>>

(* What rx() finds at the front of rx_cbs_ when it calls recv_response.    *)
LEMMA HeadFacts ==
  ASSUME IInv, RecvResponse
  PROVE  /\ cur \in 1 .. Len(gens) /\ gens[cur].rx # << >> /\ 1 \in 1 .. Len(gens[cur].rx)
         /\ Head(gens[cur].rx) = gens[cur].rx[1] /\ ~ gens[cur].rx[1].parsed
         /\ gens[cur].rx[1].id \in 1 .. Len(reqs)
         /\ reqs[gens[cur].rx[1].id].st \in {"header", "whole"}
         /\ gens[cur].rx \in Seq([id : 1 .. Len(reqs), parsed : BOOLEAN])
<1>1. /\ pc \in OnStack /\ gens[cur].rx # << >> /\ ~ Head(gens[cur].rx).parsed
      /\ reqs[Head(gens[cur].rx).id].st \in {"header", "whole"}
  BY DEF RecvResponse, OnStack, Sending, Arrived
<1>2. cur \in 1 .. Len(gens)
  BY <1>1, OnStackCount, Zenon
<1>3. gens[cur].rx \in Seq([id : 1 .. Len(reqs), parsed : BOOLEAN])
  BY <1>2, TableSeqs, Tables, Zenon
<1>4. Head(gens[cur].rx) = gens[cur].rx[1] /\ Len(gens[cur].rx) \in Nat /\ Len(gens[cur].rx) >= 1
  BY <1>1, <1>3, TailSeq, Zenon
<1>5. 1 \in 1 .. Len(gens[cur].rx)
  BY <1>4
<1>6. gens[cur].rx[1].id \in 1 .. Len(reqs)
  BY <1>2, <1>5, TableSeqs, Tables, Zenon
<1> QED
  BY <1>1, <1>2, <1>3, <1>4, <1>5, <1>6, Zenon

(* rx_cbs_ after the callback.                                             *)
LEMMA AfterHeaderFacts ==
  ASSUME IInv, NEW rx \in Seq([id : 1 .. Len(reqs), parsed : BOOLEAN]), rx # << >>,
         NEW st
  PROVE  /\ AfterHeader(rx, st) \in Seq([id : 1 .. Len(reqs), parsed : BOOLEAN])
         /\ st = "whole" => AfterHeader(rx, st) = Tail(rx)
         /\ st # "whole" =>
              /\ Len(AfterHeader(rx, st)) = Len(rx)
              /\ AfterHeader(rx, st)[1].id = rx[1].id /\ AfterHeader(rx, st)[1].parsed
              /\ \A i \in 1 .. Len(rx) : i # 1 => AfterHeader(rx, st)[i] = rx[i]
<1> DEFINE T == [id : 1 .. Len(reqs), parsed : BOOLEAN]
           e == [id |-> rx[1].id, parsed |-> TRUE]
           s == [rx EXCEPT ![1] = e]
<1>1. Len(rx) \in Nat /\ Len(rx) >= 1 /\ Tail(rx) \in Seq(T)
  BY TailSeq, Zenon
<1>2. 1 \in 1 .. Len(rx)
  BY <1>1
<1>3. rx[1] \in T
  BY <1>2, ElementOfSeq, Zenon
<1>4. [rx[1] EXCEPT !.parsed = TRUE] = e
  <2>1. ASSUME NEW r, r \in T, NEW b \in BOOLEAN
        PROVE  [r EXCEPT !.parsed = b] = [id |-> r.id, parsed |-> b]
    BY <2>1
  <2>2. TRUE \in BOOLEAN
    BY Zenon
  <2> QED
    BY <1>3, <2>1, <2>2, Zenon
<1>5. e \in T /\ e.id = rx[1].id /\ e.parsed
  BY <1>3
<1>6. [rx EXCEPT ![1].parsed = TRUE] = s
  <2>1. [rx EXCEPT ![1].parsed = TRUE] = [rx EXCEPT ![1] = [rx[1] EXCEPT !.parsed = TRUE]]
    BY Zenon
  <2> QED
    BY <1>4, <2>1, Zenon
<1> HIDE DEF e, T
<1>7. s \in Seq(T) /\ Len(s) = Len(rx) /\ s[1] = e /\ \A i \in 1 .. Len(rx) : i # 1 => s[i] = rx[i]
  BY <1>2, <1>5, ReplaceSeq DEF T
<1> HIDE DEF s
<1>8. AfterHeader(rx, st) = IF st = "whole" THEN Tail(rx) ELSE s
  BY <1>6, Zenon DEF AfterHeader
<1>9. CASE st = "whole"
  BY <1>1, <1>8, <1>9, Zenon DEF T
<1>10. CASE st # "whole"
  BY <1>5, <1>7, <1>8, <1>10, Zenon DEF T
<1> QED
  BY <1>9, <1>10

(* recv_response calls record_sample for the oldest request, which has no  *)
(* sample yet.                                                             *)
LEMMA RecvEffect ==
  ASSUME IInv, RecvResponse
  PROVE  /\ Records(gens[cur].rx[1].id,
                    AfterHeader(gens[cur].rx, reqs[gens[cur].rx[1].id].st))
         /\ ~ cfg.send_only /\ pc' \in {"exit", pc}
<1> DEFINE r == gens[cur].rx[1].id
           q == AfterHeader(gens[cur].rx, reqs[r].st)
           s == [gens EXCEPT ![cur].rx = q]
<1>1. cur \in 1 .. Len(gens) /\ r \in 1 .. Len(reqs) /\ 1 \in 1 .. Len(gens[cur].rx)
      /\ reqs[r].st \in {"header", "whole"} /\ ~ gens[cur].rx[1].parsed /\ gens[cur].rx # << >>
      /\ gens[cur].rx \in Seq([id : 1 .. Len(reqs), parsed : BOOLEAN])
  BY HeadFacts, Zenon
<1>2. cfg.send_only => reqs[r].st \in {"queued", "wire"}
  BY <1>1, Zenon DEF IInv, Answers
<1>3. ~ cfg.send_only
  BY <1>1, <1>2
<1>4. reqs[r].conn = cur /\ r \notin recorded
  BY <1>1, <1>3, Zenon DEF IInv, Queues
<1>5. pc \in OnStack /\ pc \in {"send_rx", "io_rx"}
  BY DEF RecvResponse, OnStack, Sending
<1>6. gens[cur].ref >= 2
  <2>1. r \in Outstanding(cur)
    BY <1>1, <1>4, TableSeqs, Zenon DEF Outstanding
  <2> QED
    BY <1>5, <2>1, OnStackCount, Zenon
<1>7. record_sample(s, r, pc)
  <2>1. Head(gens[cur].rx) = gens[cur].rx[1]
    BY HeadFacts, Zenon
  <2>2. record_sample([gens EXCEPT ![cur].rx =
            AfterHeader(gens[cur].rx, reqs[Head(gens[cur].rx).id].st)], Head(gens[cur].rx).id, pc)
    BY Zenon DEF RecvResponse
  <2> QED
    BY <2>1, <2>2, Zenon
<1>8. /\ measure_count' = measure_count + (IF reqs[r].measure THEN 1 ELSE 0)
      /\ ended' = (ended \/ LastMeasured(r))
      /\ gens' = Put(s, cur)
      /\ rcvd_count' = rcvd_count + 1 /\ recorded' = recorded \cup {r}
      /\ pc' = IF AllReceived THEN "exit" ELSE pc
  BY <1>4, <1>7, Zenon DEF record_sample
<1>9. Touched(cur, gens[cur].ref - 1, gens[cur].ref # 1, q)
  <2>1. q \in Seq([id : 1 .. Len(reqs), parsed : BOOLEAN])
    BY <1>1, AfterHeaderFacts, Zenon
  <2> HIDE DEF q
  <2>2. Edited(s, gens, Len(reqs), cur, gens[cur].ref, gens[cur].live, q)
    BY <1>1, <2>1, TableSeqs, EditRx, Zenon
  <2> HIDE DEF s
  <2>3. s \in Seq(GenType(Len(reqs))) /\ cur \in 1 .. Len(s) /\ s[cur].ref = gens[cur].ref
        /\ s[cur].rx = q /\ s[cur].ref >= 1
    <3>1. s \in Seq(GenType(Len(reqs))) /\ cur \in 1 .. Len(s) /\ s[cur].ref = gens[cur].ref
          /\ s[cur].rx = q
      BY <1>1, <2>2, Zenon DEF Edited
    <3>2. gens[cur].ref \in Nat
      BY <1>1, TableSeqs, Tables, Zenon
    <3> QED
      BY <1>6, <3>1, <3>2
  <2>4. Edited(Put(s, cur), s, Len(reqs), cur, s[cur].ref - 1, s[cur].ref # 1, s[cur].rx)
    BY <2>3, TableSeqs, EditPut, Zenon
  <2>5. Edited(Put(s, cur), s, Len(reqs), cur, gens[cur].ref - 1, gens[cur].ref # 1, q)
    BY <2>3, <2>4, Zenon
  <2>6. Edited(Put(s, cur), gens, Len(reqs), cur, gens[cur].ref - 1, gens[cur].ref # 1, q)
    BY <1>1, <2>2, <2>5, TableSeqs, EditTwice
  <2> QED
    BY <1>8, <2>6, Zenon DEF Touched
<1>10. UNCHANGED <<schedvars, sent_count, started, sendvars, timevars, cur, clk, batch,
                  err, reqs, discarded>>
  BY Zenon DEF RecvResponse
<1>11. pc' = "exit" <=> AllReceived
  BY <1>5, <1>8
<1> QED
  BY <1>1, <1>3, <1>4, <1>5, <1>6, <1>8, <1>9, <1>10, <1>11, Zenon DEF Records

(* In send_only mode the sample is that of the request just sent.          *)
LEMMA FakeEffect ==
  ASSUME IInv, FakeResponse
  PROVE  /\ Records(Len(reqs), gens[cur].rx) /\ cfg.send_only
         /\ pc = "send_rx" /\ pc' \in {"exit", "send_end"}
<1> DEFINE r == Len(reqs)
<1>1. pc = "send_rx" /\ cfg.send_only /\ record_sample(gens, r, "send_end")
  BY Zenon DEF FakeResponse
<1>2. pc \in OnStack /\ pc \in Sending
  BY <1>1 DEF OnStack, Sending
<1>3. cur \in 1 .. Len(gens)
  BY <1>2, OnStackCount, Zenon
<1>4. r \in 1 .. Len(reqs)
  <2>1. Len(reqs) = sent_count + 1 /\ sent_count \in Nat
    BY <1>2, TableSeqs, Numbers DEF IInv, Progress
  <2> QED
    BY <2>1
<1>5. reqs[r].conn = cur /\ r \notin recorded
  BY <1>1, <1>2 DEF IInv, Stack, Answers
<1>6. gens[cur].ref >= 2
  <2>1. r \in Outstanding(cur)
    BY <1>4, <1>5, TableSeqs, Zenon DEF Outstanding
  <2> QED
    BY <1>2, <2>1, OnStackCount, Zenon
<1>7. /\ measure_count' = measure_count + (IF reqs[r].measure THEN 1 ELSE 0)
      /\ ended' = (ended \/ LastMeasured(r))
      /\ gens' = Put(gens, cur)
      /\ rcvd_count' = rcvd_count + 1 /\ recorded' = recorded \cup {r}
      /\ pc' = IF AllReceived THEN "exit" ELSE "send_end"
  BY <1>1, <1>5, Zenon DEF record_sample
<1>8. Touched(cur, gens[cur].ref - 1, gens[cur].ref # 1, gens[cur].rx)
  <2>1. gens[cur].ref >= 1
    BY <1>2, OnStackCount, Zenon
  <2>2. Edited(Put(gens, cur), gens, Len(reqs), cur, gens[cur].ref - 1, gens[cur].ref # 1, gens[cur].rx)
    BY <1>3, <2>1, TableSeqs, EditPut, Zenon
  <2> QED
    BY <1>7, <2>2, Zenon DEF Touched
<1>9. UNCHANGED <<schedvars, sent_count, started, sendvars, timevars, cur, clk, batch,
                  err, reqs, discarded>>
  BY Zenon DEF FakeResponse
<1>10. (pc' = "exit" <=> AllReceived) /\ pc' \in {"exit", "send_end"} /\ pc \in {"send_rx", "io_rx"}
  BY <1>1, <1>7
<1> QED
  BY <1>1, <1>3, <1>4, <1>5, <1>6, <1>7, <1>8, <1>9, <1>10, Zenon DEF Records

-----------------------------------------------------------------------------
(* Sending. *)

(* A request that finds a place: generator g, new or pooled, has it in     *)
(* rx_cbs_, with a reference for it and one for the call.                  *)
Sends(g) ==
  /\ reqs' = Append(reqs,
               [conn |-> g, st |-> "queued",
                measure |-> sent_count \in pre_samples .. pre_samples + cfg.samples - 1])
  /\ gens' \in Seq(GenType(Len(reqs) + 1)) /\ g \in 1 .. Len(gens') /\ gens'[g].live
  /\ \A h \in 1 .. Len(gens) : h # g => gens'[h] = gens[h]
  /\ IF PerRequest
     THEN /\ g = Len(gens) + 1 /\ Len(gens') = Len(gens) + 1 /\ gens'[g].ref = 2
          /\ gens'[g].rx = Append(<< >>, [id |-> Len(reqs) + 1, parsed |-> FALSE])
     ELSE /\ g \in 1 .. Len(gens) /\ Len(gens') = Len(gens) /\ gens'[g].ref = gens[g].ref + 2
          /\ gens'[g].rx = Append(gens[g].rx, [id |-> Len(reqs) + 1, parsed |-> FALSE])
  /\ cur' = g /\ pc' = "send_tx" /\ UNCHANGED err

(* A generator gets a request and a reference for it.                      *)
LEMMA EditSend ==
  ASSUME NEW m \in Nat, NEW s \in Seq(GenType(m)), NEW g \in 1 .. Len(s)
  PROVE  Edited([s EXCEPT ![g].ref = s[g].ref + 1,
                          ![g].rx = Append(s[g].rx, [id |-> m + 1, parsed |-> FALSE])],
                s, m + 1, g, s[g].ref + 1, s[g].live,
                Append(s[g].rx, [id |-> m + 1, parsed |-> FALSE]))
<1> DEFINE T == [id : 1 .. m + 1, parsed : BOOLEAN]
           e == [id |-> m + 1, parsed |-> FALSE]
           k == s[g].ref + 1
           q == Append(s[g].rx, e)
           t == [s EXCEPT ![g].ref = k]
           u == [t EXCEPT ![g].rx = q]
<1>1. m + 1 \in Nat /\ m <= m + 1
  OBVIOUS
<1>2. s \in Seq(GenType(m + 1))
  <2>1. GenType(m) \subseteq GenType(m + 1)
    BY <1>1, TypesMonotone, Zenon
  <2> QED
    BY <2>1, SeqMonotone, Zenon
<1>3. s[g] \in GenType(m + 1)
  BY <1>2, ElementOfSeq, Zenon
<1>4. s[g].ref \in Nat /\ s[g].rx \in Seq(T)
  BY <1>1, <1>3, Fields, Zenon
<1>5. k \in Nat
  BY <1>4
<1>6. e \in T
  OBVIOUS
<1> HIDE DEF T, e
<1>7. q \in Seq(T)
  BY <1>4, <1>6, AppendSeq, Zenon
<1>8. [s EXCEPT ![g].ref = k, ![g].rx = q] = u
  BY Zenon
<1> HIDE DEF k, q
<1>9. Edited(t, s, m + 1, g, k, s[g].live, s[g].rx)
  BY <1>1, <1>2, <1>5, EditRef, Zenon
<1> HIDE DEF t
<1>10. t \in Seq(GenType(m + 1)) /\ g \in 1 .. Len(t) /\ t[g].ref = k /\ t[g].live = s[g].live
  BY <1>9, Zenon DEF Edited
<1>11. Edited(u, t, m + 1, g, k, s[g].live, q)
  <2>1. Edited(u, t, m + 1, g, t[g].ref, t[g].live, q)
    BY <1>1, <1>7, <1>10, EditRx, Zenon DEF T
  <2> QED
    BY <1>10, <2>1, Zenon
<1> HIDE DEF u
<1>12. Edited(u, s, m + 1, g, k, s[g].live, q)
  BY <1>1, <1>2, <1>9, <1>11, EditTwice
<1> QED
  BY <1>8, <1>12, Zenon DEF k, q, e

(* The connections get_connection chooses from.                            *)
LEMMA CandidateFacts ==
  ASSUME IInv, pc = "timer", NEW g \in Candidates
  PROVE  /\ PerRequest => g = Len(gens) + 1
         /\ ~ PerRequest => /\ g \in 1 .. Len(gens) /\ gens[g].live
<1>1. PlainTypes /\ TableTypes
  BY TableSeqs, Zenon
<1>2. cfg.conn_cnt \in Nat /\ cfg.conn_cnt > 0 /\ idx \in Nat
  BY <1>1, CfgTypes, Numbers, Zenon
<1>3. PerRequest => g = Len(gens) + 1
  BY DEF PerRequest, Candidates
<1>4. ASSUME ~ PerRequest PROVE g \in 1 .. Len(gens)
  <2>1. Len(gens) = cfg.conn_cnt
    BY <1>4 DEF IInv, Schedule
  <2>2. g \in 1 .. cfg.conn_cnt
    <3>1. CASE cfg.conn_mode = "ROUND_ROBIN"
      <4>1. g = (idx % cfg.conn_cnt) + 1
        BY <1>4, <3>1 DEF Candidates, PerRequest
      <4> QED
        BY <1>2, <4>1
    <3>2. CASE cfg.conn_mode # "ROUND_ROBIN"
      BY <1>4, <3>2 DEF Candidates, PerRequest
    <3> QED
      BY <3>1, <3>2
  <2> QED
    BY <2>1, <2>2
<1>5. ASSUME ~ PerRequest PROVE gens[g].live
  <2>1. g \in 1 .. Len(gens) /\ g \in DOMAIN gens
    BY <1>4, <1>5, TableSeqs, Zenon
  <2>2. err = "none" /\ cur # g
    <3>1. cur = NoGen
      BY DEF IInv, Stack, OnStack, Sending
    <3>2. NoGen # g
      BY <2>1, TableSeqs DEF NoGen
    <3>3. err = "none"
      BY <1>1 DEF IInv, Schedule, PlainTypes
    <3> QED
      BY <3>1, <3>2, <3>3
  <2>3. gens[g].ref = Cardinality(Outstanding(g)) + (IF cur = g THEN 1 ELSE 0)
                       + (IF cfg.conn_mode = "PER_REQUEST" THEN 0 ELSE 1)
        /\ (gens[g].live <=> gens[g].ref > 0)
    BY <2>1, <2>2, Zenon DEF IInv, RefsAccounted
  <2>4. Cardinality(Outstanding(g)) \in Nat
    BY <1>1, OutstandingFinite, Zenon
  <2>5. gens[g].ref > 0
    BY <1>5, <2>2, <2>3, <2>4 DEF PerRequest
  <2> QED
    BY <2>3, <2>5, Zenon
<1> QED
  BY <1>3, <1>4, <1>5

(* send_request either finds its queue full, takes a reference and fails,  *)
(* or sends.                                                               *)
LEMMA SendEffect ==
  ASSUME IInv, SendRequest
  PROVE  /\ pc = "timer" /\ sent_count < total_samples /\ next_deadline <= clk
         /\ \/ /\ err' = "ENOSPC" /\ pc' = "dead" /\ UNCHANGED <<cur, reqs>>
               /\ \E g \in 1 .. Len(gens) :
                    Touched(g, gens[g].ref + 1, gens[g].live, gens[g].rx)
            \/ \E g \in Nat : Sends(g)
<1> DEFINE r == Len(reqs) + 1
           e == [id |-> r, parsed |-> FALSE]
           Full(gs, g) == Len(gs[g].rx) = MAX_OUTSTANDING_REQS
           Fails(gs) == Throw("ENOSPC") /\ gens' = gs /\ UNCHANGED <<cur, reqs>>
           Does(gs, g) ==
             /\ gens' = [gs EXCEPT ![g].ref = gs[g].ref + 1, ![g].rx = Append(gs[g].rx, e)]
             /\ reqs' = Append(reqs, [conn |-> g, st |-> "queued",
                  measure |-> sent_count \in pre_samples .. pre_samples + cfg.samples - 1])
             /\ cur' = g
             /\ pc' = "send_tx"
             /\ UNCHANGED err
<1>1. pc = "timer" /\ sent_count < total_samples /\ next_deadline <= clk
  BY Zenon DEF SendRequest
<1>2. PICK g \in Candidates : IF Full(get_connection(g), g) THEN Fails(get_connection(g))
                              ELSE Does(get_connection(g), g)
  BY Zenon DEF SendRequest
<1>3. /\ PerRequest => g = Len(gens) + 1
      /\ ~ PerRequest => g \in 1 .. Len(gens) /\ gens[g].live
  BY <1>1, CandidateFacts
<1>4. Len(reqs) \in Nat /\ Len(gens) \in Nat /\ gens \in Seq(GenType(Len(reqs)))
  BY TableSeqs, Zenon
<1>5. CASE PerRequest
  <2> DEFINE gs == Append(gens, NewGen)
  <2>1. get_connection(g) = gs
    BY <1>5 DEF get_connection, PerRequest
  <2>2. NewGen \in GenType(Len(reqs)) /\ NewGen.ref = 1 /\ NewGen.live = TRUE /\ NewGen.rx = << >>
    BY <1>4 DEF NewGen, GenType
  <2>3. /\ gs \in Seq(GenType(Len(reqs))) /\ Len(gs) = Len(gens) + 1 /\ gs[g] = NewGen
        /\ \A h \in 1 .. Len(gens) : gs[h] = gens[h]
    <3>1. /\ gs \in Seq(GenType(Len(reqs))) /\ Len(gs) = Len(gens) + 1
          /\ gs[Len(gens) + 1] = NewGen
          /\ \A h \in 1 .. Len(gens) : gs[h] = gens[h]
      BY <1>4, <2>2, AppendSeq
    <3> QED
      BY <1>3, <1>5, <3>1, Zenon
  <2> HIDE DEF gs
  <2>4. gs[g].ref = 1 /\ gs[g].live = TRUE /\ gs[g].rx = << >> /\ g \in 1 .. Len(gs)
    <3>1. g \in 1 .. Len(gs)
      BY <1>3, <1>4, <1>5, <2>3
    <3> QED
      BY <2>2, <2>3, <3>1, Zenon
  <2>5. ~ Full(gs, g)
    BY <2>4, SizesAssumption
  <2>6. Does(gs, g)
    BY <1>2, <2>1, <2>5, Zenon
  <2>7. Edited(gens', gs, r, g, gs[g].ref + 1, gs[g].live, Append(gs[g].rx, e))
    BY <1>4, <2>3, <2>4, <2>6, EditSend, Zenon
  <2>8. /\ gens' \in Seq(GenType(r)) /\ Len(gens') = Len(gs) /\ gens'[g].ref = gs[g].ref + 1
        /\ gens'[g].live = TRUE /\ gens'[g].rx = Append(<< >>, e)
        /\ \A h \in 1 .. Len(gs) : h # g => gens'[h] = gs[h]
    BY <2>4, <2>7, Zenon DEF Edited
  <2>9. gens'[g].ref = 2 /\ Len(gens') = Len(gens) + 1 /\ g \in 1 .. Len(gens') /\ g \in Nat
    BY <1>3, <1>4, <1>5, <2>3, <2>4, <2>8
  <2>10. \A h \in 1 .. Len(gens) : h # g => gens'[h] = gens[h]
    <3>1. \A h \in 1 .. Len(gens) : h \in 1 .. Len(gs)
      BY <1>4, <2>3
    <3> QED
      BY <2>3, <2>8, <3>1, Zenon
  <2>11. Sends(g)
    BY <1>3, <1>5, <2>6, <2>8, <2>9, <2>10, Zenon DEF Sends
  <2> QED
    BY <1>1, <2>9, <2>11, Zenon
<1>6. CASE ~ PerRequest
  <2> DEFINE gs == [gens EXCEPT ![g].ref = gens[g].ref + 1]
  <2>1. get_connection(g) = gs
    BY <1>6, Zenon DEF get_connection, PerRequest
  <2>2. g \in 1 .. Len(gens) /\ gens[g].live /\ gens[g].ref \in Nat
    BY <1>3, <1>6, TableSeqs, Tables, Zenon
  <2>3. gens[g].ref + 1 \in Nat /\ g \in Nat
    BY <1>4, <2>2
  <2>4. Edited(gs, gens, Len(reqs), g, gens[g].ref + 1, gens[g].live, gens[g].rx)
    BY <1>4, <2>2, <2>3, EditRef, Zenon
  <2>5. CASE Full(gs, g)
    <3>1. Fails(gs)
      BY <1>2, <2>1, <2>5, Zenon
    <3>2. Touched(g, gens[g].ref + 1, gens[g].live, gens[g].rx)
      BY <2>4, <3>1, Zenon DEF Touched
    <3> QED
      BY <1>1, <2>2, <3>1, <3>2, Zenon DEF Throw
  <2>6. CASE ~ Full(gs, g)
    <3>1. Does(gs, g)
      BY <1>2, <2>1, <2>6, Zenon
    <3> HIDE DEF gs
    <3>2. gs \in Seq(GenType(Len(reqs))) /\ g \in 1 .. Len(gs) /\ Len(gs) = Len(gens)
          /\ gs[g].ref = gens[g].ref + 1 /\ gs[g].live = gens[g].live /\ gs[g].rx = gens[g].rx
          /\ \A h \in 1 .. Len(gens) : h # g => gs[h] = gens[h]
      BY <2>2, <2>4, Zenon DEF Edited
    <3>3. Edited(gens', gs, r, g, gs[g].ref + 1, gs[g].live, Append(gs[g].rx, e))
      BY <1>4, <3>1, <3>2, EditSend, Zenon
    <3>4. /\ gens' \in Seq(GenType(r)) /\ Len(gens') = Len(gens) /\ gens'[g].ref = gs[g].ref + 1
          /\ gens'[g].live /\ gens'[g].rx = Append(gens[g].rx, e)
          /\ \A h \in 1 .. Len(gens) : h # g => gens'[h] = gens[h]
      BY <2>2, <3>2, <3>3, Zenon DEF Edited
    <3>5. gens'[g].ref = gens[g].ref + 2
      BY <2>2, <3>2, <3>4
    <3>6. Sends(g)
      BY <1>6, <2>2, <3>1, <3>4, <3>5, Zenon DEF Sends
    <3> QED
      BY <1>1, <2>3, <3>6, Zenon
  <2> QED
    BY <2>5, <2>6
<1> QED
  BY <1>5, <1>6

-----------------------------------------------------------------------------
(* The steps. *)

(* Request r gets the state x; nothing else about the requests changes.    *)
Restated(r, x) ==
  /\ reqs' \in Seq(ReqType(Len(gens))) /\ Len(reqs') = Len(reqs)
  /\ reqs'[r].st = x
  /\ \A q \in 1 .. Len(reqs) :
       /\ reqs'[q].conn = reqs[q].conn /\ reqs'[q].measure = reqs[q].measure
       /\ q # r => reqs'[q].st = reqs[q].st

(* Changing the state of a request.                                        *)
LEMMA EditSt ==
  ASSUME IInv, NEW r \in 1 .. Len(reqs), NEW x \in {"queued", "wire", "header", "whole"},
         reqs' = [reqs EXCEPT ![r].st = x]
  PROVE  Restated(r, x)
<1> DEFINE e == [conn |-> reqs[r].conn, measure |-> reqs[r].measure, st |-> x]
           t == [reqs EXCEPT ![r] = e]
<1>1. reqs \in Seq(ReqType(Len(gens))) /\ reqs[r] \in ReqType(Len(gens))
  BY TableSeqs, Tables, Zenon
<1>2. ASSUME NEW n, NEW q \in ReqType(n)
      PROVE  [q EXCEPT !.st = x] = [conn |-> q.conn, measure |-> q.measure, st |-> x]
  BY DEF ReqType
<1>3. reqs' = t
  <2>1. reqs' = [reqs EXCEPT ![r] = [reqs[r] EXCEPT !.st = x]]
    BY Zenon
  <2>2. [reqs[r] EXCEPT !.st = x] = e
    BY <1>1, <1>2, Zenon
  <2> QED
    BY <2>1, <2>2, Zenon
<1>4. e \in ReqType(Len(gens)) /\ e.st = x /\ e.conn = reqs[r].conn /\ e.measure = reqs[r].measure
  <2>1. reqs[r].conn \in 1 .. Len(gens) /\ reqs[r].measure \in BOOLEAN
    BY <1>1, Zenon DEF ReqType
  <2> QED
    BY <2>1 DEF ReqType
<1> HIDE DEF e
<1>5. /\ t \in Seq(ReqType(Len(gens))) /\ Len(t) = Len(reqs) /\ t[r] = e
      /\ \A q \in 1 .. Len(reqs) : q # r => t[q] = reqs[q]
  BY <1>1, <1>4, ReplaceSeq
<1> HIDE DEF t
<1> QED
  BY <1>3, <1>4, <1>5, Zenon DEF Restated

(* A request is written to the kernel or answered.                         *)
LEMMA StEffect ==
  ASSUME IInv, Transmit \/ \E r \in DOMAIN reqs : Answer(r)
  PROVE  \E r \in 1 .. Len(reqs), x \in {"wire", "header", "whole"} :
           /\ Restated(r, x)
           /\ reqs[r].st \in {"header", "whole"} => x \in {"header", "whole"}
           /\ cfg.send_only => x = "wire"
           /\ x = "header" => cfg.protocol = "MEMCACHE"
<1>1. CASE Transmit
  <2>1. PICK r \in Queued(cur) : reqs' = [reqs EXCEPT ![r].st = "wire"]
    BY <1>1, Zenon DEF Transmit
  <2>2. r \in 1 .. Len(reqs) /\ reqs[r].st = "queued"
    BY <2>1, TableSeqs, Zenon DEF Queued
  <2>3. "wire" \in {"queued", "wire", "header", "whole"} /\ "wire" \in {"wire", "header", "whole"}
    OBVIOUS
  <2>4. Restated(r, "wire")
    BY <2>1, <2>2, <2>3, EditSt, Zenon
  <2>5. ~ (reqs[r].st \in {"header", "whole"}) /\ "wire" # "header"
    BY <2>2
  <2> QED
    BY <2>2, <2>3, <2>4, <2>5, Zenon
<1>2. CASE \E r \in DOMAIN reqs : Answer(r)
  <2>1. PICK r \in DOMAIN reqs : Answer(r)
    BY <1>2, Zenon
  <2>2. PICK x \in {"whole"} \cup
                (IF cfg.protocol = "MEMCACHE" /\ reqs[r].st = "wire" THEN {"header"} ELSE {}) :
           reqs' = [reqs EXCEPT ![r].st = x]
    BY <2>1, Zenon DEF Answer
  <2>3. r \in 1 .. Len(reqs) /\ ~ cfg.send_only
    BY <2>1, TableSeqs, Zenon DEF Answer
  <2>4. x \in {"header", "whole"} /\ (x = "header" => cfg.protocol = "MEMCACHE")
    BY <2>2
  <2>5. x \in {"queued", "wire", "header", "whole"} /\ x \in {"wire", "header", "whole"}
    BY <2>4
  <2>6. Restated(r, x)
    BY <2>2, <2>3, <2>5, EditSt, Zenon
  <2> QED
    BY <2>3, <2>4, <2>5, <2>6, Zenon
<1> QED
  BY <1>1, <1>2

(* Steps that change neither table.                                        *)
Quiet ==
  \/ SetupDeadlines \/ EpollWait \/ TimerEvent \/ BatchDone \/ ReadClock \/ TimerArm
  \/ BusyDone \/ TryTxDone \/ Tick \/ TimerExpire \/ UNCHANGED vars

Flag    == RxDone \/ \E g \in DOMAIN gens : Connected(g)
State   == Transmit \/ \E r \in DOMAIN reqs : Answer(r)
Release == IoEnd \/ SendEnd
Sample  == RecvResponse \/ FakeResponse

(* What a step can be.                                                     *)
LEMMA NextCases ==
  ASSUME [Next]_vars
  PROVE  \/ SetupConnections \/ Quiet \/ (\E g \in DOMAIN gens : RunIo(g)) \/ Flag
         \/ State \/ Release \/ Sample \/ RecvBody \/ SendRequest
BY Zenon DEF Next, Thread, Env, Quiet, Flag, State, Release, Sample

(* What those steps leave alone.                                           *)
LEMMA QuietFrame ==
  ASSUME Quiet
  PROVE  UNCHANGED <<cfg, sent_count, rcvd_count, measure_count, recorded, started, ended,
                     gens, cur, err, reqs, discarded>>
<1>1. CASE SetupDeadlines
  BY <1>1 DEF SetupDeadlines, Draw, countvars
<1>2. CASE EpollWait \/ TimerEvent \/ BatchDone
  BY <1>2 DEF EpollWait, TimerEvent, BatchDone, basevars, schedvars, countvars
<1>3. CASE ReadClock \/ TimerArm \/ BusyDone \/ TryTxDone
  BY <1>3 DEF ReadClock, TimerArm, BusyDone, TryTxDone, basevars, schedvars, countvars
<1>4. CASE Tick \/ TimerExpire \/ UNCHANGED vars
  BY <1>4 DEF Tick, TimerExpire, vars, schedvars, countvars
<1> QED
  BY <1>1, <1>2, <1>3, <1>4 DEF Quiet

(* What steps on the tables leave alone.                                   *)
LEMMA TableFrame ==
  ASSUME Flag \/ State \/ RecvBody \/ \E g \in DOMAIN gens : RunIo(g)
  PROVE  UNCHANGED <<schedvars, countvars, sendvars, timevars, clk, err, discarded>>
<1>1. CASE Flag
  BY <1>1 DEF Flag, RxDone, Connected, basevars
<1>2. CASE State
  BY <1>2 DEF State, Transmit, Answer, basevars
<1>3. CASE RecvBody \/ \E g \in DOMAIN gens : RunIo(g)
  BY <1>3 DEF RecvBody, RunIo, basevars
<1> QED
  BY <1>1, <1>2, <1>3

(* What steps that set a flag or drop a body leave alone.                  *)
LEMMA FlagFrame ==
  ASSUME Flag \/ RecvBody
  PROVE  /\ UNCHANGED <<cur, batch, reqs>>
         /\ pc' = pc \/ (pc = "io_rx" /\ pc' = "io_tx")
BY DEF Flag, RxDone, Connected, RecvBody

(* What a change of the state of a request leaves alone.                   *)
LEMMA StateFrame ==
  ASSUME State
  PROVE  UNCHANGED <<gens, pc, cur, batch>>
BY DEF State, Transmit, Answer

(* Where run_io starts and what it leaves alone.                           *)
LEMMA IoFrame ==
  ASSUME NEW g \in DOMAIN gens, RunIo(g)
  PROVE  /\ pc = "batch" /\ pc' = "io_rx" /\ batch' = batch \ {g} /\ cur' = g /\ UNCHANGED reqs
BY DEF RunIo

(* The ends of run_io and of send_request.                                 *)
LEMMA ReleaseFrame ==
  ASSUME IInv, Release
  PROVE  /\ pc \in OnStack /\ UNCHANGED <<schedvars, rcvd_count, measure_count, recorded, started,
                      ended, sendvars, timevars, clk, batch, reqs>>
         /\ pc \in {"io_rx", "io_tx"} => PutCur("batch") /\ UNCHANGED sent_count
         /\ pc \notin {"io_rx", "io_tx"} => PutCur(AfterSend) /\ sent_count' = sent_count + 1 /\ pc \in Sending
<1>1. CASE IoEnd
  BY <1>1 DEF IoEnd, OnStack, basevars, countvars
<1>2. CASE SendEnd
  <2>1. pc \in {"send_end", "send_rx"}
    BY <1>2 DEF SendEnd
  <2>2. pc \in OnStack /\ pc \notin {"io_rx", "io_tx"} /\ pc \in Sending
    BY <2>1 DEF OnStack, Sending
  <2> QED
    BY <1>2, <2>2, Zenon DEF SendEnd
<1> QED
  BY <1>1, <1>2 DEF Release

-----------------------------------------------------------------------------
(* References. *)

(* What RefsAccounted says of one generator.                               *)
Accounted(g) ==
  /\ gens[g].ref = Cardinality(Outstanding(g)) + (IF cur = g THEN 1 ELSE 0) + Extra
  /\ gens[g].live <=> gens[g].ref > 0

(* RefsAccounted, one generator at a time.                                 *)
LEMMA AccountedFacts ==
  ASSUME IInv, err = "none", NEW g \in 1 .. Len(gens)
  PROVE  /\ Accounted(g) /\ gens[g].ref \in Nat /\ gens[g].live \in BOOLEAN
         /\ Cardinality(Outstanding(g)) \in Nat /\ Extra \in {0, 1}
<1>1. g \in DOMAIN gens /\ TableTypes
  BY TableSeqs, Zenon
<1>2. Accounted(g)
  BY <1>1, Zenon DEF IInv, RefsAccounted, Accounted, Extra, PerRequest
<1>3. gens[g].ref \in Nat /\ gens[g].live \in BOOLEAN
  BY <1>1, Tables, Zenon
<1>4. Cardinality(Outstanding(g)) \in Nat
  BY <1>1, OutstandingFinite, Zenon
<1> QED
  BY <1>2, <1>3, <1>4 DEF Extra

(* A step keeps the account of a generator whose record and requests it    *)
(* leaves alone.                                                           *)
LEMMA AccountedSame ==
  ASSUME IInv, err = "none", NEW g \in 1 .. Len(gens), cfg' = cfg,
         gens'[g].ref = gens[g].ref, gens'[g].live = gens[g].live,
         Outstanding(g)' = Outstanding(g), (cur' = g) <=> (cur = g)
  PROVE  Accounted(g)'
<1>1. Accounted(g)
  BY AccountedFacts, Zenon
<1> QED
  BY <1>1, Zenon DEF Accounted, Extra, PerRequest

(* Once a generator has no sample of a request more than it had.           *)
LEMMA OutstandingSame ==
  ASSUME NEW g, UNCHANGED recorded, DOMAIN reqs' = DOMAIN reqs,
         \A q \in DOMAIN reqs : reqs'[q].conn = reqs[q].conn
  PROVE  Outstanding(g)' = Outstanding(g)
BY Zenon DEF Outstanding

(* A sample takes one request from the generator on the stack.             *)
LEMMA SampleRefs ==
  ASSUME IInv, NEW r, NEW q, Records(r, q), NEW g \in 1 .. Len(gens)
  PROVE  Accounted(g)'
<1>1. /\ r \in 1 .. Len(reqs) /\ r \notin recorded /\ reqs[r].conn = cur
      /\ cur \in 1 .. Len(gens) /\ gens[cur].ref >= 2
      /\ recorded' = recorded \cup {r} /\ UNCHANGED <<cur, reqs>> /\ pc \in OnStack
  BY DEF Records, OnStack, Sending
<1>2. cfg' = cfg
  BY DEF Records, schedvars
<1>3. err = "none"
  BY <1>1, OnStackCount, Zenon
<1>4. /\ gens'[cur].ref = gens[cur].ref - 1 /\ gens'[cur].live = (gens[cur].ref # 1)
      /\ \A h \in 1 .. Len(gens) : h # cur => gens'[h] = gens[h]
  BY Zenon DEF Records, Touched, Edited
<1>5. CASE g # cur
  <2>1. Outstanding(g)' = Outstanding(g)
    BY <1>1, <1>5, Zenon DEF Outstanding
  <2> QED
    BY <1>1, <1>2, <1>3, <1>4, <1>5, <2>1, AccountedSame, Zenon
<1>6. CASE g = cur
  <2>1. Outstanding(cur)' = Outstanding(cur) \ {r} /\ r \in Outstanding(cur)
    BY <1>1, TableSeqs, Zenon DEF Outstanding
  <2>2. IsFiniteSet(Outstanding(cur))
    BY TableSeqs, OutstandingFinite, Zenon
  <2>3. Cardinality(Outstanding(cur) \ {r}) = Cardinality(Outstanding(cur)) - 1
    BY <2>1, <2>2, FS_RemoveElement, Zenon
  <2>4. /\ gens[cur].ref = Cardinality(Outstanding(cur)) + 1 + Extra
        /\ Cardinality(Outstanding(cur)) \in Nat /\ gens[cur].ref \in Nat /\ Extra \in {0, 1}
    BY <1>1, OnStackCount, Zenon
  <2>5. gens'[cur].ref = Cardinality(Outstanding(cur) \ {r}) + 1 + Extra
    BY <1>4, <2>3, <2>4
  <2>6. gens'[cur].live /\ gens'[cur].ref > 0
    <3>1. gens[cur].ref # 1 /\ gens[cur].ref - 1 > 0
      BY <1>1, <2>4
    <3> QED
      BY <1>4, <3>1, Zenon
  <2>7. Extra' = Extra
    BY <1>2 DEF Extra, PerRequest
  <2> QED
    BY <1>1, <1>6, <2>1, <2>5, <2>6, <2>7, Zenon DEF Accounted
<1> QED
  BY <1>5, <1>6

(* The call on the stack gives its reference back.                         *)
LEMMA ReleaseRefs ==
  ASSUME IInv, Release, NEW g \in 1 .. Len(gens)
  PROVE  Accounted(g)'
<1>1. pc \in OnStack /\ UNCHANGED <<recorded, reqs>> /\ cfg' = cfg
  BY ReleaseFrame DEF schedvars
<1>2. Touched(cur, gens[cur].ref - 1, gens[cur].ref # 1, gens[cur].rx) /\ cur' = NoGen
  BY ReleaseFrame, PutEffect, Zenon
<1>3. /\ gens'[cur].ref = gens[cur].ref - 1 /\ gens'[cur].live = (gens[cur].ref # 1)
      /\ \A h \in 1 .. Len(gens) : h # cur => gens'[h] = gens[h]
  BY <1>2, Zenon DEF Touched, Edited
<1>4. Outstanding(g)' = Outstanding(g)
  BY <1>1, Zenon DEF Outstanding
<1>5. g # NoGen
  BY TableSeqs DEF NoGen
<1>6. err = "none" /\ cur \in 1 .. Len(gens)
  BY <1>1, OnStackCount, Zenon
<1>7. CASE g # cur
  BY <1>1, <1>2, <1>3, <1>4, <1>5, <1>6, <1>7, AccountedSame, Zenon
<1>8. CASE g = cur
  <2>1. /\ gens[cur].ref = Cardinality(Outstanding(cur)) + 1 + Extra
        /\ Cardinality(Outstanding(cur)) \in Nat /\ gens[cur].ref \in Nat /\ Extra \in {0, 1}
        /\ gens[cur].ref >= 1
    BY <1>1, OnStackCount, Zenon
  <2>2. gens'[cur].ref = Cardinality(Outstanding(cur)) + 0 + Extra
        /\ (gens'[cur].live <=> gens'[cur].ref > 0)
    <3>1. gens[cur].ref - 1 = Cardinality(Outstanding(cur)) + 0 + Extra
          /\ (gens[cur].ref # 1 <=> gens[cur].ref - 1 > 0)
      BY <2>1
    <3> QED
      BY <1>3, <3>1, Zenon
  <2>3. Extra' = Extra
    BY <1>1 DEF Extra, PerRequest
  <2> QED
    BY <1>2, <1>4, <1>5, <1>8, <2>2, <2>3, Zenon DEF Accounted
<1> QED
  BY <1>7, <1>8

(* run_io holds a reference.                                               *)
LEMMA RunIoRefs ==
  ASSUME IInv, NEW h \in DOMAIN gens, RunIo(h), NEW g \in 1 .. Len(gens)
  PROVE  Accounted(g)'
<1>1. /\ h \in 1 .. Len(gens) /\ gens[h].live /\ cur = NoGen
      /\ Touched(h, gens[h].ref + 1, gens[h].live, gens[h].rx)
  BY RunIoEffect, Zenon
<1>2. /\ gens'[h].ref = gens[h].ref + 1 /\ gens'[h].live = gens[h].live
      /\ \A k \in 1 .. Len(gens) : k # h => gens'[k] = gens[k]
  BY <1>1, Zenon DEF Touched, Edited
<1>3. cur' = h /\ UNCHANGED reqs /\ pc = "batch"
  BY IoFrame, Zenon
<1>4. UNCHANGED recorded /\ cfg' = cfg
  BY TableFrame DEF countvars, schedvars
<1>5. err = "none"
  BY <1>3, TableSeqs DEF IInv, Schedule, PlainTypes
<1>6. Outstanding(g)' = Outstanding(g)
  BY <1>3, <1>4, Zenon DEF Outstanding
<1>7. g # NoGen
  BY TableSeqs DEF NoGen
<1>8. CASE g # h
  BY <1>1, <1>2, <1>3, <1>4, <1>5, <1>6, <1>7, <1>8, AccountedSame, Zenon
<1>9. CASE g = h
  <2>1. /\ gens[g].ref = Cardinality(Outstanding(g)) + (IF cur = g THEN 1 ELSE 0) + Extra
        /\ gens[g].ref \in Nat /\ Cardinality(Outstanding(g)) \in Nat /\ Extra \in {0, 1}
    BY <1>5, AccountedFacts, Zenon DEF Accounted
  <2>2. gens'[g].ref = Cardinality(Outstanding(g)) + 1 + Extra /\ gens'[g].ref > 0
    BY <1>1, <1>2, <1>7, <1>9, <2>1
  <2>3. Extra' = Extra
    BY <1>4 DEF Extra, PerRequest
  <2> QED
    BY <1>1, <1>2, <1>3, <1>6, <1>9, <2>2, <2>3, Zenon DEF Accounted
<1> QED
  BY <1>8, <1>9

(* send_request holds one reference for the call and one for the request.  *)
LEMMA SendRefs ==
  ASSUME IInv, SendRequest, err' = "none", NEW g \in 1 .. Len(gens')
  PROVE  Accounted(g)'
<1>1. PICK h \in Nat : Sends(h)
  BY SendEffect
<1>2. pc = "timer" /\ UNCHANGED recorded /\ cfg' = cfg
  BY DEF SendRequest, schedvars
<1>3. err = "none" /\ cur = NoGen
  BY <1>2, TableSeqs DEF IInv, Schedule, PlainTypes, Stack, OnStack, Sending
<1>4. /\ h \in 1 .. Len(gens') /\ gens'[h].live /\ cur' = h
      /\ \A k \in 1 .. Len(gens) : k # h => gens'[k] = gens[k]
  BY <1>1, Zenon DEF Sends
<1> DEFINE r == Len(reqs) + 1
           q == [conn |-> h, st |-> "queued",
                 measure |-> sent_count \in pre_samples .. pre_samples + cfg.samples - 1]
<1>5. q.conn = h
  OBVIOUS
<1>6. reqs' = Append(reqs, q)
  BY <1>1, Zenon DEF Sends
<1> HIDE DEF q
<1>7. /\ DOMAIN reqs' = 1 .. Len(reqs) + 1 /\ reqs'[r].conn = h
      /\ \A i \in 1 .. Len(reqs) : reqs'[i] = reqs[i]
  <2>1. reqs \in Seq(ReqType(Len(gens)))
    BY TableSeqs, Zenon
  <2> QED
    BY <1>5, <1>6, <2>1
<1>8. Len(reqs) \in Nat /\ Len(gens) \in Nat /\ DOMAIN reqs = 1 .. Len(reqs)
  BY TableSeqs, Zenon
<1>9. recorded \subseteq DOMAIN reqs /\ r \notin recorded /\ TableTypes
  BY <1>8, TableSeqs DEF TableTypes
<1>10. 1 .. Len(reqs) + 1 = (1 .. Len(reqs)) \cup {r} /\ r \notin 1 .. Len(reqs)
  BY <1>8
<1>11. ASSUME NEW k PROVE Outstanding(k)' = IF k = h THEN Outstanding(k) \cup {r} ELSE Outstanding(k)
  BY <1>2, <1>7, <1>8, <1>9, <1>10, Zenon DEF Outstanding
<1>12. CASE g # h
  <2>1. g \in 1 .. Len(gens)
    BY <1>1, <1>8, <1>12 DEF Sends
  <2>2. g # NoGen
    BY <1>8, <2>1 DEF NoGen
  <2> QED
    BY <1>2, <1>3, <1>4, <1>11, <1>12, <2>1, <2>2, AccountedSame, Zenon
<1>13. CASE g = h
  <2>1. IsFiniteSet(Outstanding(g)) /\ r \notin Outstanding(g) /\ Cardinality(Outstanding(g)) \in Nat
    BY <1>8, <1>9, <1>10, OutstandingFinite, Zenon DEF Outstanding
  <2>2. Cardinality(Outstanding(g) \cup {r}) = Cardinality(Outstanding(g)) + 1
    BY <2>1, FS_AddElement, Zenon
  <2>3. Extra' = Extra
    BY <1>2 DEF Extra, PerRequest
  <2>4. gens'[g].ref = Cardinality(Outstanding(g)) + 1 + 1 + Extra
    <3>1. CASE PerRequest
      <4>1. gens'[g].ref = 2 /\ g = Len(gens) + 1 /\ Extra = 0
        BY <1>1, <1>13, <3>1 DEF Sends, Extra
      <4>2. g \notin 1 .. Len(gens)
        BY <1>8, <4>1
      <4>3. Outstanding(g) = {}
        BY <1>8, <1>9, <4>2, Tables, Zenon DEF Outstanding
      <4>4. Cardinality(Outstanding(g)) = 0
        BY <1>9, <4>3, OutstandingFinite, Zenon
      <4> QED
        BY <4>1, <4>4
    <3>2. CASE ~ PerRequest
      <4>1. gens'[g].ref = gens[g].ref + 2 /\ g \in 1 .. Len(gens) /\ Extra = 1
        BY <1>1, <1>13, <3>2 DEF Sends, Extra
      <4>2. gens[g].ref = Cardinality(Outstanding(g)) + (IF cur = g THEN 1 ELSE 0) + Extra
            /\ gens[g].ref \in Nat
        BY <1>3, <4>1, AccountedFacts, Zenon DEF Accounted
      <4>3. g # NoGen
        BY <1>8, <4>1 DEF NoGen
      <4> QED
        BY <1>3, <2>1, <4>1, <4>2, <4>3
    <3> QED
      BY <3>1, <3>2
  <2>5. Extra \in {0, 1}
    BY DEF Extra
  <2>6. gens'[g].ref = Cardinality(Outstanding(g) \cup {r}) + 1 + Extra /\ gens'[g].ref > 0
    BY <2>1, <2>2, <2>4, <2>5
  <2> QED
    BY <1>4, <1>11, <1>13, <2>3, <2>6, Zenon DEF Accounted
<1> QED
  BY <1>12, <1>13

(* Every step keeps the count of every generator.                          *)
LEMMA RefsPreserved ==
  ASSUME IInv, [Next]_vars
  PROVE  RefsAccounted'
<1>1. ASSUME err' = "none", \A g \in 1 .. Len(gens') : Accounted(g)', DOMAIN gens' = 1 .. Len(gens')
      PROVE  RefsAccounted'
  BY <1>1, Zenon DEF RefsAccounted, Accounted, Extra, PerRequest
<1>2. CASE err' # "none"
  BY <1>2 DEF RefsAccounted
<1>3. CASE err' = "none"
  <2>0. /\ DOMAIN gens = 1 .. Len(gens) /\ DOMAIN reqs = 1 .. Len(reqs)
        /\ Len(gens) \in Nat /\ Len(reqs) \in Nat /\ TableTypes
    BY TableSeqs, Zenon
  <2>1. CASE Quiet
    BY <2>1, QuietFrame DEF IInv, RefsAccounted, Outstanding
  <2>2. CASE SetupConnections
    <3>1. /\ pc = "connections" /\ UNCHANGED <<cur, reqs, recorded>> /\ cfg' = cfg
          /\ gens' = IF PerRequest THEN << >> ELSE [i \in 1 .. cfg.conn_cnt |-> NewGen]
      BY <2>2 DEF SetupConnections, basevars, schedvars, countvars, PerRequest
    <3>2. reqs = << >> /\ cur = NoGen
      BY <3>1 DEF IInv, Schedule, Setup
    <3>3. CASE PerRequest
      BY <1>1, <1>3, <3>1, <3>3
    <3>4. CASE ~ PerRequest
      <4>1. cfg.conn_cnt \in Nat
        BY CfgTypes, TableSeqs, Zenon
      <4>2. Len(gens') = cfg.conn_cnt /\ DOMAIN gens' = 1 .. Len(gens')
        BY <3>1, <3>4, <4>1
      <4>3. ASSUME NEW g \in 1 .. Len(gens') PROVE Accounted(g)'
        <5>1. gens'[g] = NewGen
          BY <3>1, <3>4, <4>2
        <5>2. gens'[g].ref = 1 /\ gens'[g].live = TRUE
          BY <5>1 DEF NewGen
        <5>3. Outstanding(g) = {} /\ Outstanding(g)' = Outstanding(g)
          <6>1. Outstanding(g) = {}
            BY <3>2 DEF Outstanding
          <6> QED
            BY <3>1, <6>1, Zenon DEF Outstanding
        <5>4. Cardinality(Outstanding(g)) = 0
          BY <2>0, <5>3, OutstandingFinite, Zenon
        <5>5. g # NoGen
          BY <4>1, <4>2 DEF NoGen
        <5>6. Extra' = 1 /\ cur' # g
          BY <3>1, <3>2, <3>4, <5>5 DEF Extra, PerRequest
        <5>7. gens'[g].ref = Cardinality(Outstanding(g)) + 0 + 1 /\ gens'[g].ref > 0
          BY <5>2, <5>4
        <5> QED
          BY <5>2, <5>3, <5>6, <5>7, Zenon DEF Accounted
      <4> QED
        BY <1>1, <1>3, <4>2, <4>3, Zenon
    <3> QED
      BY <3>3, <3>4
  <2>3. CASE \E g \in DOMAIN gens : RunIo(g)
    <3>1. PICK h \in DOMAIN gens : RunIo(h)
      BY <2>3, Zenon
    <3>2. Len(gens') = Len(gens) /\ gens' \in Seq(GenType(Len(reqs)))
      BY <3>1, RunIoEffect, Zenon DEF Touched, Edited
    <3>3. DOMAIN gens' = 1 .. Len(gens')
      BY <3>2, LenProperties, Zenon
    <3> QED
      BY <1>1, <1>3, <3>1, <3>2, <3>3, RunIoRefs, Zenon
  <2>4. CASE Flag \/ RecvBody
    <3>1. PICK h, q : h \in 1 .. Len(gens) /\ Touched(h, gens[h].ref, gens[h].live, q)
      BY <2>4, FlagEffect, BodyEffect, Zenon DEF Flag
    <3>2. /\ Len(gens') = Len(gens) /\ gens' \in Seq(GenType(Len(reqs)))
          /\ \A g \in 1 .. Len(gens) :
               gens'[g].ref = gens[g].ref /\ gens'[g].live = gens[g].live
      BY <3>1, Zenon DEF Touched, Edited
    <3>3. DOMAIN gens' = 1 .. Len(gens')
      BY <3>2, LenProperties, Zenon
    <3>4. UNCHANGED <<cur, reqs, recorded>> /\ cfg' = cfg /\ err' = err
      BY <2>4, FlagFrame, TableFrame DEF countvars, schedvars
    <3>5. \A g : Outstanding(g)' = Outstanding(g)
      BY <3>4, Zenon DEF Outstanding
    <3> QED
      BY <1>1, <1>3, <3>2, <3>3, <3>4, <3>5, AccountedSame, Zenon
  <2>5. CASE State
    <3>1. UNCHANGED <<gens, cur, recorded>> /\ cfg' = cfg /\ err' = err
      BY <2>5, StateFrame, TableFrame DEF countvars, schedvars
    <3>2. PICK r, x : Restated(r, x)
      BY <2>5, StEffect, Zenon DEF State
    <3>3. /\ reqs' \in Seq(ReqType(Len(gens))) /\ Len(reqs') = Len(reqs)
          /\ \A q \in 1 .. Len(reqs) : reqs'[q].conn = reqs[q].conn
      BY <3>2, Zenon DEF Restated
    <3>4. DOMAIN reqs' = DOMAIN reqs
      BY <2>0, <3>3, LenProperties, Zenon
    <3>5. \A g : Outstanding(g)' = Outstanding(g)
      BY <2>0, <3>1, <3>3, <3>4, OutstandingSame, Zenon
    <3> QED
      BY <1>1, <1>3, <2>0, <3>1, <3>5, AccountedSame, Zenon
  <2>6. CASE Release
    <3>1. Len(gens') = Len(gens) /\ gens' \in Seq(GenType(Len(reqs)))
      BY <2>6, ReleaseFrame, PutEffect, Zenon DEF Touched, Edited
    <3>2. DOMAIN gens' = 1 .. Len(gens')
      BY <3>1, LenProperties, Zenon
    <3> QED
      BY <1>1, <1>3, <2>6, <3>1, <3>2, ReleaseRefs, Zenon
  <2>7. CASE Sample
    <3>1. PICK r, q : Records(r, q)
      BY <2>7, RecvEffect, FakeEffect, Zenon DEF Sample
    <3>2. Len(gens') = Len(gens) /\ gens' \in Seq(GenType(Len(reqs)))
      BY <3>1, Zenon DEF Records, Touched, Edited
    <3>3. DOMAIN gens' = 1 .. Len(gens')
      BY <3>2, LenProperties, Zenon
    <3> QED
      BY <1>1, <1>3, <3>1, <3>2, <3>3, SampleRefs, Zenon
  <2>8. CASE SendRequest
    <3>1. PICK h \in Nat : Sends(h)
      BY <1>3, <2>8, SendEffect
    <3>2. gens' \in Seq(GenType(Len(reqs) + 1))
      BY <3>1, Zenon DEF Sends
    <3>3. DOMAIN gens' = 1 .. Len(gens')
      BY <3>2, LenProperties, Zenon
    <3> QED
      BY <1>1, <1>3, <2>8, <3>3, SendRefs, Zenon
  <2> QED
    BY <2>1, <2>2, <2>3, <2>4, <2>5, <2>6, <2>7, <2>8, NextCases, Zenon
<1> QED
  BY <1>2, <1>3

-----------------------------------------------------------------------------
(* The schedule. *)

(* The last deadline drawn is a number.                                    *)
LEMMA AccumNat ==
  ASSUME PlainTypes
  PROVE  accum \in Nat
<1>1. deadlines \in Seq(Nat)
  BY DEF PlainTypes
<1>2. CASE deadlines = << >>
  BY <1>2 DEF accum
<1>3. CASE deadlines # << >>
  <2>1. Len(deadlines) \in 1 .. Len(deadlines)
    BY <1>1, <1>3
  <2>2. deadlines[Len(deadlines)] \in Nat
    BY <1>1, <2>1, ElementOfSeq, Zenon
  <2> QED
    BY <1>3, <2>2 DEF accum
<1> QED
  BY <1>2, <1>3

(* A turn of one of the three loops draws a deadline no earlier than the   *)
(* last, or goes on to the next loop.                                      *)
LEMMA DrawEffect ==
  ASSUME IInv, SetupDeadlines
  PROVE  /\ deadlines' \in Seq(Nat) /\ Len(deadlines) <= Len(deadlines') /\ Len(deadlines') \in Nat
         /\ \A i \in 1 .. Len(deadlines') - 1 : deadlines'[i] <= deadlines'[i + 1]
         /\ pc \in {"warmup", "measured", "cooldown"}
         /\ \/ pc' = pc
            \/ /\ UNCHANGED deadlines
               /\ \/ pc = "warmup" /\ pc' = "measured"
                  \/ pc = "measured" /\ pc' = "cooldown" /\ pre_samples + cfg.samples <= Len(deadlines)
                  \/ pc = "cooldown" /\ pc' = IF cfg.use_busy_timer THEN "wait" ELSE "clock"
         /\ pre_samples' = IF pc = "warmup" THEN Len(deadlines') ELSE pre_samples
<1>1. PlainTypes /\ deadlines \in Seq(Nat) /\ Len(deadlines) \in Nat /\ pre_samples \in Nat
      /\ cfg.samples \in Nat
  <2>1. PlainTypes
    BY TableSeqs, Zenon
  <2> QED
    BY <2>1, Numbers, CfgTypes, Zenon DEF PlainTypes
<1>2. accum \in Nat /\ \A i \in 1 .. Len(deadlines) - 1 : deadlines[i] <= deadlines[i + 1]
  BY <1>1, AccumNat DEF IInv, Schedule
<1>3. pc \in {"warmup", "measured", "cooldown"}
      /\ pre_samples' = IF pc = "warmup" THEN Len(deadlines') ELSE pre_samples
  BY DEF SetupDeadlines, Draw
<1>4. CASE \E g \in Gaps : deadlines' = Append(deadlines, accum + g) /\ pc' = pc
  <2>1. PICK g \in Gaps : deadlines' = Append(deadlines, accum + g) /\ pc' = pc
    BY <1>4, Zenon
  <2> DEFINE e == accum + g
  <2>2. e \in Nat /\ accum <= e
    BY <1>2, SizesAssumption
  <2> HIDE DEF e
  <2>3. /\ deadlines' \in Seq(Nat) /\ Len(deadlines') = Len(deadlines) + 1
        /\ \A i \in 1 .. Len(deadlines) : deadlines'[i] = deadlines[i]
        /\ deadlines'[Len(deadlines) + 1] = e
    BY <1>1, <2>1, <2>2, AppendSeq DEF e
  <2>4. ASSUME NEW i \in 1 .. Len(deadlines') - 1
        PROVE  deadlines'[i] <= deadlines'[i + 1]
    <3>1. i \in 1 .. Len(deadlines)
      BY <1>1, <2>3
    <3>2. CASE i = Len(deadlines)
      <4>1. accum = deadlines[Len(deadlines)]
        BY <1>1, <3>1, <3>2 DEF accum
      <4> QED
        BY <2>2, <2>3, <3>1, <3>2, <4>1
    <3>3. CASE i # Len(deadlines)
      <4>1. i + 1 \in 1 .. Len(deadlines) /\ i \in 1 .. Len(deadlines) - 1
        BY <1>1, <3>1, <3>3
      <4> QED
        BY <1>2, <2>3, <3>1, <4>1
    <3> QED
      BY <3>2, <3>3
  <2>5. Len(deadlines) <= Len(deadlines') /\ Len(deadlines') \in Nat
    BY <1>1, <2>3
  <2> QED
    BY <1>3, <2>1, <2>3, <2>4, <2>5, Zenon
<1>5. CASE /\ UNCHANGED deadlines
           /\ \/ pc = "warmup" /\ pc' = "measured"
              \/ pc = "measured" /\ pc' = "cooldown" /\ ~ (Len(deadlines) - pre_samples < cfg.samples)
              \/ pc = "cooldown" /\ pc' = IF cfg.use_busy_timer THEN "wait" ELSE "clock"
  <2>1. ~ (Len(deadlines) - pre_samples < cfg.samples) => pre_samples + cfg.samples <= Len(deadlines)
    BY <1>1
  <2>2. Len(deadlines) <= Len(deadlines)
    BY <1>1
  <2> QED
    BY <1>1, <1>2, <1>3, <1>5, <2>1, <2>2, Zenon
<1>6. \/ \E g \in Gaps : deadlines' = Append(deadlines, accum + g) /\ pc' = pc
      \/ /\ UNCHANGED deadlines
         /\ \/ pc = "warmup" /\ pc' = "measured"
            \/ pc = "measured" /\ pc' = "cooldown" /\ ~ (Len(deadlines) - pre_samples < cfg.samples)
            \/ pc = "cooldown" /\ pc' = IF cfg.use_busy_timer THEN "wait" ELSE "clock"
  <2>1. CASE Draw("warmup", accum < cfg.warmup, "measured")
    BY <2>1 DEF Draw
  <2>2. CASE Draw("measured", Len(deadlines) - pre_samples < cfg.samples, "cooldown")
    BY <2>2 DEF Draw
  <2>3. CASE Draw("cooldown", accum - coolstart < cfg.cooldown,
                  IF cfg.use_busy_timer THEN "wait" ELSE "clock")
    BY <2>3 DEF Draw
  <2> QED
    BY <2>1, <2>2, <2>3 DEF SetupDeadlines
<1> QED
  BY <1>4, <1>5, <1>6, Zenon

(* Steps other than the drawing of a deadline leave the schedule alone.    *)
LEMMA ScheduleFrame ==
  ASSUME IInv, [Next]_vars, ~ SetupDeadlines
  PROVE  UNCHANGED <<cfg, deadlines, pre_samples>>
<1>1. CASE Quiet
  <2>1. CASE EpollWait \/ TimerEvent \/ BatchDone
    BY <2>1 DEF EpollWait, TimerEvent, BatchDone, basevars, schedvars
  <2>2. CASE ReadClock \/ TimerArm \/ BusyDone \/ TryTxDone
    BY <2>2 DEF ReadClock, TimerArm, BusyDone, TryTxDone, basevars, schedvars
  <2>3. CASE Tick \/ TimerExpire \/ UNCHANGED vars
    BY <2>3 DEF Tick, TimerExpire, vars, schedvars
  <2> QED
    BY <1>1, <2>1, <2>2, <2>3 DEF Quiet
<1>2. CASE SetupConnections
  BY <1>2 DEF SetupConnections, basevars, schedvars
<1>3. CASE Flag \/ State \/ RecvBody \/ \E g \in DOMAIN gens : RunIo(g)
  BY <1>3, TableFrame DEF schedvars
<1>4. CASE Release
  BY <1>4, ReleaseFrame DEF schedvars
<1>5. CASE Sample
  BY <1>5, RecvEffect, FakeEffect DEF Sample, Records, schedvars
<1>6. CASE SendRequest
  BY <1>6 DEF SendRequest, schedvars
<1> QED
  BY <1>1, <1>2, <1>3, <1>4, <1>5, <1>6, NextCases, Zenon

(* The deadline of the next request, while there is one.                   *)
LEMMA NextDeadline ==
  ASSUME PlainTypes, sent_count < total_samples
  PROVE  next_deadline \in Nat /\ sent_count + 1 \in 1 .. Len(deadlines)
<1>1. deadlines \in Seq(Nat) /\ sent_count \in Nat /\ Len(deadlines) \in Nat /\ sent_count < Len(deadlines)
  BY Numbers DEF PlainTypes, total_samples
<1>2. sent_count + 1 \in 1 .. Len(deadlines)
  BY <1>1
<1> QED
  BY <1>1, <1>2, ElementOfSeq, Zenon DEF next_deadline

-----------------------------------------------------------------------------
(* Types are preserved. *)

Counts ==
  /\ sent_count \in Nat /\ rcvd_count \in Nat /\ measure_count \in Nat /\ missed_send \in Nat
  /\ idx \in Nat /\ clk \in Nat /\ now \in Nat
Flags ==
  /\ started \in BOOLEAN /\ ended \in BOOLEAN /\ looped \in BOOLEAN /\ fired \in BOOLEAN
  /\ pc \in Points /\ err \in {"none", "ENOSPC", "terminate"} /\ due \in Nat \cup {NotArmed}

(* The plain variables fall into counts, flags and the schedule.           *)
LEMMA PlainParts ==
  PlainTypes <=> /\ Counts /\ Flags /\ cfg \in Configs
                 /\ deadlines \in Seq(Nat) /\ pre_samples \in 0 .. Len(deadlines)
BY Zenon DEF PlainTypes, Counts, Flags

(* Every step keeps the counts natural numbers.                            *)
LEMMA CountsPreserved ==
  ASSUME IInv, [Next]_vars
  PROVE  Counts'
<1>1. Counts
  BY TableSeqs, PlainParts, Zenon
<1>2. CASE SetupDeadlines \/ SetupConnections \/ UNCHANGED vars
  BY <1>1, <1>2 DEF SetupDeadlines, Draw, SetupConnections, vars, Counts, basevars,
                    countvars, sendvars, timevars
<1>3. CASE EpollWait \/ TimerEvent \/ BatchDone
  BY <1>1, <1>3 DEF EpollWait, TimerEvent, BatchDone, Counts, basevars, countvars, sendvars,
                    timevars
<1>4. CASE ReadClock \/ TimerArm
  BY <1>1, <1>4 DEF ReadClock, TimerArm, Counts, countvars, sendvars, timevars
<1>5. CASE BusyDone \/ TryTxDone
  BY <1>1, <1>5 DEF BusyDone, TryTxDone, Counts, basevars, countvars, sendvars, timevars
<1>6. CASE Tick \/ TimerExpire
  BY <1>1, <1>6 DEF Tick, TimerExpire, Counts, countvars, sendvars, timevars
<1>7. CASE Flag \/ State \/ RecvBody \/ \E g \in DOMAIN gens : RunIo(g)
  BY <1>1, <1>7, TableFrame DEF Counts, countvars, sendvars, timevars
<1>8. CASE Release
  <2>1. sent_count' \in {sent_count, sent_count + 1}
    BY <1>8, ReleaseFrame
  <2>2. UNCHANGED <<rcvd_count, measure_count, sendvars, timevars, clk>>
    BY <1>8, ReleaseFrame
  <2> QED
    BY <1>1, <2>1, <2>2 DEF Counts, sendvars, timevars
<1>9. CASE Sample
  <2>1. PICK r, q : Records(r, q)
    BY <1>9, RecvEffect, FakeEffect, Zenon DEF Sample
  <2>2. /\ rcvd_count' = rcvd_count + 1 /\ UNCHANGED <<sent_count, sendvars, timevars, clk>>
        /\ measure_count' \in {measure_count, measure_count + 1}
    <3>1. (IF reqs[r].measure THEN 1 ELSE 0) \in {0, 1}
      OBVIOUS
    <3>2. /\ rcvd_count' = rcvd_count + 1 /\ UNCHANGED <<sent_count, sendvars, timevars, clk>>
          /\ measure_count' = measure_count + (IF reqs[r].measure THEN 1 ELSE 0)
      BY <2>1, Zenon DEF Records
    <3> QED
      BY <1>1, <3>1, <3>2 DEF Counts
  <2> QED
    BY <1>1, <2>2 DEF Counts, sendvars, timevars
<1>10. CASE SendRequest
  <2>1. /\ idx' \in {idx, idx + 1} /\ UNCHANGED <<sent_count, rcvd_count, measure_count, timevars, clk>>
        /\ missed_send' = missed_send +
             (IF Overdue /\ (looped \/ cfg.use_busy_timer) THEN 1 ELSE 0)
    BY <1>10 DEF SendRequest
  <2>2. missed_send' \in Nat
    <3>1. (IF Overdue /\ (looped \/ cfg.use_busy_timer) THEN 1 ELSE 0) \in {0, 1}
      OBVIOUS
    <3> QED
      BY <1>1, <2>1, <3>1 DEF Counts
  <2> QED
    BY <1>1, <2>1, <2>2 DEF Counts, timevars
<1> QED
  BY <1>2, <1>3, <1>4, <1>5, <1>6, <1>7, <1>8, <1>9, <1>10, NextCases, Zenon DEF Quiet

(* Where the thread goes from each point, and what it has thrown.          *)
LEMMA PointsPreserved ==
  ASSUME IInv, [Next]_vars
  PROVE  pc' \in Points /\ err' \in {"none", "ENOSPC", "terminate"}
<1>1. pc \in Points /\ err \in {"none", "ENOSPC", "terminate"}
  BY TableSeqs, PlainParts, Zenon DEF Flags
<1>2. CASE SetupDeadlines
  BY <1>1, <1>2, DrawEffect, QuietFrame DEF Points, Quiet
<1>3. CASE SetupConnections \/ EpollWait \/ TimerEvent \/ BatchDone \/ UNCHANGED vars
  BY <1>1, <1>3 DEF SetupConnections, EpollWait, TimerEvent, BatchDone, vars, Points
<1>4. CASE ReadClock \/ TimerArm \/ BusyDone \/ TryTxDone \/ Tick \/ TimerExpire
  BY <1>1, <1>4 DEF ReadClock, TimerArm, BusyDone, TryTxDone, Tick, TimerExpire, Points
<1>5. CASE Flag \/ State \/ RecvBody \/ \E g \in DOMAIN gens : RunIo(g)
  <2>1. err' = err
    BY <1>5, TableFrame, Zenon
  <2>2. pc' \in {pc, "io_tx", "io_rx"}
    <3>1. CASE Flag \/ RecvBody
      BY <3>1, FlagFrame
    <3>2. CASE State
      BY <3>2, StateFrame
    <3>3. CASE \E g \in DOMAIN gens : RunIo(g)
      BY <3>3 DEF RunIo
    <3> QED
      BY <1>5, <3>1, <3>2, <3>3
  <2> QED
    BY <1>1, <2>1, <2>2 DEF Points
<1>6. CASE Release
  <2>1. PICK next \in {"batch", AfterSend} : PutCur(next)
    BY <1>6, ReleaseFrame, Zenon
  <2>2. next \in {"batch", "timer"}
    BY <2>1 DEF AfterSend
  <2> QED
    BY <1>1, <2>1, <2>2 DEF PutCur, Throw, Points
<1>7. CASE Sample
  <2>1. err' = err /\ pc' \in {"exit", pc, "send_end"}
    <3>1. CASE RecvResponse
      BY <3>1, RecvEffect, Zenon DEF Records
    <3>2. CASE FakeResponse
      BY <3>2, FakeEffect, Zenon DEF Records
    <3> QED
      BY <1>7, <3>1, <3>2 DEF Sample
  <2> QED
    BY <1>1, <2>1 DEF Points
<1>8. CASE SendRequest
  BY <1>1, <1>8, SendEffect DEF Sends, Points
<1> QED
  BY <1>2, <1>3, <1>4, <1>5, <1>6, <1>7, <1>8, NextCases, Zenon DEF Quiet

(* Every step keeps the flags and the control state typed.                 *)
LEMMA FlagsPreserved ==
  ASSUME IInv, [Next]_vars
  PROVE  Flags'
<1>1. Flags /\ PlainTypes
  BY TableSeqs, PlainParts, Zenon
<1>2. pc' \in Points /\ err' \in {"none", "ENOSPC", "terminate"}
  BY PointsPreserved, Zenon
<1>3. /\ started' \in BOOLEAN /\ ended' \in BOOLEAN /\ looped' \in BOOLEAN /\ fired' \in BOOLEAN
      /\ due' \in Nat \cup {NotArmed}
  <2>1. CASE SetupDeadlines \/ SetupConnections \/ UNCHANGED vars
    BY <1>1, <2>1, Zenon DEF SetupDeadlines, Draw, SetupConnections, vars, Flags, basevars,
                      countvars, sendvars, timevars
  <2>2. CASE EpollWait \/ TimerEvent \/ BatchDone
    BY <1>1, <2>2, Zenon DEF EpollWait, TimerEvent, BatchDone, Flags, basevars, countvars, sendvars,
                      timevars
  <2>3. CASE ReadClock
    BY <1>1, <2>3, Zenon DEF ReadClock, Flags, countvars, timevars
  <2>4. CASE TimerArm
    <3>1. UNCHANGED <<countvars, sendvars, fired>> /\ pc = "timer" /\ ~ cfg.use_busy_timer
          /\ clk < next_deadline
      BY <2>4, Zenon DEF TimerArm
    <3>2. next_deadline \in Nat
      <4>1. sent_count < total_samples
        BY <3>1 DEF IInv, Timers, Handling
      <4> QED
        BY <1>1, <4>1, NextDeadline, Zenon
    <3>3. due' \in Nat
      <4>1. now \in Nat /\ clk \in Nat /\ MaxTime \in Nat
        BY <1>1, SizesAssumption, Numbers, Zenon
      <4> DEFINE end == now + (next_deadline - clk)
      <4>2. due' = IF end < MaxTime THEN end ELSE MaxTime
        BY <2>4, Zenon DEF TimerArm
      <4>3. end \in Nat
        BY <3>1, <3>2, <4>1
      <4> HIDE DEF end
      <4> QED
        BY <4>1, <4>2, <4>3
    <3> QED
      BY <1>1, <3>1, <3>3, Zenon DEF Flags, countvars, sendvars
  <2>5. CASE BusyDone \/ TryTxDone
    BY <1>1, <2>5, Zenon DEF BusyDone, TryTxDone, Flags, basevars, countvars, sendvars, timevars
  <2>6. CASE Tick
    BY <1>1, <2>6, Zenon DEF Tick, Flags, countvars, sendvars
  <2>7. CASE TimerExpire
    BY <1>1, <2>7, Zenon DEF TimerExpire, Flags, countvars, sendvars
  <2>8. CASE Flag \/ State \/ RecvBody \/ \E g \in DOMAIN gens : RunIo(g)
    <3>1. UNCHANGED <<countvars, sendvars, timevars>>
      BY <2>8, TableFrame, Zenon
    <3> QED
      BY <1>1, <3>1, Zenon DEF Flags, countvars, sendvars, timevars
  <2>9. CASE Release
    <3>1. UNCHANGED <<started, ended, sendvars, timevars>>
      BY <2>9, ReleaseFrame, Zenon
    <3> QED
      BY <1>1, <3>1, Zenon DEF Flags, sendvars, timevars
  <2>10. CASE Sample
    <3>1. PICK r, q : Records(r, q)
      BY <2>10, RecvEffect, FakeEffect, Zenon DEF Sample
    <3>2. UNCHANGED <<started, sendvars, timevars>> /\ ended' = (ended \/ LastMeasured(r))
      BY <3>1, Zenon DEF Records
    <3>3. ended' \in BOOLEAN
      BY <3>2, Zenon
    <3> QED
      BY <1>1, <3>2, <3>3, Zenon DEF Flags, sendvars, timevars
  <2>11. CASE SendRequest
    <3>1. UNCHANGED <<ended, timevars>> /\ started' = (started \/ sent_count = pre_samples)
          /\ looped' = TRUE
      BY <2>11, Zenon DEF SendRequest
    <3>2. started' \in BOOLEAN /\ looped' \in BOOLEAN
      BY <3>1, Zenon
    <3> QED
      BY <1>1, <3>1, <3>2, Zenon DEF Flags, timevars
  <2> QED
    BY <2>1, <2>2, <2>3, <2>4, <2>5, <2>6, <2>7, <2>8, <2>9, <2>10, <2>11, NextCases, Zenon DEF Quiet
<1> QED
  BY <1>2, <1>3, Zenon DEF Flags

(* Every step keeps the plain variables typed.                             *)
LEMMA PlainPreserved ==
  ASSUME IInv, [Next]_vars
  PROVE  PlainTypes'
<1>1. Counts' /\ Flags'
  BY CountsPreserved, FlagsPreserved, Zenon
<1>2. PlainTypes
  BY TableSeqs, Zenon
<1>3. cfg' \in Configs /\ deadlines' \in Seq(Nat) /\ pre_samples' \in 0 .. Len(deadlines')
  <2>1. CASE SetupDeadlines
    <3>1. cfg' = cfg
      BY <2>1, QuietFrame DEF Quiet
    <3>2. deadlines' \in Seq(Nat) /\ Len(deadlines') \in Nat /\ Len(deadlines) <= Len(deadlines')
          /\ pre_samples' = IF pc = "warmup" THEN Len(deadlines') ELSE pre_samples
      BY <2>1, DrawEffect, Zenon
    <3>3. pre_samples \in Nat /\ pre_samples <= Len(deadlines) /\ Len(deadlines) \in Nat
      BY <1>2, Numbers, Zenon
    <3>4. pre_samples' \in 0 .. Len(deadlines')
      BY <3>2, <3>3
    <3> QED
      BY <1>2, <3>1, <3>2, <3>4, Zenon DEF PlainTypes
  <2>2. CASE ~ SetupDeadlines
    BY <1>2, <2>2, ScheduleFrame, Zenon DEF PlainTypes
  <2> QED
    BY <2>1, <2>2
<1> QED
  BY <1>1, <1>3, Zenon DEF PlainTypes, Counts, Flags

(* Every step keeps the tables of generators and requests typed; a count   *)
(* that would fall below zero is excluded by RefsAccounted.                *)
LEMMA TablesPreserved ==
  ASSUME IInv, [Next]_vars
  PROVE  TableTypes'
<1>0. /\ TableTypes /\ PlainTypes /\ Len(reqs) \in Nat /\ Len(gens) \in Nat
      /\ gens \in Seq(GenType(Len(reqs))) /\ reqs \in Seq(ReqType(Len(gens)))
      /\ DOMAIN gens = 1 .. Len(gens) /\ DOMAIN reqs = 1 .. Len(reqs)
  BY TableSeqs, Zenon
<1>1. /\ cur \in 0 .. Len(gens) /\ batch \subseteq 0 .. Len(gens)
      /\ recorded \subseteq DOMAIN reqs /\ discarded \subseteq DOMAIN reqs
  BY <1>0, Zenon DEF TableTypes
<1>2. 0 \in 0 .. Len(gens) /\ \A g \in 1 .. Len(gens) : g \in 0 .. Len(gens)
  BY <1>0
<1>3. CASE Quiet
  <2>1. UNCHANGED <<gens, reqs, cur, recorded, discarded>>
    BY <1>3, QuietFrame, Zenon
  <2>2. batch' \subseteq 0 .. Len(gens)
    <3>1. CASE EpollWait
      <4>1. batch' = {g \in DOMAIN gens : HasEvent(g)} \cup (IF fired THEN {Timer} ELSE {})
        BY <3>1, Zenon DEF EpollWait
      <4> QED
        BY <1>0, <1>2, <4>1, Zenon DEF Timer
    <3>2. CASE TimerEvent
      BY <1>1, <3>2, Zenon DEF TimerEvent
    <3>3. CASE SetupDeadlines \/ BatchDone \/ ReadClock \/ TimerArm
      BY <1>1, <3>3, Zenon DEF SetupDeadlines, Draw, BatchDone, ReadClock, TimerArm
    <3>4. CASE BusyDone \/ TryTxDone \/ Tick \/ TimerExpire \/ UNCHANGED vars
      BY <1>1, <3>4, Zenon DEF BusyDone, TryTxDone, Tick, TimerExpire, vars
    <3> QED
      BY <1>3, <3>1, <3>2, <3>3, <3>4, Zenon DEF Quiet
  <2> QED
    BY <1>0, <1>1, <2>1, <2>2, Zenon DEF TableTypes
<1>4. CASE SetupConnections
  <2>1. /\ pc = "connections" /\ UNCHANGED <<cur, batch, reqs, recorded, discarded>>
        /\ gens' = IF PerRequest THEN << >> ELSE [i \in 1 .. cfg.conn_cnt |-> NewGen]
    BY <1>4 DEF SetupConnections, basevars, countvars, PerRequest
  <2>2. reqs = << >> /\ cur = NoGen /\ batch = {}
    BY <2>1 DEF IInv, Schedule, Setup
  <2>3. gens' \in Seq(GenType(Len(reqs')))
    <3>1. cfg.conn_cnt \in Nat
      BY <1>0, CfgTypes, Zenon
    <3>2. NewGen \in GenType(Len(reqs))
      BY <1>0 DEF NewGen, GenType
    <3>3. << >> \in Seq(GenType(Len(reqs))) /\ [i \in 1 .. cfg.conn_cnt |-> NewGen] \in Seq(GenType(Len(reqs)))
      BY <3>1, <3>2
    <3> QED
      BY <2>1, <3>3, Zenon
  <2>4. reqs' \in Seq(ReqType(Len(gens'))) /\ Len(gens') \in Nat
    <3>1. Len(gens') \in Nat
      BY <2>3, LenProperties, Zenon
    <3>2. ASSUME NEW S PROVE << >> \in Seq(S)
      OBVIOUS
    <3> QED
      BY <2>1, <2>2, <3>1, <3>2, Zenon
  <2>5. cur' \in 0 .. Len(gens') /\ batch' \subseteq 0 .. Len(gens')
    <3>1. ASSUME NEW n \in Nat PROVE 0 \in 0 .. n
      OBVIOUS
    <3>2. cur' = 0 /\ batch' = {}
      BY <2>1, <2>2, Zenon DEF NoGen
    <3> QED
      BY <2>4, <3>1, <3>2, Zenon
  <2> QED
    BY <1>1, <2>1, <2>3, <2>4, <2>5, Zenon DEF TableTypes
<1>5. ASSUME NEW g, NEW k, NEW l, NEW q, Touched(g, k, l, q), UNCHANGED <<reqs, recorded>>,
             cur' \in 0 .. Len(gens), batch' \subseteq batch,
             discarded' \subseteq DOMAIN reqs
      PROVE  TableTypes'
  <2>1. gens' \in Seq(GenType(Len(reqs))) /\ Len(gens') = Len(gens)
    BY <1>5, Zenon DEF Touched, Edited
  <2> QED
    BY <1>0, <1>1, <1>5, <2>1, Zenon DEF TableTypes
<1>6. CASE \E g \in DOMAIN gens : RunIo(g)
  <2>1. PICK g \in DOMAIN gens : RunIo(g)
    BY <1>6, Zenon
  <2>2. batch' = batch \ {g} /\ cur' = g /\ UNCHANGED <<reqs, recorded, discarded>>
    BY <1>6, <2>1, IoFrame, TableFrame DEF countvars
  <2>3. Touched(g, gens[g].ref + 1, gens[g].live, gens[g].rx)
    BY <2>1, RunIoEffect, Zenon
  <2> QED
    BY <1>0, <1>1, <1>2, <1>5, <2>2, <2>3, Zenon
<1>7. CASE Flag \/ RecvBody
  <2>1. PICK g, k, l, q : Touched(g, k, l, q)
    BY <1>7, FlagEffect, BodyEffect, Zenon DEF Flag
  <2>2. UNCHANGED <<reqs, recorded, discarded, cur, batch>>
    BY <1>7, FlagFrame, TableFrame DEF countvars
  <2> QED
    BY <1>1, <1>5, <2>1, <2>2, Zenon
<1>8. CASE State
  <2>1. PICK r, x : Restated(r, x)
    BY <1>8, StEffect, Zenon DEF State
  <2>2. reqs' \in Seq(ReqType(Len(gens))) /\ Len(reqs') = Len(reqs)
    BY <2>1, Zenon DEF Restated
  <2>3. DOMAIN reqs' = DOMAIN reqs
    BY <1>0, <2>2, LenProperties, Zenon
  <2>4. UNCHANGED <<gens, recorded, discarded, cur, batch>>
    BY <1>8, StateFrame, TableFrame DEF countvars
  <2> QED
    BY <1>0, <1>1, <2>2, <2>3, <2>4, Zenon DEF TableTypes
<1>9. CASE Release
  <2>1. PICK next : PutCur(next)
    BY <1>9, ReleaseFrame, Zenon
  <2>2. pc \in OnStack /\ UNCHANGED <<reqs, recorded, batch>>
    BY <1>9, ReleaseFrame, Zenon
  <2>3. Touched(cur, gens[cur].ref - 1, gens[cur].ref # 1, gens[cur].rx) /\ cur' = NoGen
    BY <2>1, <2>2, PutEffect, Zenon
  <2>4. discarded' \subseteq DOMAIN reqs
    BY <1>1, <2>1, Zenon DEF PutCur, Queued
  <2>5. cur' \in 0 .. Len(gens)
    BY <1>2, <2>3 DEF NoGen
  <2> QED
    BY <1>5, <2>2, <2>3, <2>4, <2>5, Zenon
<1>10. CASE Sample
  <2>1. PICK r, q : Records(r, q)
    BY <1>10, RecvEffect, FakeEffect, Zenon DEF Sample
  <2>2. /\ r \in 1 .. Len(reqs) /\ recorded' = recorded \cup {r}
        /\ gens' \in Seq(GenType(Len(reqs))) /\ Len(gens') = Len(gens)
        /\ UNCHANGED <<reqs, cur, batch, discarded>>
    BY <2>1, Zenon DEF Records, Touched, Edited
  <2> QED
    BY <1>0, <1>1, <2>2, Zenon DEF TableTypes
<1>11. CASE SendRequest
  <2>1. UNCHANGED <<recorded, batch, discarded>>
    BY <1>11, Zenon DEF SendRequest
  <2>2. CASE UNCHANGED <<cur, reqs>> /\ \E g \in 1 .. Len(gens) :
               Touched(g, gens[g].ref + 1, gens[g].live, gens[g].rx)
    BY <1>1, <1>5, <2>1, <2>2, Zenon
  <2>3. CASE \E g \in Nat : Sends(g)
    <3>1. PICK g \in Nat : Sends(g)
      BY <2>3
    <3>2. gens' \in Seq(GenType(Len(reqs) + 1)) /\ g \in 1 .. Len(gens') /\ cur' = g
      BY <3>1, Zenon DEF Sends
    <3>3. Len(gens') \in Nat /\ Len(gens) <= Len(gens')
      BY <1>0, <3>1 DEF Sends
    <3>4. reqs \in Seq(ReqType(Len(gens')))
      <4>1. ReqType(Len(gens)) \subseteq ReqType(Len(gens'))
        BY <1>0, <3>3, TypesMonotone, Zenon
      <4> QED
        BY <1>0, <4>1, SeqMonotone, Zenon
    <3> DEFINE m == sent_count \in pre_samples .. pre_samples + cfg.samples - 1
               q == [conn |-> g, st |-> "queued", measure |-> m]
    <3>5. m \in BOOLEAN
      OBVIOUS
    <3> HIDE DEF m
    <3>6. q \in ReqType(Len(gens'))
      BY <3>2, <3>5 DEF ReqType
    <3>7. reqs' = Append(reqs, q)
      BY <3>1, Zenon DEF Sends, m
    <3> HIDE DEF q
    <3>8. reqs' \in Seq(ReqType(Len(gens'))) /\ Len(reqs') = Len(reqs) + 1
      BY <3>4, <3>6, <3>7, AppendSeq, Zenon
    <3>9. DOMAIN reqs \subseteq DOMAIN reqs'
      <4>1. DOMAIN reqs' = 1 .. Len(reqs) + 1
        BY <3>8, LenProperties, Zenon
      <4> QED
        BY <1>0, <4>1
    <3>10. cur' \in 0 .. Len(gens') /\ batch' \subseteq 0 .. Len(gens')
      BY <1>0, <1>1, <2>1, <3>2, <3>3
    <3> QED
      BY <1>1, <2>1, <3>2, <3>8, <3>9, <3>10, Zenon DEF TableTypes
  <2> QED
    BY <1>11, <2>2, <2>3, SendEffect, Zenon
<1> QED
  BY <1>3, <1>4, <1>6, <1>7, <1>8, <1>9, <1>10, <1>11, NextCases, Zenon

-----------------------------------------------------------------------------
(* The schedule comes first. *)

(* Steps after the setup.                                                  *)
LEMMA Later ==
  ASSUME IInv, [Next]_vars, ~ SetupDeadlines, ~ SetupConnections, ~ UNCHANGED vars
  PROVE  /\ pc \in Points \ Setup /\ pc # "exit" /\ pc # "dead" /\ pc' \in Points \ Setup
         /\ clk' <= now' /\ (err' # "none" <=> pc' = "dead")
         /\ ~ PerRequest => Len(gens') = Len(gens)
<1>0. /\ pc \in Points /\ pc' \in Points /\ PlainTypes /\ clk \in Nat /\ now \in Nat /\ clk <= now
      /\ (err # "none" <=> pc = "dead")
  BY PointsPreserved, TableSeqs, Numbers, Zenon DEF PlainTypes, IInv, Schedule
<1>1. CASE EpollWait \/ TimerEvent \/ BatchDone \/ TryTxDone \/ BusyDone
  <2>1. /\ UNCHANGED <<clk, now, err, gens>> /\ pc \in {"wait", "batch", "timer", "send_tx"}
        /\ pc' \in {"batch", "clock", "wait", "send_rx"}
    <3>1. CASE EpollWait \/ TimerEvent
      BY <3>1 DEF EpollWait, TimerEvent, basevars, timevars
    <3>2. CASE BatchDone \/ TryTxDone \/ BusyDone
      BY <3>2 DEF BatchDone, TryTxDone, BusyDone, basevars, timevars
    <3> QED
      BY <1>1, <3>1, <3>2
  <2> QED
    BY <1>0, <2>1 DEF Setup
<1>2. CASE ReadClock \/ TimerArm \/ Tick \/ TimerExpire
  <2>1. UNCHANGED <<err, gens>> /\ now \in Nat
    BY <1>0, <1>2, QuietFrame DEF Quiet
  <2>2. /\ pc \notin Setup /\ pc # "exit" /\ pc # "dead" /\ pc' \notin Setup /\ pc' # "dead"
    BY <1>2 DEF ReadClock, TimerArm, Tick, TimerExpire, Running, Setup
  <2>3. clk' <= now'
    <3>1. CASE ReadClock
      <4>1. clk' = now /\ now' = now
        BY <3>1, Zenon DEF ReadClock, timevars
      <4> QED
        BY <2>1, <4>1
    <3>2. CASE Tick
      <4>1. clk' = clk /\ now' = now + 1
        BY <3>2, Zenon DEF Tick
      <4> QED
        BY <1>0, <4>1
    <3>3. CASE TimerArm \/ TimerExpire
      <4>1. clk' = clk /\ now' = now
        BY <3>3, Zenon DEF TimerArm, TimerExpire
      <4> QED
        BY <1>0, <4>1
    <3> QED
      BY <1>2, <3>1, <3>2, <3>3
  <2> QED
    BY <1>0, <2>1, <2>2, <2>3
<1>3. CASE Flag \/ State \/ RecvBody \/ \E g \in DOMAIN gens : RunIo(g)
  <2>1. clk' = clk /\ now' = now /\ err' = err
    BY <1>3, TableFrame, Zenon DEF timevars
  <2>2. /\ pc \notin Setup /\ pc # "exit" /\ pc # "dead" /\ pc' \notin Setup /\ pc' # "dead"
    <3>1. CASE Flag
      BY <3>1 DEF Flag, RxDone, Connected, Running, Setup
    <3>2. CASE State
      BY <3>2 DEF State, Transmit, Answer, Running, Setup
    <3>3. CASE RecvBody \/ \E g \in DOMAIN gens : RunIo(g)
      BY <3>3 DEF RecvBody, RunIo, Setup
    <3> QED
      BY <1>3, <3>1, <3>2, <3>3
  <2>3. Len(gens') = Len(gens)
    <3>1. CASE Flag \/ RecvBody
      BY <3>1, FlagEffect, BodyEffect, Zenon DEF Flag, Touched, Edited
    <3>2. CASE State
      BY <3>2, StateFrame, Zenon
    <3>3. CASE \E g \in DOMAIN gens : RunIo(g)
      BY <3>3, RunIoEffect, Zenon DEF Touched, Edited
    <3> QED
      BY <1>3, <3>1, <3>2, <3>3
  <2> QED
    BY <1>0, <2>1, <2>2, <2>3
<1>4. CASE Release
  <2>1. PICK next \in {"batch", AfterSend} : PutCur(next)
    BY <1>4, ReleaseFrame, Zenon
  <2>2. next \in {"batch", "timer"}
    BY <2>1 DEF AfterSend
  <2>3. pc \in OnStack /\ clk' = clk /\ now' = now
    BY <1>4, ReleaseFrame, Zenon DEF timevars
  <2>4. err = "none" /\ Len(gens') = Len(gens)
    BY <2>1, <2>3, OnStackCount, PutEffect, Zenon DEF Touched, Edited
  <2>5. (err' # "none" <=> pc' = "dead") /\ pc' \notin Setup
    BY <2>1, <2>2, <2>4 DEF PutCur, Throw, Setup
  <2>6. pc \notin Setup /\ pc # "exit" /\ pc # "dead"
    BY <2>3 DEF OnStack, Sending, Setup
  <2> QED
    BY <1>0, <2>3, <2>4, <2>5, <2>6, Zenon
<1>5. CASE Sample
  <2>1. PICK r, q : Records(r, q)
    BY <1>5, RecvEffect, FakeEffect, Zenon DEF Sample
  <2>2. pc' \in {"exit", "send_end", pc}
    BY <1>5, RecvEffect, FakeEffect DEF Sample
  <2>3. clk' = clk /\ now' = now /\ err' = err /\ Len(gens') = Len(gens) /\ pc \in {"send_rx", "io_rx"}
    BY <2>1, Zenon DEF Records, Touched, Edited, timevars
  <2> QED
    BY <1>0, <2>2, <2>3 DEF Setup
<1>6. CASE SendRequest
  <2>1. clk' = clk /\ now' = now /\ pc = "timer" /\ err = "none"
    BY <1>0, <1>6 DEF SendRequest, timevars
  <2>2. CASE err' = "ENOSPC" /\ pc' = "dead" /\ UNCHANGED <<cur, reqs>> /\ \E g \in 1 .. Len(gens) :
                    Touched(g, gens[g].ref + 1, gens[g].live, gens[g].rx)
    <3>1. Len(gens') = Len(gens)
      BY <2>2, Zenon DEF Touched, Edited
    <3> QED
      BY <1>0, <2>1, <2>2, <3>1 DEF Setup
  <2>3. CASE \E g \in Nat : Sends(g)
    <3>1. pc' = "send_tx" /\ err' = err /\ (~ PerRequest => Len(gens') = Len(gens))
      BY <2>3 DEF Sends
    <3> QED
      BY <1>0, <2>1, <3>1 DEF Setup
  <2> QED
    BY <1>6, <2>2, <2>3, SendEffect, Zenon
<1> QED
  BY <1>1, <1>2, <1>3, <1>4, <1>5, <1>6, NextCases, Zenon DEF Quiet

(* Every step keeps the schedule: it is drawn in order, and before the     *)
(* first request.                                                          *)
LEMMA SchedulePreserved ==
  ASSUME IInv, [Next]_vars
  PROVE  Schedule'
<1>0. Schedule /\ PlainTypes /\ Len(deadlines) \in Nat /\ pre_samples \in Nat /\ cfg.samples \in Nat
      /\ pc \in Points
  BY TableSeqs, Numbers, CfgTypes, Zenon DEF IInv, PlainTypes
<1>1. CASE UNCHANGED vars
  BY <1>0, <1>1, Zenon DEF Schedule, vars, schedvars, countvars, timevars, PerRequest
<1>2. CASE SetupConnections
  <2>1. /\ pc = "connections" /\ pc' = "warmup"
        /\ UNCHANGED <<cfg, deadlines, pre_samples, reqs, sent_count, recorded, now, batch, cur, clk, err>>
        /\ gens' = IF PerRequest THEN << >> ELSE [i \in 1 .. cfg.conn_cnt |-> NewGen]
    BY <1>2 DEF SetupConnections, basevars, schedvars, countvars, timevars, PerRequest
  <2>2. ~ PerRequest => Len(gens') = cfg.conn_cnt
    <3>1. cfg.conn_cnt \in Nat
      BY <1>0, CfgTypes, Zenon
    <3>2. Len([i \in 1 .. cfg.conn_cnt |-> NewGen]) = cfg.conn_cnt
      BY <3>1
    <3> QED
      BY <2>1, <3>2, Zenon
  <2> QED
    BY <1>0, <2>1, <2>2 DEF Schedule, PerRequest, Setup
<1>3. CASE SetupDeadlines
  <2>1. /\ Len(deadlines') \in Nat /\ Len(deadlines) <= Len(deadlines')
        /\ \A i \in 1 .. Len(deadlines') - 1 : deadlines'[i] <= deadlines'[i + 1]
        /\ pc \in {"warmup", "measured", "cooldown"}
        /\ pre_samples' = IF pc = "warmup" THEN Len(deadlines') ELSE pre_samples
    BY <1>3, DrawEffect, Zenon
  <2>2. \/ pc' = pc
        \/ /\ UNCHANGED deadlines
           /\ \/ pc = "warmup" /\ pc' = "measured"
              \/ pc = "measured" /\ pc' = "cooldown" /\ pre_samples + cfg.samples <= Len(deadlines)
              \/ pc = "cooldown" /\ pc' = IF cfg.use_busy_timer THEN "wait" ELSE "clock"
    BY <1>3, DrawEffect, Zenon
  <2>3. UNCHANGED <<cfg, sent_count, recorded, gens, cur, err, reqs>>
    BY <1>3, QuietFrame, Zenon DEF Quiet
  <2>4. UNCHANGED <<now, batch, clk>>
    BY <1>3 DEF SetupDeadlines, Draw, timevars
  <2>5. /\ pre_samples + cfg.samples <= Len(deadlines) => pre_samples + cfg.samples <= Len(deadlines')
    BY <1>0, <2>1
  <2>6. pc' # "connections" /\ pc' # "dead" /\ (pc' = "warmup" => pc = "warmup")
    BY <2>1, <2>2
  <2>7. pc' \notin {"connections", "warmup", "measured"} => pre_samples' + cfg'.samples <= Len(deadlines')
    <3>1. pc = "cooldown" => pre_samples + cfg.samples <= Len(deadlines)
      BY <1>0 DEF Schedule
    <3>2. CASE pc' = pc
      BY <2>1, <2>3, <2>5, <3>1, <3>2
    <3>3. CASE pc' # pc
      BY <2>1, <2>2, <2>3, <2>5, <3>1, <3>3
    <3> QED
      BY <3>2, <3>3
  <2>8. pc' \in {"connections", "warmup"} => pre_samples' = Len(deadlines')
    BY <2>1, <2>6
  <2>9. /\ (err' # "none" <=> pc' = "dead") /\ clk' <= now'
        /\ pc' \in Setup => /\ reqs' = << >> /\ sent_count' = 0 /\ recorded' = {} /\ now' = 0
                            /\ batch' = {} /\ cur' = NoGen
        /\ pc' # "connections" /\ ~ PerRequest' => Len(gens') = cfg'.conn_cnt
    BY <1>0, <2>1, <2>3, <2>4, <2>6 DEF Schedule, Setup, PerRequest
  <2> QED
    BY <2>1, <2>6, <2>7, <2>8, <2>9, Zenon DEF Schedule
<1>4. CASE ~ UNCHANGED vars /\ ~ SetupConnections /\ ~ SetupDeadlines
  <2>1. /\ pc \in Points \ Setup /\ pc' \in Points \ Setup
        /\ clk' <= now' /\ (err' # "none" <=> pc' = "dead")
        /\ ~ PerRequest => Len(gens') = Len(gens)
    BY <1>4, Later, Zenon
  <2>2. UNCHANGED <<cfg, deadlines, pre_samples>>
    BY <1>4, ScheduleFrame, Zenon
  <2> QED
    BY <1>0, <2>1, <2>2 DEF Schedule, Setup, PerRequest
<1> QED
  BY <1>1, <1>2, <1>3, <1>4

-----------------------------------------------------------------------------
(* The timer. *)

(* A step that leaves the timer alone and does not start or end its        *)
(* handler, unless it ends the program.                                    *)
LEMMA TimersSame ==
  ASSUME Timers, UNCHANGED <<due, fired, cfg, sent_count, deadlines>>,
         Timer \in batch' <=> Timer \in batch, Running,
         pc' # "wait", pc' \notin Setup,
         (Handling' <=> Handling) \/ pc' \in {"exit", "dead"}
  PROVE  Timers'
<1>1. pc' \in {"exit", "dead"} => ~ Handling' /\ ~ Running'
  BY DEF Handling, Running, Sending
<1>2. (Armed' <=> Armed) /\ (fired' <=> fired) /\ total_samples' = total_samples
  BY Zenon DEF Armed, total_samples
<1>3. CASE pc' \in {"exit", "dead"}
  BY <1>1, <1>2, <1>3, Zenon DEF Timers
<1>4. CASE Handling' <=> Handling
  BY <1>1, <1>2, <1>4, Zenon DEF Timers
<1> QED
  BY <1>3, <1>4

(* Every step keeps one shot of the timer, its event or its handler under  *)
(* way while there are requests to send.                                   *)
LEMMA TimersPreserved ==
  ASSUME IInv, [Next]_vars
  PROVE  Timers'
<1>0. /\ Timers /\ PlainTypes /\ sent_count \in Nat /\ Len(deadlines) \in Nat
      /\ pre_samples \in Nat /\ cfg.samples \in Nat /\ cfg.samples > 0
      /\ fired \in BOOLEAN /\ total_samples = Len(deadlines)
  BY TableSeqs, Numbers, CfgTypes, Zenon DEF IInv
<1>1. CASE UNCHANGED vars
  BY <1>0, <1>1, Zenon DEF Timers, vars, schedvars, countvars, timevars, Armed, Handling,
                           Running, total_samples
<1>2. CASE SetupConnections \/ SetupDeadlines
  <2>1. /\ pc \in Setup /\ UNCHANGED <<due, fired, batch, cfg, sent_count>>
    <3>1. CASE SetupConnections
      BY <3>1 DEF SetupConnections, Setup, basevars, schedvars, timevars, countvars
    <3>2. CASE SetupDeadlines
      BY <3>2 DEF SetupDeadlines, Draw, Setup, timevars, countvars
    <3> QED
      BY <1>2, <3>1, <3>2
  <2>2. ~ Armed /\ ~ fired /\ Timer \notin batch
    BY <1>0, <2>1, Zenon DEF Timers
  <2>3. ~ Armed' /\ ~ fired' /\ Timer \notin batch'
    BY <2>1, <2>2, Zenon DEF Armed
  <2>4. pc' \in Setup \/ (pc' = "wait" /\ cfg.use_busy_timer) \/ (pc' = "clock" /\ ~ cfg.use_busy_timer)
    <3>1. CASE SetupConnections
      BY <3>1 DEF SetupConnections, Setup
    <3>2. CASE SetupDeadlines
      BY <3>2, DrawEffect DEF Setup
    <3> QED
      BY <1>2, <3>1, <3>2
  <2>5. CASE pc' \in Setup
    <3>1. ~ Handling' /\ ~ Running' /\ pc' # "wait"
      BY <2>5 DEF Handling, Running, Sending, Setup
    <3> QED
      BY <2>3, <3>1, Zenon DEF Timers
  <2>6. CASE pc' = "wait" /\ cfg.use_busy_timer
    <3>1. cfg'.use_busy_timer
      BY <2>1, <2>6
    <3> QED
      BY <2>3, <3>1, Zenon DEF Timers
  <2>7. CASE pc' = "clock" /\ ~ cfg.use_busy_timer
    <3>1. Handling' /\ pc' # "wait"
      BY <2>7 DEF Handling
    <3>2. sent_count' < total_samples'
      <4>1. sent_count = 0
        BY <2>1 DEF IInv, Schedule
      <4>2. pre_samples + cfg.samples <= Len(deadlines) /\ UNCHANGED deadlines
        <5>1. SetupDeadlines
          BY <1>2, <2>7 DEF SetupConnections
        <5>2. pc = "cooldown" /\ UNCHANGED deadlines
          BY <2>7, <5>1, DrawEffect
        <5> QED
          BY <5>2 DEF IInv, Schedule
      <4>3. 0 < Len(deadlines)
        BY <1>0, <4>2
      <4> QED
        BY <2>1, <4>1, <4>2, <4>3 DEF total_samples
    <3> QED
      BY <2>3, <3>1, <3>2, Zenon DEF Timers
  <2> QED
    BY <2>4, <2>5, <2>6, <2>7
<1>3. CASE EpollWait
  <2>1. /\ pc = "wait" /\ pc' = "batch" /\ UNCHANGED <<due, cfg, sent_count, deadlines>> /\ fired' = FALSE
        /\ batch' = {g \in DOMAIN gens : HasEvent(g)} \cup (IF fired THEN {Timer} ELSE {})
    BY <1>3, Zenon DEF EpollWait, schedvars, countvars
  <2>2. Timer \in batch' <=> fired
    <3>1. Timer \notin DOMAIN gens
      BY TableSeqs DEF Timer
    <3> QED
      BY <1>0, <2>1, <3>1, Zenon
  <2>3. ~ Handling /\ ~ Handling' /\ Running /\ pc' # "wait" /\ pc' \notin Setup
    BY <2>1 DEF Handling, Sending, Running, Setup
  <2>4. (Armed' <=> Armed) /\ ~ fired' /\ total_samples' = total_samples
    BY <2>1, Zenon DEF Armed, total_samples
  <2>5. Timer \notin batch
    BY <1>0, <2>1, Zenon DEF Timers
  <2> QED
    BY <1>0, <2>1, <2>2, <2>3, <2>4, <2>5, Zenon DEF Timers
<1>4. CASE TimerEvent
  <2>1. /\ pc' = "clock" /\ UNCHANGED <<due, fired, cfg, sent_count, deadlines>> /\ Timer \in batch
        /\ Timer \notin batch'
    BY <1>4, Zenon DEF TimerEvent, basevars, schedvars, countvars, timevars
  <2>2. Handling' /\ pc' # "wait" /\ (Armed' <=> Armed) /\ (fired' <=> fired) /\ total_samples' = total_samples
    BY <2>1 DEF Handling, Armed, total_samples
  <2> QED
    BY <1>0, <2>1, <2>2, Zenon DEF Timers
<1>5. CASE BatchDone
  <2>1. /\ pc = "batch" /\ batch = {} /\ batch' = {} /\ UNCHANGED <<due, fired, cfg, sent_count, deadlines>>
        /\ pc' = IF cfg.use_busy_timer THEN "clock" ELSE "wait"
    BY <1>5 DEF BatchDone, basevars, schedvars, countvars, timevars
  <2>2. Timer \notin batch /\ Timer \notin batch'
    BY <2>1, Zenon
  <2>3. (Armed' <=> Armed) /\ (fired' <=> fired) /\ total_samples' = total_samples /\ Running /\ ~ Handling
    BY <2>1 DEF Armed, total_samples, Running, Handling, Sending
  <2>4. CASE cfg.use_busy_timer
    <3>1. cfg'.use_busy_timer /\ ~ Armed /\ ~ fired
      BY <1>0, <2>1, <2>4, Zenon DEF Timers
    <3> QED
      BY <2>2, <2>3, <3>1, Zenon DEF Timers
  <2>5. CASE ~ cfg.use_busy_timer
    <3>1. pc' = "wait" /\ ~ Handling' /\ pc' \notin Setup
      BY <2>1, <2>5 DEF Handling, Sending, Setup
    <3> QED
      BY <1>0, <2>1, <2>2, <2>3, <2>5, <3>1, Zenon DEF Timers
  <2> QED
    BY <2>4, <2>5
<1>6. CASE TimerArm
  <2>1. /\ pc = "timer" /\ ~ cfg.use_busy_timer /\ pc' = "batch" /\ clk < next_deadline
        /\ UNCHANGED <<fired, batch, cfg, sent_count, deadlines>>
    BY <1>6, Zenon DEF TimerArm, schedvars, countvars
  <2>2. Handling /\ ~ Handling' /\ pc' # "wait" /\ pc' \notin Setup
    BY <2>1 DEF Handling, Sending, Setup
  <2>3. ~ fired /\ Timer \notin batch /\ sent_count < total_samples
    BY <1>0, <2>1, <2>2, Zenon DEF Timers
  <2>4. Armed'
    <3> DEFINE end == now + (next_deadline - clk)
    <3>1. due' = IF end < MaxTime THEN end ELSE MaxTime
      BY <1>6, Zenon DEF TimerArm
    <3>2. end \in Nat
      <4>1. next_deadline \in Nat /\ now \in Nat /\ clk \in Nat
        BY <1>0, <2>3, NextDeadline, Numbers, Zenon
      <4> QED
        BY <2>1, <4>1
    <3> HIDE DEF end
    <3> QED
      BY <3>1, <3>2, SizesAssumption DEF Armed, NotArmed
  <2>5. total_samples' = total_samples
    BY <2>1, Zenon DEF total_samples
  <2> QED
    BY <2>1, <2>2, <2>3, <2>4, <2>5, Zenon DEF Timers
<1>7. CASE BusyDone
  <2>1. /\ cfg.use_busy_timer /\ UNCHANGED <<due, fired, batch, cfg, sent_count, deadlines>>
    BY <1>7, Zenon DEF BusyDone, basevars, schedvars, countvars, timevars
  <2>2. (Armed' <=> Armed) /\ (fired' <=> fired) /\ total_samples' = total_samples
    BY <2>1, Zenon DEF Armed, total_samples
  <2> QED
    BY <1>0, <2>1, <2>2, Zenon DEF Timers
<1>8. CASE ReadClock \/ TryTxDone
  <2>1. /\ UNCHANGED <<due, fired, batch, cfg, sent_count, deadlines>>
        /\ pc \in {"clock", "send_tx"} /\ pc' \in {"timer", "send_rx"}
    <3>1. CASE ReadClock
      BY <3>1 DEF ReadClock, schedvars, countvars, timevars
    <3>2. CASE TryTxDone
      BY <3>2 DEF TryTxDone, basevars, schedvars, countvars, timevars
    <3> QED
      BY <1>8, <3>1, <3>2
  <2>2. Handling /\ Handling' /\ Running /\ pc' # "wait" /\ pc' \notin Setup
    BY <2>1 DEF Handling, Sending, Running, Setup
  <2>3. Timer \in batch' <=> Timer \in batch
    BY <2>1, Zenon
  <2> QED
    BY <1>0, <2>1, <2>2, <2>3, TimersSame, Zenon
<1>9. CASE Tick
  <2>1. UNCHANGED <<due, fired, batch, cfg, sent_count, deadlines, pc>>
    BY <1>9, Zenon DEF Tick, schedvars, countvars
  <2> QED
    BY <1>0, <2>1, Zenon DEF Timers, Armed, Handling, Running, total_samples
<1>10. CASE TimerExpire
  <2>1. /\ Armed /\ ~ Armed' /\ fired' /\ UNCHANGED <<batch, cfg, sent_count, deadlines, pc>>
    BY <1>10 DEF TimerExpire, Armed, schedvars, countvars
  <2>2. (Handling' <=> Handling) /\ (Running' <=> Running) /\ total_samples' = total_samples
    BY <2>1, Zenon DEF Handling, Running, total_samples
  <2> QED
    BY <1>0, <2>1, <2>2, Zenon DEF Timers
<1>11. CASE Flag \/ State \/ RecvBody \/ \E g \in DOMAIN gens : RunIo(g)
  <2>1. UNCHANGED <<due, fired, cfg, sent_count, deadlines>>
    BY <1>11, TableFrame, Zenon DEF timevars, schedvars, countvars
  <2>2. (Timer \in batch' <=> Timer \in batch) /\ (pc' = pc \/ pc' \in {"io_tx", "io_rx"})
        /\ (pc' # pc => pc \in {"io_rx", "batch"}) /\ (pc' = pc => batch' = batch)
    <3>1. CASE Flag \/ RecvBody
      BY <3>1, FlagFrame
    <3>2. CASE State
      BY <3>2, StateFrame
    <3>3. CASE \E g \in DOMAIN gens : RunIo(g)
      <4>1. PICK g \in DOMAIN gens : RunIo(g)
        BY <3>3, Zenon
      <4>2. pc = "batch" /\ pc' = "io_rx" /\ batch' = batch \ {g} /\ g # NoGen
        BY <4>1, IoFrame, RunIoEffect, Zenon
      <4> QED
        BY <4>2 DEF NoGen, Timer
    <3> QED
      BY <1>11, <3>1, <3>2, <3>3
  <2>3. CASE pc' = pc
    BY <1>0, <2>1, <2>2, <2>3, Zenon DEF Timers, Armed, Handling, Running, total_samples
  <2>4. CASE pc' # pc
    <3>1. ~ Handling /\ ~ Handling' /\ Running /\ pc' # "wait" /\ pc' \notin Setup
      BY <2>2, <2>4 DEF Handling, Sending, Running, Setup
    <3> QED
      BY <1>0, <2>1, <2>2, <3>1, TimersSame, Zenon
  <2> QED
    BY <2>3, <2>4
<1>12. CASE Release
  <2>1. /\ UNCHANGED <<due, fired, batch, cfg, deadlines>> /\ pc \in OnStack
    BY <1>12, ReleaseFrame, Zenon DEF timevars, schedvars
  <2>2. total_samples' = total_samples /\ (Armed' <=> Armed) /\ (fired' <=> fired)
        /\ (Timer \in batch' <=> Timer \in batch)
    BY <2>1, Zenon DEF total_samples, Armed
  <2>3. CASE pc \in {"io_rx", "io_tx"}
    <3>1. PutCur("batch") /\ UNCHANGED sent_count
      BY <1>12, <2>3, ReleaseFrame, Zenon
    <3>2. pc' \in {"batch", "dead"}
      BY <3>1 DEF PutCur, Throw
    <3>3. ~ Handling /\ ~ Handling' /\ Running /\ pc' # "wait" /\ pc' \notin Setup
      BY <2>3, <3>2 DEF Handling, Sending, Running, Setup
    <3> QED
      BY <1>0, <2>1, <2>2, <3>1, <3>3, TimersSame, Zenon
  <2>4. CASE pc \notin {"io_rx", "io_tx"}
    <3>1. PutCur(AfterSend) /\ sent_count' = sent_count + 1 /\ pc \in Sending
      BY <1>12, <2>4, ReleaseFrame, Zenon
    <3>2. Handling /\ pc' # "wait"
      BY <3>1 DEF Handling, PutCur, Throw, AfterSend
    <3>3. ~ Armed' /\ ~ fired' /\ Timer \notin batch'
      BY <1>0, <2>2, <3>2, Zenon DEF Timers
    <3>4. CASE cfg.use_busy_timer
      BY <2>1, <3>3, <3>4, Zenon DEF Timers
    <3>5. CASE ~ cfg.use_busy_timer
      <4>1. CASE sent_count + 1 >= total_samples
        <5>1. pc' \in {"batch", "dead"}
          BY <3>1, <3>5, <4>1 DEF PutCur, Throw, AfterSend
        <5>2. ~ Handling' /\ ~ (sent_count' < total_samples')
          BY <1>0, <2>2, <3>1, <4>1, <5>1 DEF Handling, Sending
        <5> QED
          BY <3>2, <3>3, <5>2, Zenon DEF Timers
      <4>2. CASE ~ (sent_count + 1 >= total_samples)
        <5>1. pc' \in {"timer", "dead"}
          BY <3>1, <3>5, <4>2 DEF PutCur, Throw, AfterSend
        <5>2. Handling' \/ ~ Running'
          BY <5>1 DEF Handling, Running
        <5>3. sent_count' < total_samples'
          BY <1>0, <2>2, <3>1, <4>2
        <5> QED
          BY <3>2, <3>3, <5>2, <5>3, Zenon DEF Timers
      <4> QED
        BY <4>1, <4>2
    <3> QED
      BY <3>4, <3>5
  <2> QED
    BY <2>3, <2>4
<1>13. CASE Sample
  <2>1. PICK r, q : Records(r, q)
    BY <1>13, RecvEffect, FakeEffect, Zenon DEF Sample
  <2>2. /\ UNCHANGED <<due, fired, batch, cfg, sent_count, deadlines>> /\ pc \in {"send_rx", "io_rx"}
    BY <2>1, Zenon DEF Records, timevars, schedvars
  <2>3. pc' \in {"exit", pc} \/ (pc = "send_rx" /\ pc' = "send_end")
    BY <1>13, RecvEffect, FakeEffect DEF Sample
  <2>4. ((Handling' <=> Handling) \/ pc' \in {"exit", "dead"}) /\ Running /\ pc' # "wait" /\ pc' \notin Setup
    BY <2>2, <2>3 DEF Handling, Sending, Running, Setup
  <2>5. Timer \in batch' <=> Timer \in batch
    BY <2>2, Zenon
  <2> QED
    BY <1>0, <2>2, <2>4, <2>5, TimersSame, Zenon
<1>14. CASE SendRequest
  <2>1. /\ UNCHANGED <<due, fired, batch, cfg, sent_count, deadlines>> /\ pc = "timer"
    BY <1>14, Zenon DEF SendRequest, timevars, schedvars
  <2>2. pc' \in {"dead", "send_tx"}
    BY <1>14, SendEffect DEF Sends
  <2>3. ((Handling' <=> Handling) \/ pc' \in {"exit", "dead"}) /\ Running /\ pc' # "wait" /\ pc' \notin Setup
    BY <2>1, <2>2 DEF Handling, Sending, Running, Setup
  <2>4. Timer \in batch' <=> Timer \in batch
    BY <2>1, Zenon
  <2> QED
    BY <1>0, <2>1, <2>3, <2>4, TimersSame, Zenon
<1> QED
  BY <1>1, <1>2, <1>3, <1>4, <1>5, <1>6, <1>7, <1>8, <1>9, <1>10, <1>11, <1>12, <1>13, <1>14,
     NextCases, Zenon DEF Quiet

-----------------------------------------------------------------------------
(* Nothing is used after it is deleted. *)

(* The request that send_request appends.                                  *)
LEMMA SendsRequest ==
  ASSUME IInv, NEW g, Sends(g), g \in 1 .. Len(gens')
  PROVE  /\ Len(reqs') = Len(reqs) + 1 /\ DOMAIN reqs' = 1 .. Len(reqs) + 1
         /\ \A i \in 1 .. Len(reqs) : reqs'[i] = reqs[i]
         /\ reqs'[Len(reqs) + 1].conn = g /\ reqs'[Len(reqs) + 1].st = "queued"
         /\ reqs'[Len(reqs) + 1].measure <=> sent_count \in pre_samples .. pre_samples + cfg.samples - 1
<1> DEFINE m == sent_count \in pre_samples .. pre_samples + cfg.samples - 1
           q == [conn |-> g, st |-> "queued", measure |-> m]
<1>1. m \in BOOLEAN
  OBVIOUS
<1>2. reqs' = Append(reqs, q)
  BY Zenon DEF Sends
<1> HIDE DEF m
<1>3. q.conn = g /\ q.st = "queued" /\ q.measure = m
  OBVIOUS
<1> HIDE DEF q
<1>4. reqs \in Seq(ReqType(Len(gens)))
  BY TableSeqs, Zenon
<1>5. /\ Len(reqs') = Len(reqs) + 1 /\ DOMAIN reqs' = 1 .. Len(reqs) + 1
      /\ \A i \in 1 .. Len(reqs) : reqs'[i] = reqs[i]
      /\ reqs'[Len(reqs) + 1] = q
  BY <1>2, <1>4
<1> QED
  BY <1>3, <1>5, Zenon DEF m

(* Every step keeps what is on the stack, or pointed to by an event, live. *)
LEMMA StackPreserved ==
  ASSUME IInv, [Next]_vars
  PROVE  Stack'
<1>0. /\ Stack /\ TableTypes /\ PlainTypes /\ Len(gens) \in Nat /\ Len(reqs) \in Nat /\ cfg' = cfg
      /\ pc \in Points /\ DOMAIN gens = 1 .. Len(gens)
  <2>1. cfg' = cfg
    BY QuietFrame, ScheduleFrame, Zenon DEF Quiet
  <2> QED
    BY <2>1, TableSeqs, Zenon DEF IInv, PlainTypes
<1>1. batch \subseteq 0 .. Len(gens) /\ (cur # NoGen => cur \in 1 .. Len(gens))
  BY <1>0, Tables, Zenon DEF TableTypes
<1>2. CASE SetupConnections \/ SetupDeadlines
  <2>1. pc \in Setup /\ UNCHANGED <<batch, cur>> /\ pc' \notin OnStack /\ pc' \notin Sending
    <3>1. CASE SetupConnections
      BY <3>1 DEF SetupConnections, Setup, OnStack, Sending
    <3>2. CASE SetupDeadlines
      <4>1. UNCHANGED <<batch, cur>>
        BY <3>2 DEF SetupDeadlines, Draw
      <4> QED
        BY <3>2, <4>1, DrawEffect DEF Setup, OnStack, Sending
    <3> QED
      BY <1>2, <3>1, <3>2
  <2>2. batch' = {} /\ cur' = NoGen
    BY <2>1 DEF IInv, Schedule
  <2> QED
    BY <2>1, <2>2, Zenon DEF Stack, NoUseAfterFree
<1>3. CASE EpollWait
  <2>1. /\ pc = "wait" /\ pc' = "batch" /\ UNCHANGED <<gens, cur, reqs>>
        /\ batch' = {g \in DOMAIN gens : HasEvent(g)} \cup (IF fired THEN {Timer} ELSE {})
    BY <1>3, Zenon DEF EpollWait
  <2>2. pc # "exit" /\ pc \notin OnStack /\ pc' \notin OnStack /\ pc' \notin Sending
    BY <2>1 DEF OnStack, Sending
  <2>3. cur' = NoGen
    BY <1>0, <2>1, <2>2, Zenon DEF Stack
  <2>4. \A g \in batch' \ {Timer, NoGen} : gens'[g].live
    BY <2>1, Zenon DEF HasEvent
  <2> QED
    BY <2>2, <2>3, <2>4, Zenon DEF Stack, NoUseAfterFree
<1>4. CASE \/ TimerEvent \/ BatchDone \/ ReadClock \/ TimerArm \/ BusyDone \/ TryTxDone
           \/ Tick \/ TimerExpire \/ UNCHANGED vars
  <2>1. UNCHANGED <<gens, cur, reqs>>
    BY <1>4, QuietFrame, Zenon DEF Quiet
  <2>2. batch' \subseteq batch
    <3>1. CASE TimerEvent \/ BatchDone \/ ReadClock \/ TimerArm \/ BusyDone
      BY <3>1, Zenon DEF TimerEvent, BatchDone, ReadClock, TimerArm, BusyDone
    <3>2. CASE TryTxDone \/ Tick \/ TimerExpire \/ UNCHANGED vars
      BY <3>2, Zenon DEF TryTxDone, Tick, TimerExpire, vars
    <3> QED
      BY <1>4, <3>1, <3>2
  <2>3. /\ (pc' \in OnStack <=> pc \in OnStack) /\ (pc' \in Sending => pc \in Sending)
        /\ (Running' => Running) /\ (pc' = "exit" <=> pc = "exit")
    <3>1. CASE TimerEvent \/ BatchDone \/ ReadClock
      BY <3>1 DEF TimerEvent, BatchDone, ReadClock, OnStack, Sending, Running
    <3>2. CASE TimerArm \/ BusyDone \/ TryTxDone
      BY <3>2 DEF TimerArm, BusyDone, TryTxDone, OnStack, Sending, Running
    <3>3. CASE Tick \/ TimerExpire \/ UNCHANGED vars
      BY <3>3, Zenon DEF Tick, TimerExpire, vars, Running
    <3> QED
      BY <1>4, <3>1, <3>2, <3>3
  <2> QED
    BY <1>0, <2>1, <2>2, <2>3, Zenon DEF Stack, NoUseAfterFree, PerRequest
<1>5. CASE \E g \in DOMAIN gens : RunIo(g)
  <2>1. PICK g \in DOMAIN gens : RunIo(g)
    BY <1>5, Zenon
  <2>2. pc = "batch" /\ pc' = "io_rx" /\ batch' = batch \ {g} /\ cur' = g
    BY <2>1, IoFrame, Zenon
  <2>3. /\ g \in 1 .. Len(gens) /\ gens[g].live /\ g # NoGen
        /\ Touched(g, gens[g].ref + 1, gens[g].live, gens[g].rx)
    BY <2>1, RunIoEffect, Zenon
  <2>4. \A h \in 1 .. Len(gens) : gens'[h].live = gens[h].live
    BY <2>3, Zenon DEF Touched, Edited
  <2>5. Running /\ pc' \in OnStack /\ pc' \notin Sending
    BY <2>2 DEF Running, OnStack, Sending
  <2>6. \A h \in batch \ {Timer, NoGen} : h \in 1 .. Len(gens)
    BY <1>0, <1>1 DEF Timer
  <2> QED
    BY <1>0, <2>2, <2>3, <2>4, <2>5, <2>6, Zenon DEF Stack, NoUseAfterFree
<1>6. CASE Flag \/ RecvBody
  <2>1. PICK g, q : Touched(g, gens[g].ref, gens[g].live, q)
    BY <1>6, FlagEffect, BodyEffect, Zenon DEF Flag
  <2>2. \A h \in 1 .. Len(gens) : gens'[h].live = gens[h].live
    BY <2>1, Zenon DEF Touched, Edited
  <2>3. UNCHANGED <<cur, batch, reqs>> /\ (pc' = pc \/ (pc = "io_rx" /\ pc' = "io_tx"))
    BY <1>6, FlagFrame, Zenon
  <2>4. /\ (pc' \in OnStack <=> pc \in OnStack) /\ (pc' \in Sending => pc \in Sending)
        /\ (Running' => Running) /\ (pc' = "exit" <=> pc = "exit")
    BY <2>3 DEF OnStack, Sending, Running
  <2>5. \A h \in (batch \cup {cur}) \ {Timer, NoGen} : h \in 1 .. Len(gens)
    BY <1>0, <1>1 DEF Timer
  <2> QED
    BY <1>0, <2>2, <2>3, <2>4, <2>5, Zenon DEF Stack, NoUseAfterFree, PerRequest
<1>7. CASE State
  <2>1. UNCHANGED <<gens, pc, cur, batch>>
    BY <1>7, StateFrame, Zenon
  <2>2. PICK r, x : Restated(r, x)
    BY <1>7, StEffect, Zenon DEF State
  <2>3. Len(reqs') = Len(reqs) /\ \A q \in 1 .. Len(reqs) : reqs'[q].conn = reqs[q].conn
    BY <2>2, Zenon DEF Restated
  <2>4. pc \in Sending => Len(reqs) \in 1 .. Len(reqs)
    <3>1. pc \in Sending => Len(reqs) = sent_count + 1
      BY DEF IInv, Progress
    <3>2. sent_count \in Nat
      BY <1>0, Numbers, Zenon
    <3> QED
      BY <1>0, <3>1, <3>2
  <2> QED
    BY <1>0, <2>1, <2>3, <2>4, Zenon DEF Stack, NoUseAfterFree, PerRequest, Running
<1>8. CASE Release
  <2>1. PICK next \in {"batch", AfterSend} : PutCur(next)
    BY <1>8, ReleaseFrame, Zenon
  <2>2. pc \in OnStack /\ UNCHANGED <<batch, reqs>>
    BY <1>8, ReleaseFrame, Zenon
  <2>3. cur' = NoGen /\ Touched(cur, gens[cur].ref - 1, gens[cur].ref # 1, gens[cur].rx)
    BY <2>1, <2>2, PutEffect, Zenon
  <2>4. pc' \notin OnStack /\ pc' \notin Sending
    <3>1. next \in {"batch", "timer"}
      BY <2>1 DEF AfterSend
    <3> QED
      BY <2>1, <3>1 DEF PutCur, Throw, OnStack, Sending
  <2>5. ASSUME NEW h \in batch \ {Timer, NoGen} PROVE gens'[h].live
    <3>1. h \in 1 .. Len(gens) /\ gens[h].live
      <4>1. h \in 1 .. Len(gens)
        BY <1>0, <1>1 DEF Timer
      <4>2. Running
        BY <2>2 DEF Running, OnStack, Sending
      <4> QED
        BY <1>0, <4>1, <4>2, Zenon DEF Stack, NoUseAfterFree
    <3>2. CASE h # cur
      BY <2>3, <3>1, <3>2, Zenon DEF Touched, Edited
    <3>3. CASE h = cur
      <4>1. ~ PerRequest
        BY <1>0, <3>3, Zenon DEF Stack
      <4>2. gens[cur].ref = Cardinality(Outstanding(cur)) + 1 + Extra /\ Cardinality(Outstanding(cur)) \in Nat
        BY <2>2, OnStackCount, Zenon
      <4>3. gens[cur].ref # 1
        BY <4>1, <4>2 DEF Extra
      <4> QED
        BY <2>3, <3>3, <4>3, Zenon DEF Touched, Edited
    <3> QED
      BY <3>2, <3>3
  <2> QED
    BY <2>2, <2>3, <2>4, <2>5, Zenon DEF Stack, NoUseAfterFree
<1>9. CASE Sample
  <2>1. PICK r, q : Records(r, q)
    BY <1>9, RecvEffect, FakeEffect, Zenon DEF Sample
  <2>2. /\ UNCHANGED <<cur, batch, reqs>> /\ pc \in {"send_rx", "io_rx"}
        /\ cur \in 1 .. Len(gens) /\ gens[cur].ref >= 2
        /\ gens'[cur].live = (gens[cur].ref # 1)
        /\ \A h \in 1 .. Len(gens) : h # cur => gens'[h] = gens[h]
    BY <2>1, Zenon DEF Records, Touched, Edited
  <2>3. pc' \in {"exit", pc} \/ (pc = "send_rx" /\ pc' = "send_end")
    BY <1>9, RecvEffect, FakeEffect DEF Sample
  <2>4. gens[cur].ref # 1
    <3>1. gens[cur].ref \in Nat
      BY <1>0, <2>2, Tables, Zenon
    <3> QED
      BY <2>2, <3>1
  <2>5. pc \in OnStack /\ Running /\ (pc' # "exit" => pc' \in OnStack) /\ (pc' \in Sending => pc \in Sending)
    BY <2>2, <2>3 DEF OnStack, Sending, Running
  <2>6. \A h \in (batch \cup {cur}) \ {Timer, NoGen} : h \in 1 .. Len(gens)
    BY <1>0, <1>1 DEF Timer
  <2>7. cur # NoGen
    BY <1>0, <2>2 DEF NoGen
  <2> QED
    BY <1>0, <2>2, <2>4, <2>5, <2>6, <2>7, Zenon DEF Stack, NoUseAfterFree, PerRequest
<1>10. CASE SendRequest
  <2>1. pc = "timer" /\ UNCHANGED batch
    BY <1>10, Zenon DEF SendRequest
  <2>2. pc # "exit" /\ pc \notin OnStack /\ Running
    BY <2>1 DEF OnStack, Sending, Running
  <2>3. cur = NoGen
    BY <1>0, <2>2, Zenon DEF Stack
  <2>4. CASE pc' = "dead" /\ UNCHANGED <<cur, reqs>>
    <3>1. pc' \notin OnStack /\ pc' \notin Sending /\ ~ Running'
      BY <2>4 DEF OnStack, Sending, Running
    <3> QED
      BY <2>3, <2>4, <3>1, Zenon DEF Stack, NoUseAfterFree
  <2>5. CASE \E g \in Nat : Sends(g)
    <3>1. PICK g \in Nat : Sends(g)
      BY <2>5, Zenon
    <3>2. /\ g \in 1 .. Len(gens') /\ gens'[g].live /\ cur' = g /\ pc' = "send_tx"
          /\ \A h \in 1 .. Len(gens) : h # g => gens'[h] = gens[h]
      BY <3>1, Zenon DEF Sends
    <3>3. g # NoGen /\ (PerRequest => g \notin batch)
      BY <1>0, <1>1, <3>1, <3>2 DEF Sends, NoGen
    <3>4. reqs'[Len(reqs')].conn = g
      BY <3>1, <3>2, SendsRequest, Zenon
    <3>5. pc' \in OnStack
      BY <3>2 DEF OnStack, Sending
    <3>6. \A h \in batch \ {Timer, NoGen} : h \in 1 .. Len(gens)
      BY <1>0, <1>1 DEF Timer
    <3>7. ASSUME NEW h \in (batch' \cup {cur'}) \ {Timer, NoGen} PROVE gens'[h].live
      <4>1. CASE h = g
        BY <3>2, <4>1
      <4>2. CASE h # g
        BY <1>0, <2>1, <2>2, <3>2, <3>6, <3>7, <4>2, Zenon DEF Stack, NoUseAfterFree
      <4> QED
        BY <4>1, <4>2
    <3> QED
      BY <1>0, <2>1, <3>2, <3>3, <3>4, <3>5, <3>7, Zenon DEF Stack, NoUseAfterFree, PerRequest
  <2> QED
    BY <1>10, <2>4, <2>5, SendEffect, Zenon
<1> QED
  BY <1>2, <1>3, <1>4, <1>5, <1>6, <1>7, <1>8, <1>9, <1>10, NextCases, Zenon DEF Quiet

-----------------------------------------------------------------------------
(* The queues of outstanding requests. *)

(* Queue q of generator g, with the requests rs of which those in R have a *)
(* sample.                                                                 *)
Filed(g, q, rs, R) ==
  /\ \A i \in 1 .. Len(q) :
       /\ rs[q[i].id].conn = g
       /\ q[i].parsed => i = 1 /\ cfg.protocol = "MEMCACHE"
       /\ ~ cfg.send_only /\ ~ q[i].parsed => q[i].id \notin R
  /\ \A i, j \in 1 .. Len(q) : i < j => q[i].id < q[j].id

(* Every queue is filed.                                                   *)
LEMMA QueuesFiled ==
  /\ Queues <=> \A g \in 1 .. Len(gens) : Filed(g, gens[g].rx, reqs, recorded)
  /\ cfg' = cfg =>
       (Queues' <=> \A g \in 1 .. Len(gens') : Filed(g, gens'[g].rx, reqs', recorded'))
<1>1. Queues <=> \A g \in 1 .. Len(gens) : Filed(g, gens[g].rx, reqs, recorded)
  BY Zenon DEF Queues, Filed
<1>2. ASSUME cfg' = cfg
      PROVE  Queues' <=> \A g \in 1 .. Len(gens') : Filed(g, gens'[g].rx, reqs', recorded')
  <2>1. cfg.protocol' = cfg.protocol /\ cfg.send_only' = cfg.send_only
    BY <1>2, Zenon
  <2>2. ASSUME Queues', NEW g \in 1 .. Len(gens')
        PROVE  Filed(g, gens'[g].rx, reqs', recorded')
    BY <2>1, <2>2, Zenon DEF Queues, Filed
  <2>3. ASSUME \A g \in 1 .. Len(gens') : Filed(g, gens'[g].rx, reqs', recorded')
        PROVE  Queues'
    BY <2>1, <2>3, Zenon DEF Queues, Filed
  <2> QED
    BY <2>2, <2>3, Zenon
<1> QED
  BY <1>1, <1>2, Zenon

(* A queue stays filed when its requests keep their generator and get no   *)
(* sample.                                                                 *)
LEMMA FiledSame ==
  ASSUME NEW n \in Nat, NEW q \in Seq([id : 1 .. n, parsed : BOOLEAN]), NEW g, NEW rs, NEW R,
         NEW ts, NEW S, Filed(g, q, rs, R),
         \A i \in 1 .. n : ts[i].conn = rs[i].conn,
         \A i \in 1 .. n : rs[i].conn = g /\ i \in S => i \in R
  PROVE  Filed(g, q, ts, S)
<1>1. \A i \in 1 .. Len(q) : q[i].id \in 1 .. n
  <2>1. \A i \in 1 .. Len(q) : q[i] \in [id : 1 .. n, parsed : BOOLEAN]
    BY ElementOfSeq, Zenon
  <2> QED
    BY <2>1, Zenon
<1> QED
  BY <1>1, Zenon DEF Filed

(* The oldest request of a queue is handled.                               *)
LEMMA FiledTail ==
  ASSUME NEW n \in Nat, NEW q \in Seq([id : 1 .. n, parsed : BOOLEAN]), q # << >>, NEW g,
         NEW rs, NEW R, NEW S, Filed(g, q, rs, R), S \subseteq R \cup {q[1].id}
  PROVE  Filed(g, Tail(q), rs, S)
<1>1. /\ Len(Tail(q)) = Len(q) - 1 /\ Len(q) \in Nat /\ Len(q) >= 1
      /\ \A i \in 1 .. Len(q) - 1 : Tail(q)[i] = q[i + 1]
  BY TailSeq, Zenon
<1>2. \A i \in 1 .. Len(q) - 1 : i + 1 \in 1 .. Len(q) /\ 1 \in 1 .. Len(q) /\ i + 1 # 1 /\ 1 < i + 1
  BY <1>1
<1>3. \A i, j \in 1 .. Len(q) - 1 : i < j => i + 1 < j + 1
  BY <1>1
<1>4. \A i \in 1 .. Len(q) : q[i].id \in 1 .. n
  <2>1. \A i \in 1 .. Len(q) : q[i] \in [id : 1 .. n, parsed : BOOLEAN]
    BY ElementOfSeq, Zenon
  <2> QED
    BY <2>1, Zenon
<1>5. ASSUME NEW i \in 1 .. Len(q) - 1
      PROVE  /\ rs[Tail(q)[i].id].conn = g /\ ~ Tail(q)[i].parsed
             /\ ~ cfg.send_only => Tail(q)[i].id \notin S
  <2>1. i + 1 \in 1 .. Len(q) /\ 1 \in 1 .. Len(q) /\ i + 1 # 1 /\ 1 < i + 1 /\ Tail(q)[i] = q[i + 1]
    BY <1>1, <1>2, Zenon
  <2>2. /\ rs[q[i + 1].id].conn = g /\ ~ q[i + 1].parsed
        /\ ~ cfg.send_only => q[i + 1].id \notin R
        /\ q[1].id < q[i + 1].id
    BY <2>1, Zenon DEF Filed
  <2>3. q[1].id # q[i + 1].id
    <3>1. q[1].id \in 1 .. n /\ q[i + 1].id \in 1 .. n
      BY <1>4, <2>1, Zenon
    <3> QED
      BY <2>2, <3>1
  <2> QED
    BY <2>1, <2>2, <2>3, Zenon
<1>6. ASSUME NEW i \in 1 .. Len(q) - 1, NEW j \in 1 .. Len(q) - 1, i < j
      PROVE  Tail(q)[i].id < Tail(q)[j].id
  BY <1>1, <1>2, <1>3, <1>6, Zenon DEF Filed
<1> QED
  BY <1>1, <1>5, <1>6, Zenon DEF Filed

(* The header of the oldest request is handled and its body is not there.  *)
LEMMA FiledParsed ==
  ASSUME NEW n \in Nat, NEW q \in Seq([id : 1 .. n, parsed : BOOLEAN]), q # << >>, NEW g,
         NEW rs, NEW R, NEW t, Filed(g, q, rs, R), cfg.protocol = "MEMCACHE",
         Len(t) = Len(q), t[1].id = q[1].id, t[1].parsed,
         \A i \in 1 .. Len(q) : i # 1 => t[i] = q[i]
  PROVE  Filed(g, t, rs, R \cup {q[1].id})
<1>1. Len(q) \in Nat /\ Len(q) >= 1
  BY TailSeq, Zenon
<1>2. 1 \in 1 .. Len(q) /\ \A i \in 1 .. Len(q) : i # 1 => 1 < i
  BY <1>1
<1>3. \A i \in 1 .. Len(q) : t[i].id = q[i].id /\ q[i].id \in 1 .. n
  <2>1. \A i \in 1 .. Len(q) : q[i] \in [id : 1 .. n, parsed : BOOLEAN]
    BY ElementOfSeq, Zenon
  <2> QED
    BY <2>1, Zenon
<1>4. ASSUME NEW i \in 1 .. Len(q), i # 1
      PROVE  q[i].id # q[1].id
  <2>1. q[1].id < q[i].id /\ q[1].id \in 1 .. n /\ q[i].id \in 1 .. n
    BY <1>2, <1>3, <1>4, Zenon DEF Filed
  <2> QED
    BY <2>1
<1>5. ASSUME NEW i \in 1 .. Len(q)
      PROVE  /\ rs[t[i].id].conn = g
             /\ t[i].parsed => i = 1 /\ cfg.protocol = "MEMCACHE"
             /\ ~ cfg.send_only /\ ~ t[i].parsed => t[i].id \notin R \cup {q[1].id}
  BY <1>3, <1>4, Zenon DEF Filed
<1> QED
  BY <1>3, <1>5, Zenon DEF Filed

(* A request is appended, with a number above all others.                  *)
LEMMA FiledAppend ==
  ASSUME NEW n \in Nat, NEW q \in Seq([id : 1 .. n, parsed : BOOLEAN]), NEW g, NEW rs, NEW R,
         Filed(g, q, rs, R), rs[n + 1].conn = g, R \subseteq 1 .. n
  PROVE  Filed(g, Append(q, [id |-> n + 1, parsed |-> FALSE]), rs, R)
<1> DEFINE T == [id : 1 .. n + 1, parsed : BOOLEAN]
           e == [id |-> n + 1, parsed |-> FALSE]
           t == Append(q, e)
<1>1. q \in Seq(T)
  <2>1. [id : 1 .. n, parsed : BOOLEAN] \subseteq T
    OBVIOUS
  <2> QED
    BY <2>1, SeqMonotone, Zenon
<1>2. e \in T /\ e.id = n + 1 /\ e.parsed = FALSE
  OBVIOUS
<1> HIDE DEF e, T
<1>3. /\ Len(t) = Len(q) + 1 /\ t[Len(q) + 1] = e /\ \A i \in 1 .. Len(q) : t[i] = q[i]
  BY <1>1, <1>2, AppendSeq
<1> HIDE DEF t
<1>4. Len(q) \in Nat
  BY LenProperties, Zenon
<1>5. \A i \in 1 .. Len(t) : i \in 1 .. Len(q) \/ i = Len(q) + 1
  BY <1>3, <1>4
<1>6. n + 1 \notin R
  OBVIOUS
<1>7. \A i \in 1 .. Len(q) : q[i].id \in 1 .. n
  <2>1. \A i \in 1 .. Len(q) : q[i] \in [id : 1 .. n, parsed : BOOLEAN]
    BY ElementOfSeq, Zenon
  <2> QED
    BY <2>1, Zenon
<1>8. ASSUME NEW i \in 1 .. Len(t)
      PROVE  /\ rs[t[i].id].conn = g
             /\ t[i].parsed => i = 1 /\ cfg.protocol = "MEMCACHE"
             /\ ~ cfg.send_only /\ ~ t[i].parsed => t[i].id \notin R
  BY <1>2, <1>3, <1>5, <1>6, Zenon DEF Filed
<1>9. ASSUME NEW i \in 1 .. Len(t), NEW j \in 1 .. Len(t), i < j
      PROVE  t[i].id < t[j].id
  <2>1. i \in 1 .. Len(q)
    BY <1>3, <1>4, <1>9
  <2>2. CASE j \in 1 .. Len(q)
    BY <1>3, <1>9, <2>1, <2>2, Zenon DEF Filed
  <2>3. CASE j = Len(q) + 1
    <3>1. t[j].id = n + 1 /\ t[i].id \in 1 .. n
      BY <1>2, <1>3, <1>7, <2>1, <2>3, Zenon
    <3> QED
      BY <3>1
  <2> QED
    BY <1>5, <2>2, <2>3
<1> QED
  BY <1>8, <1>9, Zenon DEF Filed, t, e

(* The queues stay filed: whatever is received belongs to the oldest       *)
(* request of its generator.                                               *)
LEMMA QueuesPreserved ==
  ASSUME IInv, [Next]_vars
  PROVE  Queues'
<1> DEFINE Type == [id : 1 .. Len(reqs), parsed : BOOLEAN]
<1>0. cfg' = cfg
  BY QuietFrame, ScheduleFrame, Zenon DEF Quiet
<1>1. \A g \in 1 .. Len(gens) : Filed(g, gens[g].rx, reqs, recorded) /\ gens[g].rx \in Seq(Type)
  BY QueuesFiled, TableSeqs, Tables, Zenon DEF IInv
<1> HIDE DEF Type
<1>2. SUFFICES ASSUME NEW h \in 1 .. Len(gens')
               PROVE  Filed(h, gens'[h].rx, reqs', recorded')
  BY <1>0, QueuesFiled, Zenon
<1>3. CASE Quiet
  <2>1. UNCHANGED <<gens, reqs, recorded>>
    BY <1>3, QuietFrame, Zenon
  <2> QED
    BY <1>1, <2>1, Zenon
<1>4. CASE SetupConnections
  <2>1. gens' = IF PerRequest THEN << >> ELSE [i \in 1 .. cfg.conn_cnt |-> NewGen]
    BY <1>4 DEF SetupConnections, PerRequest
  <2>2. cfg.conn_cnt \in Nat
    BY TableSeqs, CfgTypes, Zenon
  <2>3. gens'[h] = NewGen
    BY <2>1, <2>2
  <2>4. gens'[h].rx = << >>
    BY <2>3 DEF NewGen
  <2> QED
    BY <2>4 DEF Filed
<1>5. ASSUME NEW g, NEW k, NEW l, Touched(g, k, l, gens[g].rx), UNCHANGED <<reqs, recorded>>
      PROVE  Filed(h, gens'[h].rx, reqs', recorded')
  <2>1. /\ Len(gens') = Len(gens) /\ gens'[g].rx = gens[g].rx
        /\ \A i \in 1 .. Len(gens) : i # g => gens'[i] = gens[i]
    BY <1>5, Zenon DEF Touched, Edited
  <2>2. gens'[h].rx = gens[h].rx /\ h \in 1 .. Len(gens)
    BY <2>1, Zenon
  <2> QED
    BY <1>1, <1>5, <2>2, Zenon
<1>6. CASE \E g \in DOMAIN gens : RunIo(g)
  <2>1. PICK g \in DOMAIN gens : RunIo(g)
    BY <1>6, Zenon
  <2>2. UNCHANGED <<reqs, recorded>>
    BY <1>6, <2>1, IoFrame, TableFrame DEF countvars
  <2> QED
    BY <1>5, <2>1, <2>2, RunIoEffect, Zenon
<1>7. CASE Flag
  <2>1. UNCHANGED <<reqs, recorded>>
    BY <1>7, FlagFrame, TableFrame DEF countvars
  <2> QED
    BY <1>5, <1>7, <2>1, FlagEffect, Zenon DEF Flag
<1>8. CASE State
  <2>1. UNCHANGED <<gens, recorded>>
    BY <1>8, StateFrame, TableFrame DEF countvars
  <2>2. PICK r, x : Restated(r, x)
    BY <1>8, StEffect, Zenon DEF State
  <2>3. \A i \in 1 .. Len(reqs) : reqs'[i].conn = reqs[i].conn
    BY <2>2, Zenon DEF Restated
  <2>4. h \in 1 .. Len(gens) /\ Len(reqs) \in Nat /\ gens'[h].rx = gens[h].rx
    BY <2>1, TableSeqs, Zenon
  <2> QED
    BY <1>1, <2>1, <2>3, <2>4, FiledSame, ZenonT(40) DEF Type
<1>9. CASE Release
  <2>1. PICK next : PutCur(next)
    BY <1>9, ReleaseFrame, Zenon
  <2>2. pc \in OnStack /\ UNCHANGED <<reqs, recorded>>
    BY <1>9, ReleaseFrame, Zenon
  <2> QED
    BY <1>5, <2>1, <2>2, PutEffect, Zenon
<1>10. CASE RecvBody
  <2>1. UNCHANGED <<reqs, recorded>>
    BY <1>10, FlagFrame, TableFrame DEF countvars
  <2>2. /\ cur \in 1 .. Len(gens) /\ gens[cur].rx # << >>
        /\ Touched(cur, gens[cur].ref, gens[cur].live, Tail(gens[cur].rx))
    BY <1>10, BodyEffect, Zenon
  <2>3. /\ Len(gens') = Len(gens) /\ gens'[cur].rx = Tail(gens[cur].rx)
        /\ \A i \in 1 .. Len(gens) : i # cur => gens'[i] = gens[i]
    BY <2>2, Zenon DEF Touched, Edited
  <2>4. Len(reqs) \in Nat /\ recorded \subseteq recorded \cup {gens[cur].rx[1].id}
    BY TableSeqs, Zenon
  <2>5. CASE h = cur
    <3>1. Filed(cur, Tail(gens[cur].rx), reqs, recorded)
      BY <1>1, <2>2, <2>4, FiledTail, Zenon DEF Type
    <3> QED
      BY <2>1, <2>3, <2>5, <3>1, Zenon
  <2>6. CASE h # cur
    BY <1>1, <2>1, <2>3, <2>6, Zenon
  <2> QED
    BY <2>5, <2>6
<1>11. ASSUME NEW r, NEW q, Records(r, q), h # cur
       PROVE  Filed(h, gens'[h].rx, reqs', recorded')
  <2>1. /\ r \in 1 .. Len(reqs) /\ reqs[r].conn = cur /\ recorded' = recorded \cup {r}
        /\ UNCHANGED reqs /\ Len(gens') = Len(gens)
        /\ \A i \in 1 .. Len(gens) : i # cur => gens'[i] = gens[i]
    BY <1>11, Zenon DEF Records, Touched, Edited
  <2>2. h \in 1 .. Len(gens) /\ gens'[h].rx = gens[h].rx /\ Len(reqs) \in Nat
    BY <1>11, <2>1, TableSeqs, Zenon
  <2>3. \A i \in 1 .. Len(reqs) : reqs[i].conn = h /\ i \in recorded' => i \in recorded
    BY <1>11, <2>1, Zenon
  <2>4. \A i \in 1 .. Len(reqs) : reqs'[i].conn = reqs[i].conn
    BY <2>1, Zenon
  <2>5. Filed(h, gens[h].rx, reqs', recorded')
    BY <1>1, <2>2, <2>3, <2>4, FiledSame, ZenonT(40) DEF Type
  <2> QED
    BY <2>2, <2>5, Zenon
<1>12. CASE RecvResponse
  <2> DEFINE rx == gens[cur].rx
             r  == rx[1].id
             q  == AfterHeader(rx, reqs[r].st)
  <2>1. /\ cur \in 1 .. Len(gens) /\ rx # << >> /\ r \in 1 .. Len(reqs)
        /\ reqs[r].st \in {"header", "whole"} /\ rx \in Seq(Type) /\ Records(r, q)
    BY <1>12, HeadFacts, RecvEffect, Zenon DEF Type
  <2>2. gens'[cur].rx = q /\ recorded' = recorded \cup {r} /\ UNCHANGED reqs
    BY <2>1, Zenon DEF Records, Touched, Edited
  <2>3. Filed(cur, rx, reqs, recorded) /\ Len(reqs) \in Nat
    BY <1>1, <2>1, TableSeqs, Zenon
  <2>4. Filed(cur, q, reqs, recorded')
    <3>1. CASE reqs[r].st = "whole"
      <4>1. q = Tail(rx)
        BY <2>1, <3>1, AfterHeaderFacts, Zenon DEF Type
      <4>2. recorded' \subseteq recorded \cup {r}
        BY <2>2, Zenon
      <4>3. Filed(cur, Tail(rx), reqs, recorded')
        BY <2>1, <2>3, <4>2, FiledTail, Zenon DEF Type
      <4> QED
        BY <4>1, <4>3, Zenon
    <3>2. CASE reqs[r].st # "whole"
      <4>1. /\ Len(q) = Len(rx) /\ q[1].id = rx[1].id /\ q[1].parsed
            /\ \A i \in 1 .. Len(rx) : i # 1 => q[i] = rx[i]
        BY <2>1, <3>2, AfterHeaderFacts, Zenon DEF Type
      <4>2. cfg.protocol = "MEMCACHE"
        <5>1. cfg.protocol = "SYNTHETIC" => reqs[r].st # "header"
          BY <2>1, Zenon DEF IInv, Answers
        <5>2. cfg.protocol \in {"SYNTHETIC", "MEMCACHE"}
          BY TableSeqs, CfgTypes, Zenon
        <5> QED
          BY <2>1, <3>2, <5>1, <5>2, Zenon
      <4> HIDE DEF q
      <4>3. Filed(cur, q, reqs, recorded \cup {r})
        BY <2>1, <2>3, <4>1, <4>2, FiledParsed, Zenon DEF Type
      <4> QED
        BY <2>2, <4>3, Zenon
    <3> QED
      BY <3>1, <3>2
  <2>5. CASE h = cur
    BY <2>2, <2>4, <2>5, Zenon
  <2> QED
    BY <1>11, <2>1, <2>5
<1>13. CASE FakeResponse
  <2>1. Records(Len(reqs), gens[cur].rx) /\ cfg.send_only
    BY <1>13, FakeEffect, Zenon
  <2>2. cur \in 1 .. Len(gens) /\ gens'[cur].rx = gens[cur].rx /\ UNCHANGED reqs
    BY <2>1, Zenon DEF Records, Touched, Edited
  <2>3. CASE h = cur
    <3>1. Filed(cur, gens[cur].rx, reqs, recorded)
      BY <1>1, <2>2, Zenon
    <3> DEFINE q == gens[cur].rx
    <3> HIDE DEF q
    <3>2. Filed(cur, q, reqs, recorded')
      BY <2>1, <3>1, Zenon DEF Filed, q
    <3> QED
      BY <2>2, <2>3, <3>2, Zenon DEF q
  <2> QED
    BY <1>11, <2>1, <2>3
<1>14. ASSUME NEW i \in 1 .. Len(gens), UNCHANGED recorded,
              \A j \in 1 .. Len(reqs) : reqs'[j].conn = reqs[j].conn
       PROVE  Filed(i, gens[i].rx, reqs', recorded)
  <2>1. Filed(i, gens[i].rx, reqs, recorded) /\ gens[i].rx \in Seq(Type)
    BY <1>1, Zenon
  <2>2. Len(reqs) \in Nat
    BY TableSeqs, Zenon
  <2>3. Filed(i, gens[i].rx, reqs', recorded)
    BY <1>14, <2>1, <2>2, FiledSame DEF Type
  <2> QED
    BY <2>3
<1>15. CASE SendRequest
  <2>1. UNCHANGED recorded
    BY <1>15, Zenon DEF SendRequest
  <2>2. CASE UNCHANGED reqs /\ \E g \in 1 .. Len(gens) :
               Touched(g, gens[g].ref + 1, gens[g].live, gens[g].rx)
    BY <1>5, <2>1, <2>2, Zenon
  <2>3. CASE \E g \in Nat : Sends(g)
    <3>1. PICK g \in Nat : Sends(g)
      BY <2>3
    <3> DEFINE n == Len(reqs)
               e == [id |-> n + 1, parsed |-> FALSE]
    <3>2. g \in 1 .. Len(gens') /\ \A i \in 1 .. Len(gens) : i # g => gens'[i] = gens[i]
      BY <3>1, Zenon DEF Sends
    <3>3. reqs'[n + 1].conn = g /\ \A i \in 1 .. n : reqs'[i] = reqs[i]
      BY <3>1, <3>2, SendsRequest, Zenon
    <3>4. \A i \in 1 .. n : reqs'[i].conn = reqs[i].conn
      BY <3>3, Zenon
    <3>5. n \in Nat /\ recorded \subseteq 1 .. n /\ Len(gens) \in Nat
      BY TableSeqs, Zenon DEF TableTypes
    <3>6. \A i \in 1 .. Len(gens) : Filed(i, gens[i].rx, reqs', recorded)
      BY <2>1, <3>4, <1>14, Zenon
    <3>7. CASE h # g
      <4>1. h \in 1 .. Len(gens)
        BY <3>1, <3>2, <3>5, <3>7 DEF Sends
      <4> QED
        BY <2>1, <3>2, <3>6, <3>7, <4>1, Zenon
    <3>8. CASE h = g
      <4>1. CASE PerRequest
        <5>1. gens'[g].rx = Append(<< >>, e)
          BY <3>1, <4>1, Zenon DEF Sends
        <5>2. << >> \in Seq([id : 1 .. n, parsed : BOOLEAN]) /\ Filed(g, << >>, reqs', recorded)
          BY DEF Filed
        <5> HIDE DEF n
        <5>3. Filed(g, Append(<< >>, e), reqs', recorded)
          BY <3>3, <3>5, <5>2, FiledAppend, Zenon
        <5> QED
          BY <2>1, <3>8, <5>1, <5>3, Zenon
      <4>2. CASE ~ PerRequest
        <5>1. gens'[g].rx = Append(gens[g].rx, e) /\ g \in 1 .. Len(gens)
          BY <3>1, <4>2, Zenon DEF Sends
        <5>2. Filed(g, gens[g].rx, reqs', recorded) /\ gens[g].rx \in Seq(Type)
          BY <1>1, <3>6, <5>1, Zenon
        <5>3. Filed(g, Append(gens[g].rx, e), reqs', recorded)
          BY <3>3, <3>5, <5>2, FiledAppend, Zenon DEF Type
        <5> QED
          BY <2>1, <3>8, <5>1, <5>3, Zenon
      <4> QED
        BY <4>1, <4>2
    <3> QED
      BY <3>7, <3>8
  <2> QED
    BY <1>15, <2>2, <2>3, SendEffect, Zenon
<1> QED
  BY <1>3, <1>4, <1>6, <1>7, <1>8, <1>9, <1>10, <1>12, <1>13, <1>15, NextCases, Zenon DEF Sample

-----------------------------------------------------------------------------
(* The server's answers, and the deletion of generators. *)

(* A sample is recorded only for a request that has been answered, or in   *)
(* send_only mode for the one just sent.                                   *)
LEMMA AnswersPreserved ==
  ASSUME IInv, [Next]_vars
  PROVE  Answers'
<1>0. cfg' = cfg /\ Answers /\ Len(reqs) \in Nat /\ recorded \subseteq 1 .. Len(reqs) /\ pc \in Points
  <2>1. cfg' = cfg
    BY QuietFrame, ScheduleFrame, Zenon DEF Quiet
  <2> QED
    BY <2>1, TableSeqs, Zenon DEF IInv, TableTypes, PlainTypes
<1>1. ASSUME UNCHANGED <<reqs, recorded>>, pc' \in {"send_tx", "send_rx"} => pc \in {"send_tx", "send_rx"}
      PROVE  Answers'
  BY <1>0, <1>1, Zenon DEF Answers
<1>2. CASE Quiet
  <2>1. UNCHANGED <<reqs, recorded>>
    BY <1>2, QuietFrame, Zenon
  <2>2. pc' \in {"send_tx", "send_rx"} => pc \in {"send_tx", "send_rx"}
    <3>1. CASE SetupDeadlines
      BY <3>1, DrawEffect
    <3>2. CASE EpollWait \/ TimerEvent \/ BatchDone \/ ReadClock \/ TimerArm \/ BusyDone \/ TryTxDone
      BY <3>2 DEF EpollWait, TimerEvent, BatchDone, ReadClock, TimerArm, BusyDone, TryTxDone
    <3>3. CASE Tick \/ TimerExpire \/ UNCHANGED vars
      BY <3>3 DEF Tick, TimerExpire, vars
    <3> QED
      BY <1>2, <3>1, <3>2, <3>3 DEF Quiet
  <2> QED
    BY <1>1, <2>1, <2>2
<1>3. CASE SetupConnections
  <2>1. UNCHANGED <<reqs, recorded>> /\ pc' = "warmup"
    BY <1>3 DEF SetupConnections, basevars, countvars
  <2> QED
    BY <1>1, <2>1
<1>4. CASE \E g \in DOMAIN gens : RunIo(g)
  <2>1. UNCHANGED <<reqs, recorded>> /\ pc' = "io_rx"
    BY <1>4, IoFrame, TableFrame DEF countvars
  <2> QED
    BY <1>1, <2>1
<1>5. CASE Flag \/ RecvBody
  <2>1. UNCHANGED <<reqs, recorded>> /\ (pc' = pc \/ pc' = "io_tx")
    BY <1>5, FlagFrame, TableFrame DEF countvars
  <2> QED
    BY <1>1, <2>1
<1>6. CASE State
  <2>1. UNCHANGED <<recorded, pc>>
    BY <1>6, StateFrame, TableFrame DEF countvars
  <2>2. PICK r \in 1 .. Len(reqs), x \in {"wire", "header", "whole"} :
           /\ Restated(r, x)
           /\ reqs[r].st \in {"header", "whole"} => x \in {"header", "whole"}
           /\ cfg.send_only => x = "wire"
           /\ x = "header" => cfg.protocol = "MEMCACHE"
    BY <1>6, StEffect, Zenon DEF State
  <2>3. /\ Len(reqs') = Len(reqs) /\ reqs'[r].st = x
        /\ \A q \in 1 .. Len(reqs) : q # r => reqs'[q].st = reqs[q].st
    BY <2>2, Zenon DEF Restated
  <2>4. ASSUME NEW q \in 1 .. Len(reqs)
        PROVE  /\ cfg.send_only => reqs'[q].st \in {"queued", "wire"}
               /\ cfg.protocol = "SYNTHETIC" => reqs'[q].st # "header"
               /\ ~ cfg.send_only /\ q \in recorded => reqs'[q].st \in {"header", "whole"}
    <3>1. /\ cfg.send_only => reqs[q].st \in {"queued", "wire"}
          /\ cfg.protocol = "SYNTHETIC" => reqs[q].st # "header"
          /\ ~ cfg.send_only /\ q \in recorded => reqs[q].st \in {"header", "whole"}
      BY <1>0, Zenon DEF Answers
    <3>2. CASE q # r
      BY <2>3, <3>1, <3>2, Zenon
    <3>3. CASE q = r
      <4>1. cfg.protocol = "SYNTHETIC" => x # "header"
        BY <2>2
      <4> QED
        BY <2>2, <2>3, <3>1, <3>3, <4>1, Zenon
    <3> QED
      BY <3>2, <3>3
  <2> QED
    BY <1>0, <2>1, <2>3, <2>4, Zenon DEF Answers
<1>7. CASE Release
  <2>1. PICK next \in {"batch", AfterSend} : PutCur(next)
    BY <1>7, ReleaseFrame, Zenon
  <2>2. UNCHANGED <<reqs, recorded>>
    BY <1>7, ReleaseFrame, Zenon
  <2>3. pc' \in {"batch", "timer", "dead"}
    BY <2>1 DEF AfterSend, PutCur, Throw
  <2> QED
    BY <1>1, <2>2, <2>3
<1>8. CASE RecvResponse
  <2> DEFINE r == gens[cur].rx[1].id
  <2>1. r \in 1 .. Len(reqs) /\ reqs[r].st \in {"header", "whole"} /\ ~ cfg.send_only
    BY <1>8, HeadFacts, RecvEffect, Zenon
  <2>2. recorded' = recorded \cup {r} /\ UNCHANGED reqs
    BY <1>8, RecvEffect, Zenon DEF Records
  <2> HIDE DEF r
  <2> QED
    BY <1>0, <2>1, <2>2, Zenon DEF Answers
<1>9. CASE FakeResponse
  <2>1. cfg.send_only /\ pc' \in {"exit", "send_end"} /\ UNCHANGED reqs
    BY <1>9, FakeEffect, Zenon DEF Records
  <2>2. pc' \notin {"send_tx", "send_rx"}
    BY <2>1
  <2> QED
    BY <1>0, <2>1, <2>2, Zenon DEF Answers
<1>10. CASE SendRequest
  <2>1. UNCHANGED recorded
    BY <1>10, Zenon DEF SendRequest
  <2>2. CASE pc' = "dead" /\ UNCHANGED reqs
    BY <1>1, <2>1, <2>2
  <2>3. CASE \E g \in Nat : Sends(g)
    <3>1. PICK g \in Nat : Sends(g)
      BY <2>3
    <3> DEFINE n == Len(reqs)
    <3>2. g \in 1 .. Len(gens')
      BY <3>1, Zenon DEF Sends
    <3>3. /\ Len(reqs') = n + 1 /\ reqs'[n + 1].st = "queued"
          /\ \A i \in 1 .. n : reqs'[i] = reqs[i]
      BY <3>1, <3>2, SendsRequest, Zenon
    <3>4. n + 1 \notin recorded /\ \A i \in 1 .. n + 1 : i \in 1 .. n \/ i = n + 1
      BY <1>0
    <3>5. "queued" \in {"queued", "wire"} /\ "queued" # "header"
      OBVIOUS
    <3>6. ASSUME NEW i \in 1 .. n + 1
          PROVE  /\ cfg.send_only => reqs'[i].st \in {"queued", "wire"}
                 /\ cfg.protocol = "SYNTHETIC" => reqs'[i].st # "header"
                 /\ ~ cfg.send_only /\ i \in recorded => reqs'[i].st \in {"header", "whole"}
      <4>1. CASE i = n + 1
        BY <3>3, <3>4, <3>5, <4>1, Zenon
      <4>2. CASE i \in 1 .. n
        BY <1>0, <3>3, <4>2, Zenon DEF Answers
      <4> QED
        BY <3>4, <4>1, <4>2
    <3> QED
      BY <1>0, <2>1, <3>3, <3>4, <3>6, Zenon DEF Answers
  <2> QED
    BY <1>10, <2>2, <2>3, SendEffect, Zenon
<1> QED
  BY <1>2, <1>3, <1>4, <1>5, <1>6, <1>7, <1>8, <1>9, <1>10, NextCases, Zenon DEF Sample

(* What the put that deletes a generator finds: a connection opened for    *)
(* one request, all of whose requests have a sample.                       *)
LEMMA LastPut ==
  ASSUME IInv, pc \in OnStack, gens[cur].ref = 1
  PROVE  PerRequest /\ Outstanding(cur) = {}
<1>1. gens[cur].ref = Cardinality(Outstanding(cur)) + 1 + Extra /\ Cardinality(Outstanding(cur)) \in Nat
      /\ Extra \in {0, 1}
  BY OnStackCount, Zenon
<1>2. Cardinality(Outstanding(cur)) = 0 /\ Extra = 0
  BY <1>1
<1>3. Outstanding(cur) = {}
  BY <1>2, TableSeqs, OutstandingFinite, Zenon
<1> QED
  BY <1>2, <1>3 DEF Extra

(* Only IoEnd and SendEnd delete a generator, and only they can end the    *)
(* program in a destructor.                                                *)
LEMMA DeletionFrame ==
  ASSUME IInv, [Next]_vars
  PROVE  /\ Release \/ UNCHANGED discarded
         /\ Release \/ err' = err \/ err' = "ENOSPC"
<1>1. CASE Quiet
  BY <1>1, QuietFrame, Zenon
<1>2. CASE Flag \/ State \/ RecvBody \/ \E g \in DOMAIN gens : RunIo(g)
  BY <1>2, TableFrame
<1>3. CASE Sample
  BY <1>3, RecvEffect, FakeEffect, Zenon DEF Sample, Records
<1>4. CASE SendRequest
  <2>1. UNCHANGED discarded
    BY <1>4, Zenon DEF SendRequest
  <2>2. err' = err \/ err' = "ENOSPC"
    BY <1>4, SendEffect, Zenon DEF Sends
  <2> QED
    BY <2>1, <2>2
<1>5. CASE SetupConnections
  BY <1>5, Zenon DEF SetupConnections
<1> QED
  BY <1>1, <1>2, <1>3, <1>4, <1>5, NextCases, Zenon

(* A request that is deleted unwritten had its sample faked.               *)
LEMMA DiscardPreserved ==
  ASSUME IInv, [Next]_vars
  PROVE  NothingDiscarded'
<1>0. cfg' = cfg /\ NothingDiscarded
  BY QuietFrame, ScheduleFrame, Zenon DEF Quiet, IInv
<1>1. CASE UNCHANGED discarded
  BY <1>0, <1>1, Zenon DEF NothingDiscarded
<1>2. CASE Release
  <2>1. PICK next : PutCur(next)
    BY <1>2, ReleaseFrame, Zenon
  <2>2. pc \in OnStack
    BY <1>2, ReleaseFrame, Zenon
  <2>3. discarded' = IF gens[cur].ref = 1 THEN discarded \cup Queued(cur) ELSE discarded
    BY <2>1, Zenon DEF PutCur
  <2>4. CASE gens[cur].ref = 1 /\ ~ (cfg.send_only /\ PerRequest)
    <3>1. PerRequest /\ Outstanding(cur) = {}
      BY <2>2, <2>4, LastPut, Zenon
    <3>2. ~ cfg.send_only
      BY <2>4, <3>1
    <3>3. ASSUME NEW r \in Queued(cur) PROVE FALSE
      <4>1. r \in 1 .. Len(reqs) /\ reqs[r].conn = cur /\ reqs[r].st = "queued" /\ r \in DOMAIN reqs
        BY TableSeqs, Zenon DEF Queued
      <4>2. r \in recorded
        BY <3>1, <4>1, Zenon DEF Outstanding
      <4>3. reqs[r].st \in {"header", "whole"}
        BY <3>2, <4>1, <4>2, Zenon DEF IInv, Answers
      <4> QED
        BY <4>1, <4>3
    <3>4. Queued(cur) = {}
      BY <3>3
    <3>5. discarded' = discarded
      BY <2>3, <3>4, Zenon
    <3> QED
      BY <1>1, <3>5
  <2>5. CASE gens[cur].ref = 1 /\ cfg.send_only /\ PerRequest
    BY <1>0, <2>5, Zenon DEF NothingDiscarded, PerRequest
  <2>6. CASE gens[cur].ref # 1
    BY <1>1, <2>3, <2>6
  <2> QED
    BY <2>4, <2>5, <2>6
<1> QED
  BY <1>1, <1>2, DeletionFrame

(* A socket destroyed with a body outstanding.                             *)
LEMMA TerminatesPreserved ==
  ASSUME IInv, [Next]_vars
  PROVE  Terminates'
<1>0. cfg' = cfg /\ Terminates
  BY QuietFrame, ScheduleFrame, Zenon DEF Quiet, IInv
<1>1. CASE err' = err
  BY <1>0, <1>1, Zenon DEF Terminates, PerRequest
<1>2. CASE err' = "ENOSPC"
  BY <1>2 DEF Terminates
<1>3. CASE Release /\ err' # err
  <2>1. PICK next : PutCur(next)
    BY <1>3, ReleaseFrame, Zenon
  <2>2. pc \in OnStack
    BY <1>3, ReleaseFrame, Zenon
  <2>3. CancelsParsed(gens[cur])
    BY <1>3, <2>1, Zenon DEF PutCur
  <2>4. PICK i \in DOMAIN gens[cur].rx : gens[cur].rx[i].parsed
    BY <2>3, Zenon DEF CancelsParsed
  <2>5. PerRequest
    BY <2>2, <2>3, LastPut, Zenon DEF CancelsParsed
  <2>6. cur \in 1 .. Len(gens)
    BY <2>2, OnStackCount, Zenon
  <2>7. i \in 1 .. Len(gens[cur].rx)
    <3>1. gens[cur].rx \in Seq([id : 1 .. Len(reqs), parsed : BOOLEAN])
      BY <2>6, TableSeqs, Tables, Zenon
    <3> QED
      BY <2>4, <3>1, LenProperties, Zenon
  <2>8. cfg.protocol = "MEMCACHE"
    BY <2>4, <2>6, <2>7, Zenon DEF IInv, Queues
  <2> QED
    BY <1>0, <2>5, <2>8, Zenon DEF Terminates, PerRequest
<1> QED
  BY <1>1, <1>2, <1>3, DeletionFrame

-----------------------------------------------------------------------------
(* Counting requests and samples. *)

(* Samples are finitely many, and one more sample counts one more.         *)
LEMMA SampleCount ==
  ASSUME IInv
  PROVE  /\ Cardinality(recorded) \in Nat /\ Cardinality(recorded \cap Window) \in Nat
         /\ Cardinality(recorded \cap Window) <= cfg.samples
         /\ \A r \in 1 .. Len(reqs) : r \notin recorded =>
              /\ Cardinality(recorded \cup {r}) = Cardinality(recorded) + 1
              /\ r \in Window =>
                   /\ Cardinality((recorded \cup {r}) \cap Window) = Cardinality(recorded \cap Window) + 1
                   /\ Cardinality(recorded \cap Window) + 1 <= cfg.samples
              /\ r \notin Window => (recorded \cup {r}) \cap Window = recorded \cap Window
<1>1. /\ recorded \subseteq 1 .. Len(reqs) /\ Len(reqs) \in Nat /\ pre_samples \in Nat
      /\ cfg.samples \in Nat
  BY TableSeqs, Numbers, CfgTypes, Zenon DEF TableTypes
<1>2. IsFiniteSet(1 .. Len(reqs))
  <2>1. 1 \in Int /\ Len(reqs) \in Int
    BY <1>1
  <2> QED
    BY <2>1, FS_Interval, Zenon
<1>3. IsFiniteSet(Window) /\ Cardinality(Window) = cfg.samples
  <2> DEFINE a == pre_samples + 1
             b == pre_samples + cfg.samples
  <2>1. a \in Int /\ b \in Int /\ b - a + 1 = cfg.samples /\ (a > b => cfg.samples = 0)
    BY <1>1
  <2> HIDE DEF a, b
  <2>2. IsFiniteSet(a .. b) /\ Cardinality(a .. b) = IF a > b THEN 0 ELSE b - a + 1
    BY <2>1, FS_Interval, Zenon
  <2> QED
    BY <2>1, <2>2, Zenon DEF Window, a, b
<1>4. IsFiniteSet(recorded) /\ Cardinality(recorded) \in Nat
  BY <1>1, <1>2, FS_Subset, FS_CardinalityType, Zenon
<1>5. ASSUME NEW S, S \subseteq Window
      PROVE  IsFiniteSet(S) /\ Cardinality(S) \in Nat /\ Cardinality(S) <= cfg.samples
  BY <1>3, <1>5, FS_Subset, FS_CardinalityType, Zenon
<1>6. recorded \cap Window \subseteq Window
  BY Zenon
<1>7. ASSUME NEW r \in 1 .. Len(reqs), r \notin recorded
      PROVE  Cardinality(recorded \cup {r}) = Cardinality(recorded) + 1
  BY <1>4, <1>7, FS_AddElement, Zenon
<1>8. ASSUME NEW r \in 1 .. Len(reqs), r \notin recorded, r \in Window
      PROVE  /\ Cardinality((recorded \cup {r}) \cap Window) = Cardinality(recorded \cap Window) + 1
             /\ Cardinality(recorded \cap Window) + 1 <= cfg.samples
  <2>1. (recorded \cup {r}) \cap Window = (recorded \cap Window) \cup {r}
    BY <1>8, Zenon
  <2>2. Cardinality((recorded \cap Window) \cup {r}) = Cardinality(recorded \cap Window) + 1
    <3>1. IsFiniteSet(recorded \cap Window) /\ r \notin recorded \cap Window
      BY <1>5, <1>6, <1>8, Zenon
    <3> QED
      BY <3>1, FS_AddElement, Zenon
  <2>3. Cardinality((recorded \cap Window) \cup {r}) <= cfg.samples
    <3>1. (recorded \cap Window) \cup {r} \subseteq Window
      BY <1>8, Zenon
    <3> QED
      BY <1>5, <3>1, Zenon
  <2> QED
    BY <2>1, <2>2, <2>3, Zenon
<1>9. ASSUME NEW r \in 1 .. Len(reqs), r \notin Window
      PROVE  (recorded \cup {r}) \cap Window = recorded \cap Window
  BY <1>9, Zenon
<1> QED
  BY <1>4, <1>5, <1>6, <1>7, <1>8, <1>9, Zenon

(* The counts of the client are those of its requests and samples.         *)
LEMMA ProgressPreserved ==
  ASSUME IInv, [Next]_vars
  PROVE  Progress'
<1>0. /\ cfg' = cfg /\ Progress /\ pc \in Points
      /\ Len(reqs) \in Nat /\ sent_count \in Nat /\ rcvd_count \in Nat /\ measure_count \in Nat
      /\ pre_samples \in Nat /\ Len(deadlines) \in Nat /\ cfg.samples \in Nat
      /\ total_samples = Len(deadlines)
  <2>1. cfg' = cfg
    BY QuietFrame, ScheduleFrame, Zenon DEF Quiet
  <2> QED
    BY <2>1, TableSeqs, Numbers, CfgTypes, Zenon DEF IInv, PlainTypes
<1>1. ASSUME UNCHANGED <<deadlines, pre_samples, sent_count, rcvd_count, measure_count, recorded, ended>>,
             Len(reqs') = Len(reqs), \A r \in 1 .. Len(reqs) : reqs'[r].measure = reqs[r].measure,
             started => started', pc' \in Sending => pc \in Sending,
             pc' \notin Sending \cup {"exit"} => pc \notin Sending \cup {"exit"},
             pc' = "exit" => pc = "exit"
      PROVE  Progress'
  <2>1. Window' = Window /\ total_samples' = total_samples
    BY <1>0, <1>1, Zenon DEF Window, total_samples
  <2> QED
    BY <1>0, <1>1, <2>1, Zenon DEF Progress
<1>2. CASE SetupDeadlines
  <2>1. /\ pc \in Setup /\ Len(deadlines') \in Nat /\ Len(deadlines) <= Len(deadlines')
        /\ pre_samples' \in Nat /\ pc' \notin Sending \cup {"exit"}
    BY <1>0, <1>2, DrawEffect DEF Setup, Sending
  <2>2. UNCHANGED <<sent_count, rcvd_count, measure_count, recorded, started, ended, reqs>>
    BY <1>2, QuietFrame, Zenon DEF Quiet
  <2>3. reqs = << >> /\ recorded = {} /\ sent_count = 0
    BY <2>1 DEF IInv, Schedule
  <2>4. Len(reqs') = 0 /\ Len(reqs) = 0
    BY <2>2, <2>3
  <2>5. /\ Len(reqs') <= total_samples' /\ Len(reqs') = sent_count' /\ ~ (Len(reqs') > pre_samples')
        /\ \A r \in 1 .. Len(reqs') : FALSE
    BY <2>1, <2>2, <2>3, <2>4 DEF total_samples
  <2>6. recorded' \cap Window' = recorded \cap Window
    BY <2>2, <2>3, Zenon
  <2>7. /\ rcvd_count = Cardinality(recorded) /\ measure_count = Cardinality(recorded \cap Window)
        /\ ended <=> measure_count = cfg.samples
    BY <1>0, Zenon DEF Progress
  <2>8. /\ rcvd_count' = Cardinality(recorded') /\ measure_count' = Cardinality(recorded' \cap Window')
        /\ ended' <=> measure_count' = cfg.samples'
    BY <1>0, <2>2, <2>6, <2>7, Zenon
  <2> QED
    BY <2>1, <2>5, <2>8, Zenon DEF Progress
<1>3. CASE Quiet /\ ~ SetupDeadlines
  <2>1. UNCHANGED <<sent_count, rcvd_count, measure_count, recorded, started, ended, reqs>>
    BY <1>3, QuietFrame, Zenon
  <2>2. UNCHANGED <<deadlines, pre_samples>>
    BY <1>3, ScheduleFrame, Zenon
  <2>3. (pc' \in Sending <=> pc \in Sending) /\ (pc' = "exit" <=> pc = "exit")
    <3>1. CASE EpollWait \/ TimerEvent \/ BatchDone \/ ReadClock \/ TimerArm \/ BusyDone \/ TryTxDone
      BY <3>1 DEF EpollWait, TimerEvent, BatchDone, ReadClock, TimerArm, BusyDone, TryTxDone, Sending
    <3>2. CASE Tick \/ TimerExpire \/ UNCHANGED vars
      BY <3>2 DEF Tick, TimerExpire, vars
    <3> QED
      BY <1>3, <3>1, <3>2 DEF Quiet
  <2> QED
    BY <1>1, <2>1, <2>2, <2>3, Zenon
<1>4. CASE SetupConnections
  <2>1. UNCHANGED <<schedvars, countvars, reqs>> /\ pc = "connections" /\ pc' = "warmup"
    BY <1>4 DEF SetupConnections, basevars
  <2>2. pc' \notin Sending \cup {"exit"} /\ pc \notin Sending \cup {"exit"}
    BY <2>1 DEF Sending
  <2> QED
    BY <1>1, <2>1, <2>2, Zenon DEF schedvars, countvars
<1>5. CASE \E g \in DOMAIN gens : RunIo(g)
  <2>1. UNCHANGED <<schedvars, countvars, reqs>> /\ pc = "batch" /\ pc' = "io_rx"
    BY <1>5, IoFrame, TableFrame
  <2>2. pc' \notin Sending \cup {"exit"} /\ pc \notin Sending \cup {"exit"}
    BY <2>1 DEF Sending
  <2> QED
    BY <1>1, <2>1, <2>2, Zenon DEF schedvars, countvars
<1>6. CASE Flag \/ RecvBody
  <2>1. UNCHANGED <<schedvars, countvars, reqs>> /\ (pc' = pc \/ (pc = "io_rx" /\ pc' = "io_tx"))
    BY <1>6, FlagFrame, TableFrame
  <2>2. (pc' \in Sending <=> pc \in Sending) /\ (pc' = "exit" <=> pc = "exit")
    BY <2>1 DEF Sending
  <2> QED
    BY <1>1, <2>1, <2>2, Zenon DEF schedvars, countvars
<1>7. CASE State
  <2>1. UNCHANGED <<schedvars, countvars, pc>>
    BY <1>7, StateFrame, TableFrame
  <2>2. PICK r, x : Restated(r, x)
    BY <1>7, StEffect, Zenon DEF State
  <2>3. Len(reqs') = Len(reqs) /\ \A q \in 1 .. Len(reqs) : reqs'[q].measure = reqs[q].measure
    BY <2>2, Zenon DEF Restated
  <2> QED
    BY <1>1, <2>1, <2>3, Zenon DEF schedvars, countvars
<1>8. CASE Release
  <2>1. PICK next \in {"batch", AfterSend} : PutCur(next)
    BY <1>8, ReleaseFrame, Zenon
  <2>2. UNCHANGED <<schedvars, rcvd_count, measure_count, recorded, started, ended, reqs>>
    BY <1>8, ReleaseFrame, Zenon
  <2>3. pc' \in {"batch", "timer", "dead"}
    BY <2>1 DEF AfterSend, PutCur, Throw
  <2>4. pc' \notin Sending \cup {"exit"}
    BY <2>3 DEF Sending
  <2>5. CASE pc \in {"io_rx", "io_tx"}
    <3>1. UNCHANGED sent_count /\ pc \notin Sending \cup {"exit"}
      BY <1>8, <2>5, ReleaseFrame DEF Sending
    <3> QED
      BY <1>1, <2>2, <2>4, <3>1, Zenon DEF schedvars
  <2>6. CASE pc \notin {"io_rx", "io_tx"}
    <3>1. sent_count' = sent_count + 1 /\ pc \in Sending
      BY <1>8, <2>6, ReleaseFrame, Zenon
    <3>2. Len(reqs') = sent_count'
      BY <1>0, <2>2, <3>1, Zenon DEF Progress
    <3>3. Window' = Window /\ total_samples' = total_samples
      BY <1>0, <2>2, Zenon DEF Window, total_samples, schedvars
    <3> QED
      BY <1>0, <2>2, <2>4, <3>2, <3>3, Zenon DEF Progress, schedvars
  <2> QED
    BY <2>5, <2>6
<1>9. CASE Sample
  <2>1. PICK r, q : Records(r, q)
    BY <1>9, RecvEffect, FakeEffect, Zenon DEF Sample
  <2>2. /\ r \in 1 .. Len(reqs) /\ r \notin recorded
        /\ recorded' = recorded \cup {r} /\ rcvd_count' = rcvd_count + 1
        /\ measure_count' = measure_count + (IF reqs[r].measure THEN 1 ELSE 0)
        /\ ended' = (ended \/ LastMeasured(r))
        /\ pc \in {"send_rx", "io_rx"} /\ (pc' = "exit" => AllReceived)
        /\ UNCHANGED <<schedvars, sent_count, started, reqs>>
    BY <2>1, Zenon DEF Records
  <2>3. pc' \in {"exit", pc} \/ (pc = "send_rx" /\ pc' = "send_end")
    BY <1>9, RecvEffect, FakeEffect DEF Sample
  <2>4. Window' = Window /\ total_samples' = total_samples
    BY <1>0, <2>2, Zenon DEF Window, total_samples, schedvars
  <2>5. /\ (pc' \in Sending => pc \in Sending)
        /\ (pc' \notin Sending \cup {"exit"} => pc \notin Sending \cup {"exit"})
    BY <2>2, <2>3 DEF Sending
  <2>6. pc' = "exit" => rcvd_count' >= total_samples
    BY <2>2 DEF AllReceived
  <2>7. /\ rcvd_count = Cardinality(recorded) /\ measure_count = Cardinality(recorded \cap Window)
        /\ ended <=> measure_count = cfg.samples
        /\ reqs[r].measure <=> r \in Window
    BY <1>0, <2>2, Zenon DEF Progress
  <2>8. rcvd_count' = Cardinality(recorded')
    BY <2>2, <2>7, SampleCount, Zenon
  <2>9. measure_count' = Cardinality(recorded' \cap Window) /\ (ended' <=> measure_count' = cfg.samples)
    <3>1. CASE r \in Window
      <4>1. /\ Cardinality((recorded \cup {r}) \cap Window) = measure_count + 1
            /\ measure_count + 1 <= cfg.samples
        BY <2>2, <2>7, <3>1, SampleCount, Zenon
      <4>2. measure_count' = measure_count + 1
        BY <2>2, <2>7, <3>1, Zenon
      <4>3. measure_count # cfg.samples
        BY <1>0, <4>1
      <4> QED
        BY <2>2, <2>7, <3>1, <4>1, <4>2, <4>3, Zenon DEF LastMeasured
    <3>2. CASE r \notin Window
      <4>1. measure_count' = measure_count + 0
        BY <2>2, <2>7, <3>2, Zenon
      <4>2. measure_count' = measure_count
        BY <1>0, <4>1
      <4> QED
        BY <2>2, <2>7, <3>2, <4>2, SampleCount, Zenon DEF LastMeasured
    <3> QED
      BY <3>1, <3>2
  <2>10. /\ Len(reqs') <= total_samples' /\ Len(reqs') \in {sent_count', sent_count' + 1}
         /\ pc' \in Sending => Len(reqs') = sent_count' + 1
         /\ pc' \notin Sending \cup {"exit"} => Len(reqs') = sent_count'
    BY <1>0, <2>2, <2>4, <2>5, Zenon DEF Progress
  <2>11. /\ \A i \in 1 .. Len(reqs') : reqs'[i].measure <=> i \in Window'
         /\ Len(reqs') > pre_samples' => started'
    BY <1>0, <2>2, <2>4, Zenon DEF Progress, schedvars
  <2>12. /\ measure_count' = Cardinality(recorded' \cap Window') /\ (ended' <=> measure_count' = cfg.samples')
         /\ pc' = "exit" => rcvd_count' >= total_samples'
    BY <1>0, <2>4, <2>6, <2>9, Zenon
  <2> QED
    BY <2>8, <2>10, <2>11, <2>12, Zenon DEF Progress
<1>10. CASE SendRequest
  <2>1. /\ UNCHANGED <<schedvars, sent_count, rcvd_count, measure_count, recorded, ended>>
        /\ pc = "timer" /\ sent_count < total_samples
        /\ started' = (started \/ sent_count = pre_samples)
    BY <1>10, Zenon DEF SendRequest
  <2>2. pc \notin Sending \cup {"exit"}
    BY <2>1 DEF Sending
  <2>3. CASE pc' = "dead" /\ UNCHANGED reqs
    <3>1. pc' \notin Sending \cup {"exit"}
      BY <2>3 DEF Sending
    <3> QED
      BY <1>1, <2>1, <2>2, <2>3, <3>1, Zenon DEF schedvars
  <2>4. CASE \E g \in Nat : Sends(g)
    <3>1. PICK g \in Nat : Sends(g)
      BY <2>4
    <3> DEFINE n == Len(reqs)
    <3>2. g \in 1 .. Len(gens') /\ pc' = "send_tx"
      BY <3>1, Zenon DEF Sends
    <3>3. /\ Len(reqs') = n + 1 /\ \A i \in 1 .. n : reqs'[i] = reqs[i]
          /\ reqs'[n + 1].measure <=> sent_count \in pre_samples .. pre_samples + cfg.samples - 1
      BY <3>1, <3>2, SendsRequest, Zenon
    <3>4. n = sent_count
      BY <1>0, <2>2, Zenon DEF Progress
    <3>5. Window' = Window /\ total_samples' = total_samples
      BY <1>0, <2>1, Zenon DEF Window, total_samples, schedvars
    <3>6. n + 1 <= total_samples /\ n + 1 = sent_count + 1 /\ \A i \in 1 .. n + 1 : i \in 1 .. n \/ i = n + 1
      BY <1>0, <2>1, <3>4
    <3>7. sent_count \in pre_samples .. pre_samples + cfg.samples - 1 <=> n + 1 \in Window
      BY <1>0, <3>4 DEF Window
    <3>8. n + 1 > pre_samples => started'
      <4>1. n > pre_samples => started
        BY <1>0, Zenon DEF Progress
      <4>2. n + 1 > pre_samples => n > pre_samples \/ sent_count = pre_samples
        BY <1>0, <3>4
      <4> QED
        BY <2>1, <4>1, <4>2, Zenon
    <3>9. pc' \in Sending /\ ~ (pc' \notin Sending \cup {"exit"}) /\ pc' # "exit"
      BY <3>2 DEF Sending
    <3>10. ASSUME NEW i \in 1 .. n + 1 PROVE reqs'[i].measure <=> i \in Window
      <4>1. CASE i \in 1 .. n
        BY <1>0, <3>3, <4>1, Zenon DEF Progress
      <4>2. CASE i = n + 1
        BY <3>3, <3>7, <4>2, Zenon
      <4> QED
        BY <3>6, <4>1, <4>2
    <3>11. /\ rcvd_count' = Cardinality(recorded') /\ measure_count' = Cardinality(recorded' \cap Window')
           /\ ended' <=> measure_count' = cfg.samples'
      BY <1>0, <2>1, <3>5, Zenon DEF Progress
    <3>12. Len(reqs') \in {sent_count', sent_count' + 1} /\ Len(reqs') = sent_count' + 1
           /\ Len(reqs') <= total_samples'
      BY <2>1, <3>3, <3>5, <3>6, Zenon
    <3>13. /\ \A i \in 1 .. Len(reqs') : reqs'[i].measure <=> i \in Window'
           /\ Len(reqs') > pre_samples' => started'
      BY <2>1, <3>3, <3>5, <3>8, <3>10, Zenon DEF schedvars
    <3> QED
      BY <3>9, <3>11, <3>12, <3>13, Zenon DEF Progress
  <2> QED
    BY <1>10, <2>3, <2>4, SendEffect, Zenon
<1> QED
  BY <1>2, <1>3, <1>4, <1>5, <1>6, <1>7, <1>8, <1>9, <1>10, NextCases, Zenon

-----------------------------------------------------------------------------
(* The theorems. *)

(* The invariant holds when the client starts.                             *)
LEMMA InitIInv ==
  ASSUME Init
  PROVE  IInv
<1>1. /\ cfg \in Configs /\ deadlines = << >> /\ pre_samples = 0 /\ gens = << >> /\ reqs = << >>
      /\ pc = "connections" /\ cur = NoGen /\ batch = {} /\ err = "none" /\ due = NotArmed
      /\ recorded = {} /\ discarded = {} /\ fired = FALSE /\ ended = FALSE /\ started = FALSE
      /\ looped = FALSE
  BY DEF Init
<1>2. /\ sent_count = 0 /\ rcvd_count = 0 /\ measure_count = 0 /\ missed_send = 0 /\ idx = 0
      /\ clk = 0 /\ now = 0
  BY DEF Init
<1>3. Len(deadlines) = 0 /\ Len(gens) = 0 /\ Len(reqs) = 0 /\ DOMAIN reqs = {} /\ DOMAIN gens = {}
  BY <1>1
<1>4. PlainTypes
  <2>1. {sent_count, rcvd_count, measure_count, missed_send, idx, clk, now} \subseteq Nat
    BY <1>2
  <2>2. {started, ended, looped, fired} \subseteq BOOLEAN
    BY <1>1, Zenon
  <2>3. deadlines \in Seq(Nat) /\ pre_samples \in 0 .. Len(deadlines)
    BY <1>1, <1>3
  <2>4. pc \in Points /\ err \in {"none", "ENOSPC", "terminate"} /\ due \in Nat \cup {NotArmed}
    BY <1>1 DEF Points
  <2> QED
    BY <1>1, <2>1, <2>2, <2>3, <2>4, Zenon DEF PlainTypes
<1>5. TableTypes
  <2>1. gens \in Seq(GenType(Len(reqs))) /\ reqs \in Seq(ReqType(Len(gens)))
    BY <1>1
  <2>2. cur \in 0 .. Len(gens)
    BY <1>1, <1>3 DEF NoGen
  <2> QED
    BY <1>1, <2>1, <2>2, Zenon DEF TableTypes
<1>6. TypeOK
  BY <1>4, <1>5, TypeParts
<1>7. Schedule
  BY <1>1, <1>2, <1>3 DEF Schedule, Setup
<1>8. Progress
  <2>1. cfg.samples \in Nat /\ cfg.samples > 0
    BY <1>4, CfgTypes, Zenon
  <2>2. Cardinality(recorded) = 0 /\ Cardinality(recorded \cap Window) = 0
    <3>1. recorded \cap Window = {}
      BY <1>1, Zenon
    <3> QED
      BY <1>1, <3>1, FS_EmptySet, Zenon
  <2>3. pc \notin Sending \cup {"exit"}
    BY <1>1 DEF Sending
  <2>4. /\ Len(reqs) <= total_samples /\ Len(reqs) \in {sent_count, sent_count + 1}
        /\ Len(reqs) = sent_count /\ \A r \in 1 .. Len(reqs) : FALSE
        /\ ~ (Len(reqs) > pre_samples)
    BY <1>1, <1>2, <1>3 DEF total_samples
  <2>5. ~ ended /\ measure_count # cfg.samples
    BY <1>1, <1>2, <2>1
  <2>6. rcvd_count = Cardinality(recorded) /\ measure_count = Cardinality(recorded \cap Window)
    BY <1>2, <2>2, Zenon
  <2> QED
    BY <2>3, <2>4, <2>5, <2>6, Zenon DEF Progress
<1>9. RefsAccounted
  BY <1>3 DEF RefsAccounted
<1>10. Stack
  BY <1>1 DEF Stack, OnStack, Sending, NoUseAfterFree
<1>11. Queues /\ Answers
  BY <1>1, <1>3 DEF Queues, Answers
<1>12. Timers
  BY <1>1, <1>2, <1>3 DEF Timers, Armed, Handling, Sending, Running, Setup, Timer, NotArmed
<1>13. NothingDiscarded /\ Terminates
  BY <1>1 DEF NothingDiscarded, Terminates
<1> QED
  BY <1>6, <1>7, <1>8, <1>9, <1>10, <1>11, <1>12, <1>13 DEF IInv

(* The inductive invariant: the schedule, the counts, the references, the  *)
(* stack, the queues, the answers and the timer agree in every state of    *)
(* the client, for every configuration and every schedule.                 *)
THEOREM Invariant == Spec => []IInv
<1>1. Init => IInv
  BY InitIInv
<1>2. IInv /\ [Next]_vars => IInv'
  <2> SUFFICES ASSUME IInv, [Next]_vars
               PROVE  IInv'
    OBVIOUS
  <2>1. TypeOK'
    BY PlainPreserved, TablesPreserved, TypeParts, PTL
  <2>2. Schedule' /\ Progress' /\ RefsAccounted' /\ Stack'
    BY SchedulePreserved, ProgressPreserved, RefsPreserved, StackPreserved
  <2>3. Queues' /\ Answers' /\ Timers'
    BY QueuesPreserved, AnswersPreserved, TimersPreserved
  <2>4. NothingDiscarded' /\ Terminates'
    BY DiscardPreserved, TerminatesPreserved
  <2> QED
    BY <2>1, <2>2, <2>3, <2>4 DEF IInv
<1> QED
  BY <1>1, <1>2, PTL DEF Spec

(* TypeOK holds: no reference count falls below zero, and the tables of    *)
(* generators and requests only point to one another.                      *)
THEOREM TypeCorrect == Spec => []TypeOK
<1>1. IInv => TypeOK
  BY DEF IInv
<1> QED
  BY <1>1, Invariant, PTL

(* RefsAccounted holds: a generator's count is one for each request it has *)
(* outstanding, one for the call on the stack and one for the pool, and it *)
(* is deleted exactly when the last of them is given back.                 *)
THEOREM RefsCorrect == Spec => []RefsAccounted
<1>1. IInv => RefsAccounted
  BY DEF IInv
<1> QED
  BY <1>1, Invariant, PTL

(* NoUseAfterFree holds: neither send_request nor run_io nor the batch of  *)
(* events of epoll_wait ever runs on a deleted generator.                  *)
THEOREM NoUseCorrect == Spec => []NoUseAfterFree
<1>1. IInv => NoUseAfterFree
  BY DEF IInv, Stack
<1> QED
  BY <1>1, Invariant, PTL

(* NothingDiscarded holds: a generator is deleted with a request still     *)
(* unwritten only in send_only mode with one connection for each request.  *)
THEOREM DiscardCorrect == Spec => []NothingDiscarded
<1>1. IInv => NothingDiscarded
  BY DEF IInv
<1> QED
  BY <1>1, Invariant, PTL

(* TimerPending holds: with requests left to send, the client never blocks *)
(* in epoll_wait without a timer armed or expired.                         *)
THEOREM TimerCorrect == Spec => []TimerPending
<1>1. ASSUME IInv PROVE TimerPending
  <2> SUFFICES ASSUME pc = "wait", sent_count < total_samples, ~ cfg.use_busy_timer
               PROVE  due # NotArmed \/ fired
    BY Zenon DEF TimerPending
  <2>1. batch = {}
    BY <1>1, Zenon DEF IInv, Timers
  <2>2. Running /\ ~ Handling
    BY DEF Running, Handling, Sending
  <2>3. Armed \/ fired \/ Timer \in batch
    BY <1>1, <2>2, Zenon DEF IInv, Timers
  <2> QED
    BY <2>1, <2>3, Zenon DEF Armed
<1> QED
  BY <1>1, Invariant, PTL

(* CancelsPendingOnly holds where the responses of a connection opened for *)
(* one request have no body. Where they have one it does not hold: run     *)
(* client_body_terminates.                                                 *)
THEOREM CancelCorrect ==
  ASSUME \A c \in Configs : ~ (c.conn_mode = "PER_REQUEST" /\ c.protocol = "MEMCACHE")
  PROVE  Spec => []CancelsPendingOnly
<1>1. ASSUME IInv PROVE CancelsPendingOnly
  <2>1. cfg \in Configs
    BY <1>1, TableSeqs, Zenon DEF PlainTypes
  <2> QED
    BY <1>1, <2>1, Zenon DEF IInv, Terminates, PerRequest, CancelsPendingOnly
<1> QED
  BY <1>1, Invariant, PTL

(* Once as many samples are counted as there are deadlines, every request  *)
(* of the schedule has been sent and has one.                              *)
LEMMA AllSampled ==
  ASSUME IInv, NEW S, S \subseteq 1 .. Len(reqs)
  PROVE  /\ Cardinality(S) >= total_samples => S = 1 .. total_samples /\ Len(reqs) = total_samples
         /\ S = 1 .. total_samples => Cardinality(S) = total_samples
<1>1. Len(reqs) \in Nat /\ total_samples \in Nat /\ Len(reqs) <= total_samples
  BY TableSeqs, Numbers, Zenon DEF IInv, Progress
<1>2. ASSUME NEW n \in Nat PROVE IsFiniteSet(1 .. n) /\ Cardinality(1 .. n) = n
  <2>1. 1 \in Int /\ n \in Int
    OBVIOUS
  <2>2. IsFiniteSet(1 .. n) /\ Cardinality(1 .. n) = IF 1 > n THEN 0 ELSE n - 1 + 1
    BY <2>1, FS_Interval, Zenon
  <2> QED
    BY <2>2
<1>3. S = 1 .. total_samples => Cardinality(S) = total_samples
  BY <1>1, <1>2, Zenon
<1>4. ASSUME Cardinality(S) >= total_samples
      PROVE  S = 1 .. total_samples /\ Len(reqs) = total_samples
  <2>1. S \in SUBSET (1 .. Len(reqs)) /\ IsFiniteSet(1 .. Len(reqs)) /\ Cardinality(1 .. Len(reqs)) = Len(reqs)
    BY <1>1, <1>2, Zenon
  <2>2. /\ IsFiniteSet(S) /\ Cardinality(S) <= Cardinality(1 .. Len(reqs))
        /\ Cardinality(1 .. Len(reqs)) = Cardinality(S) => 1 .. Len(reqs) = S
    BY <2>1, FS_Subset, Zenon
  <2>3. Cardinality(S) \in Nat
    BY <2>2, FS_CardinalityType, Zenon
  <2>4. Cardinality(S) = Len(reqs) /\ Len(reqs) = total_samples
    BY <1>1, <1>4, <2>1, <2>2, <2>3
  <2> QED
    BY <2>1, <2>2, <2>4, Zenon
<1> QED
  BY <1>3, <1>4

(* WindowCovers holds: the measured interval starts before the first       *)
(* measured request and ends with the sample of the last, whatever the     *)
(* order in which the connections answer; and when the summary is printed  *)
(* it has ended.                                                           *)
THEOREM WindowCorrect == Spec => []WindowCovers
<1>1. ASSUME IInv PROVE WindowCovers
  <2>1. /\ Len(reqs) \in Nat /\ pre_samples \in Nat /\ cfg.samples \in Nat /\ sent_count \in Nat
        /\ total_samples \in Nat /\ total_samples = Len(deadlines)
        /\ DOMAIN reqs = 1 .. Len(reqs) /\ recorded \subseteq 1 .. Len(reqs)
    BY <1>1, TableSeqs, Numbers, CfgTypes, Zenon DEF TableTypes
  <2>2. \A r \in 1 .. Len(reqs) : reqs[r].measure <=> r \in Window
    BY <1>1, Zenon DEF IInv, Progress
  <2>3. /\ Len(reqs) > pre_samples => started
        /\ rcvd_count = Cardinality(recorded) /\ measure_count = Cardinality(recorded \cap Window)
        /\ ended <=> measure_count = cfg.samples
    BY <1>1, Zenon DEF IInv, Progress
  <2>4. ASSUME NEW r \in DOMAIN reqs, reqs[r].measure PROVE started
    <3>1. r \in 1 .. Len(reqs) /\ r \in Window
      BY <2>1, <2>2, <2>4, Zenon
    <3>2. Len(reqs) > pre_samples
      BY <2>1, <3>1 DEF Window
    <3> QED
      BY <2>3, <3>2
  <2>5. IsFiniteSet(Window) /\ Cardinality(Window) = cfg.samples
    <3> DEFINE a == pre_samples + 1
               b == pre_samples + cfg.samples
    <3>1. a \in Int /\ b \in Int /\ b - a + 1 = cfg.samples /\ (a > b => cfg.samples = 0)
      BY <2>1
    <3> HIDE DEF a, b
    <3>2. IsFiniteSet(a .. b) /\ Cardinality(a .. b) = IF a > b THEN 0 ELSE b - a + 1
      BY <3>1, FS_Interval, Zenon
    <3> QED
      BY <3>1, <3>2, Zenon DEF Window, a, b
  <2>6. ASSUME ended
        PROVE  measure_count = cfg.samples /\ \A r \in DOMAIN reqs : reqs[r].measure => r \in recorded
    <3>1. recorded \cap Window \in SUBSET Window
      BY Zenon
    <3>2. Cardinality(Window) = Cardinality(recorded \cap Window)
      BY <2>3, <2>5, <2>6, Zenon
    <3>3. Window = recorded \cap Window
      BY <2>5, <3>1, <3>2, FS_Subset, Zenon
    <3> QED
      BY <2>1, <2>2, <2>3, <2>6, <3>3, Zenon
  <2>7. ASSUME pc = "exit" PROVE ended /\ sent_count + 1 >= total_samples
    <3>1. rcvd_count >= total_samples /\ Len(reqs) \in {sent_count, sent_count + 1}
      BY <1>1, <2>7, Zenon DEF IInv, Progress
    <3>2. recorded = 1 .. total_samples /\ Len(reqs) = total_samples
      BY <1>1, <2>1, <2>3, <3>1, AllSampled, Zenon
    <3>3. pre_samples + cfg.samples <= total_samples
      BY <1>1, <2>1, <2>7 DEF IInv, Schedule
    <3>4. Window \subseteq 1 .. total_samples
      BY <2>1, <3>3 DEF Window
    <3>5. recorded \cap Window = Window
      BY <3>2, <3>4, Zenon
    <3>6. ended
      BY <2>3, <2>5, <3>5, Zenon
    <3>7. sent_count + 1 >= total_samples
      BY <2>1, <3>1, <3>2
    <3> QED
      BY <3>6, <3>7
  <2> QED
    BY <2>4, <2>6, <2>7, Zenon DEF WindowCovers
<1> QED
  BY <1>1, Invariant, PTL

-----------------------------------------------------------------------------
(* The client implements the experiment. *)

(* The abstract state: the schedule once it is drawn, and the status.      *)
Planned == IF pc \in {"connections", "warmup", "measured", "cooldown"} THEN << >> ELSE deadlines
Status  == CASE pc = "exit" -> "over" [] pc = "dead" -> "failed" [] OTHER -> "running"

(* The abstract steps, on the client's state.                              *)
LEMMA ExperimentSteps ==
  /\ UNCHANGED <<Planned, now, Len(reqs), recorded, Status>> => [E!Next]_E!vars
  /\ (/\ Planned = << >> /\ Planned' # << >>
      /\ \A i \in 1 .. Len(Planned') - 1 : Planned'[i] <= Planned'[i + 1]
      /\ UNCHANGED <<now, Len(reqs), recorded, Status>>) => [E!Next]_E!vars
  /\ (/\ Status = "running" /\ Len(reqs) < Len(Planned) /\ Planned[Len(reqs) + 1] <= now
      /\ Len(reqs)' = Len(reqs) + 1
      /\ UNCHANGED <<Planned, now, recorded, Status>>) => [E!Next]_E!vars
  /\ (/\ Status = "running"
      /\ \E r \in 1 .. Len(reqs) \ recorded : recorded' = recorded \cup {r}
      /\ Status' = IF recorded' = 1 .. Len(Planned) THEN "over" ELSE "running"
      /\ UNCHANGED <<Planned, now, Len(reqs)>>) => [E!Next]_E!vars
  /\ (/\ Status = "running" /\ Status' = "failed"
      /\ UNCHANGED <<Planned, now, Len(reqs), recorded>>) => [E!Next]_E!vars
  /\ (/\ Status = "running" /\ Planned # << >> /\ now' = now + 1
      /\ UNCHANGED <<Planned, Len(reqs), recorded, Status>>) => [E!Next]_E!vars
<1>1. UNCHANGED <<Planned, now, Len(reqs), recorded, Status>> => UNCHANGED E!vars
  BY Zenon DEF E!vars, Planned, Status
<1>2. (/\ Planned = << >> /\ Planned' # << >>
       /\ \A i \in 1 .. Len(Planned') - 1 : Planned'[i] <= Planned'[i + 1]
       /\ UNCHANGED <<now, Len(reqs), recorded, Status>>) => E!Plan
  BY Zenon DEF E!Plan, Planned, Status
<1>3. (/\ Status = "running" /\ Len(reqs) < Len(Planned) /\ Planned[Len(reqs) + 1] <= now
       /\ Len(reqs)' = Len(reqs) + 1
       /\ UNCHANGED <<Planned, now, recorded, Status>>) => E!Emit
  BY Zenon DEF E!Emit, Planned, Status
<1>4. (/\ Status = "running"
       /\ \E r \in 1 .. Len(reqs) \ recorded : recorded' = recorded \cup {r}
       /\ Status' = IF recorded' = 1 .. Len(Planned) THEN "over" ELSE "running"
       /\ UNCHANGED <<Planned, now, Len(reqs)>>) => E!Record
  BY Zenon DEF E!Record, Planned, Status
<1>5. (/\ Status = "running" /\ Status' = "failed"
       /\ UNCHANGED <<Planned, now, Len(reqs), recorded>>) => E!Fail
  BY Zenon DEF E!Fail, Planned, Status
<1>6. (/\ Status = "running" /\ Planned # << >> /\ now' = now + 1
       /\ UNCHANGED <<Planned, Len(reqs), recorded, Status>>) => E!Pass
  BY Zenon DEF E!Pass, Planned, Status
<1> QED
  BY <1>1, <1>2, <1>3, <1>4, <1>5, <1>6, Zenon DEF E!Next

(* Where the client runs, the abstract schedule is the one it has drawn.   *)
LEMMA Abstraction ==
  /\ pc \in Setup => Planned = << >>
  /\ pc \notin Setup => Planned = deadlines
  /\ pc \notin {"exit", "dead"} => Status = "running"
  /\ pc = "exit" => Status = "over"
  /\ pc = "dead" => Status = "failed"
BY DEF Planned, Status, Setup

(* A step that shows nothing.                                              *)
LEMMA ShowsNothing ==
  ASSUME UNCHANGED <<deadlines, now, recorded>>, Len(reqs') = Len(reqs),
         pc' \in Setup <=> pc \in Setup, pc \in Setup \/ pc \notin Setup,
         \/ pc' = pc
         \/ pc' \notin {"exit", "dead"} /\ pc \notin {"exit", "dead"}
  PROVE  [E!Next]_E!vars
<1>1. Status' = Status
  BY DEF Status
<1>2. Planned' = Planned
  BY DEF Planned, Setup
<1> QED
  BY <1>1, <1>2, ExperimentSteps, Zenon

(* Every step of the client is a step of the experiment or shows nothing.  *)
LEMMA StepRefines ==
  ASSUME IInv, IInv', [Next]_vars
  PROVE  [E!Next]_E!vars
<1>0. /\ pc \in Points /\ Len(reqs) \in Nat /\ Len(deadlines) \in Nat /\ now \in Nat /\ clk \in Nat
      /\ sent_count \in Nat /\ deadlines \in Seq(Nat) /\ total_samples = Len(deadlines)
      /\ cfg.samples \in Nat /\ cfg.samples > 0 /\ pre_samples \in Nat
  BY TableSeqs, Numbers, CfgTypes, Zenon DEF PlainTypes
<1>1. CASE SetupConnections
  <2>1. UNCHANGED <<deadlines, now, recorded, reqs>> /\ pc = "connections" /\ pc' = "warmup"
    BY <1>1 DEF SetupConnections, basevars, schedvars, timevars, countvars
  <2>2. pc \in Setup /\ pc' \in Setup
    BY <2>1 DEF Setup
  <2> QED
    BY <2>1, <2>2, ShowsNothing
<1>2. CASE SetupDeadlines
  <2>1. UNCHANGED <<now, recorded, reqs>>
    BY <1>2 DEF SetupDeadlines, Draw, timevars, countvars
  <2>2. /\ pc \in {"warmup", "measured", "cooldown"}
        /\ pc' \in {"warmup", "measured", "cooldown", "wait", "clock"}
        /\ \A i \in 1 .. Len(deadlines') - 1 : deadlines'[i] <= deadlines'[i + 1]
    BY <1>2, DrawEffect
  <2>3. pc \in Setup /\ pc \notin {"exit", "dead"} /\ pc' \notin {"exit", "dead"}
    BY <2>2 DEF Setup
  <2>4. Planned = << >> /\ UNCHANGED Status
    <3>1. Planned = << >> /\ Status = "running"
      BY <2>3, Abstraction, Zenon
    <3>2. Status' = "running"
      BY <2>2 DEF Status
    <3> QED
      BY <3>1, <3>2
  <2>5. CASE pc' \in Setup
    <3>1. Planned' = << >>
      BY <2>5 DEF Planned, Setup
    <3> QED
      BY <2>1, <2>4, <3>1, ExperimentSteps, Zenon
  <2>6. CASE pc' \notin Setup
    <3>1. Planned' = deadlines'
      BY <2>6 DEF Planned, Setup
    <3>2. pre_samples' + cfg'.samples <= Len(deadlines')
      BY <2>6 DEF IInv, Schedule, Setup
    <3>3. pre_samples' \in Nat /\ cfg' = cfg
      <4>1. cfg' = cfg
        BY <1>2, QuietFrame, Zenon DEF Quiet
      <4> QED
        BY <1>0, <1>2, <4>1, DrawEffect
    <3>4. deadlines' # << >>
      BY <1>0, <3>2, <3>3
    <3> QED
      BY <2>1, <2>2, <2>4, <3>1, <3>4, ExperimentSteps, Zenon
  <2> QED
    BY <2>5, <2>6
<1>3. CASE EpollWait \/ TimerEvent \/ BatchDone \/ ReadClock \/ TimerArm \/ BusyDone \/ TryTxDone
           \/ TimerExpire \/ UNCHANGED vars
  <2>1. UNCHANGED <<recorded, reqs>>
    BY <1>3, QuietFrame, Zenon DEF Quiet
  <2>2. UNCHANGED <<deadlines, now>>
    <3>1. CASE EpollWait \/ TimerEvent \/ BatchDone
      BY <3>1 DEF EpollWait, TimerEvent, BatchDone, basevars, schedvars, timevars
    <3>2. CASE ReadClock \/ TimerArm \/ BusyDone \/ TryTxDone
      BY <3>2 DEF ReadClock, TimerArm, BusyDone, TryTxDone, basevars, schedvars, timevars
    <3>3. CASE TimerExpire \/ UNCHANGED vars
      BY <3>3 DEF TimerExpire, vars, schedvars, timevars
    <3> QED
      BY <1>3, <3>1, <3>2, <3>3
  <2>3. \/ pc' = pc
        \/ pc \in {"wait", "batch", "clock", "timer", "send_tx"}
           /\ pc' \in {"wait", "batch", "clock", "timer", "send_rx"}
    <3>1. CASE EpollWait \/ TimerEvent \/ BatchDone \/ ReadClock
      BY <3>1 DEF EpollWait, TimerEvent, BatchDone, ReadClock
    <3>2. CASE TimerArm \/ BusyDone \/ TryTxDone
      BY <3>2 DEF TimerArm, BusyDone, TryTxDone
    <3>3. CASE TimerExpire \/ UNCHANGED vars
      BY <3>3 DEF TimerExpire, vars
    <3> QED
      BY <1>3, <3>1, <3>2, <3>3
  <2>4. /\ pc' \in Setup <=> pc \in Setup
        /\ pc' = pc \/ (pc' \notin {"exit", "dead"} /\ pc \notin {"exit", "dead"})
    BY <2>3 DEF Setup
  <2> QED
    BY <2>1, <2>2, <2>4, ShowsNothing, Zenon
<1>4. CASE Tick
  <2>1. /\ Running /\ now' = now + 1 /\ UNCHANGED <<deadlines, recorded, reqs, pc>>
    BY <1>4 DEF Tick, schedvars, countvars
  <2>2. pc \notin Setup /\ pc \notin {"exit", "dead"}
    BY <2>1 DEF Running, Setup
  <2>3. Planned = deadlines /\ Status = "running"
    BY <2>2, Abstraction, Zenon
  <2>4. deadlines # << >>
    <3>1. pre_samples + cfg.samples <= Len(deadlines)
      BY <2>2 DEF IInv, Schedule, Setup
    <3> QED
      BY <1>0, <3>1
  <2>5. UNCHANGED <<Planned, Status>>
    BY <2>1, Zenon DEF Planned, Status
  <2> QED
    BY <2>1, <2>3, <2>4, <2>5, ExperimentSteps, Zenon
<1>5. CASE Flag \/ State \/ RecvBody \/ \E g \in DOMAIN gens : RunIo(g)
  <2>1. UNCHANGED <<deadlines, now, recorded>>
    BY <1>5, TableFrame DEF schedvars, timevars, countvars
  <2>2. Len(reqs') = Len(reqs)
    <3>1. CASE State
      BY <3>1, StEffect, Zenon DEF State, Restated
    <3>2. CASE ~ State
      BY <1>5, <3>2, FlagFrame, IoFrame, Zenon
    <3> QED
      BY <3>1, <3>2
  <2>3. pc' = pc \/ (pc \in {"batch", "io_rx"} /\ pc' \in {"io_rx", "io_tx"})
    BY <1>5, FlagFrame, StateFrame, IoFrame
  <2>4. /\ pc' \in Setup <=> pc \in Setup
        /\ pc' = pc \/ (pc' \notin {"exit", "dead"} /\ pc \notin {"exit", "dead"})
    BY <2>3 DEF Setup
  <2> QED
    BY <2>1, <2>2, <2>4, ShowsNothing, Zenon
<1>6. CASE Release
  <2>1. PICK next \in {"batch", AfterSend} : PutCur(next)
    BY <1>6, ReleaseFrame, Zenon
  <2>2. pc \in OnStack /\ UNCHANGED <<deadlines, now, recorded, reqs>>
    BY <1>6, ReleaseFrame DEF schedvars, timevars
  <2>3. pc' \in {"batch", "timer", "dead"}
    BY <2>1 DEF AfterSend, PutCur, Throw
  <2>4. pc \notin Setup /\ pc \notin {"exit", "dead"} /\ pc' \notin Setup
    BY <2>2, <2>3 DEF OnStack, Sending, Setup
  <2>5. CASE pc' # "dead"
    <3>1. pc' \notin {"exit", "dead"}
      BY <2>3, <2>5
    <3> QED
      BY <2>2, <2>4, <3>1, ShowsNothing, Zenon
  <2>6. CASE pc' = "dead"
    <3>1. Planned' = Planned
      BY <2>2, <2>4 DEF Planned, Setup
    <3>2. Status = "running" /\ Status' = "failed"
      BY <2>4, <2>6 DEF Status
    <3> QED
      BY <2>2, <3>1, <3>2, ExperimentSteps, Zenon
  <2> QED
    BY <2>5, <2>6
<1>7. CASE Sample
  <2>1. PICK r, q : Records(r, q)
    BY <1>7, RecvEffect, FakeEffect, Zenon DEF Sample
  <2>2. /\ r \in 1 .. Len(reqs) /\ r \notin recorded /\ recorded' = recorded \cup {r}
        /\ rcvd_count' = rcvd_count + 1 /\ pc \in {"send_rx", "io_rx"} /\ (pc' = "exit" <=> AllReceived)
        /\ UNCHANGED <<deadlines, now, reqs>>
    BY <2>1, Zenon DEF Records, schedvars, timevars
  <2>3. pc' \in {"exit", "send_rx", "io_rx", "send_end"}
    <3>1. pc' \in {"exit", pc} \/ (pc = "send_rx" /\ pc' = "send_end")
      BY <1>7, RecvEffect, FakeEffect DEF Sample
    <3> QED
      BY <2>2, <3>1
  <2>4. pc \notin Setup /\ pc \notin {"exit", "dead"} /\ pc' \notin Setup
    BY <2>2, <2>3 DEF Setup
  <2>5. Planned = deadlines /\ Planned' = Planned /\ Status = "running"
    <3>1. Planned' = Planned
      BY <2>2, <2>4 DEF Planned, Setup
    <3> QED
      BY <2>4, <3>1, Abstraction, Zenon
  <2>6. pc' = "exit" <=> recorded' = 1 .. Len(deadlines)
    <3>1. recorded' \subseteq 1 .. Len(reqs)
      <4>1. recorded \subseteq 1 .. Len(reqs)
        BY TableSeqs, Zenon DEF TableTypes
      <4> QED
        BY <2>2, <4>1, Zenon
    <3>2. rcvd_count' = Cardinality(recorded')
      BY Zenon DEF IInv, Progress
    <3>3. AllReceived <=> Cardinality(recorded') >= total_samples
      BY <2>2, <3>2, Zenon DEF AllReceived
    <3>4. /\ Cardinality(recorded') >= total_samples => recorded' = 1 .. total_samples
          /\ recorded' = 1 .. total_samples => Cardinality(recorded') = total_samples
      BY <3>1, AllSampled, Zenon
    <3>5. Cardinality(recorded') = total_samples => Cardinality(recorded') >= total_samples
      BY <1>0
    <3> QED
      BY <1>0, <2>2, <3>3, <3>4, <3>5, Zenon
  <2>7. Status' = IF recorded' = 1 .. Len(Planned) THEN "over" ELSE "running"
    <3>1. Status' = IF pc' = "exit" THEN "over" ELSE "running"
      BY <2>3 DEF Status
    <3> QED
      BY <2>5, <2>6, <3>1, Zenon
  <2>8. \E i \in 1 .. Len(reqs) \ recorded : recorded' = recorded \cup {i}
    BY <2>2, Zenon
  <2> QED
    BY <2>2, <2>5, <2>7, <2>8, ExperimentSteps, Zenon
<1>8. CASE SendRequest
  <2>1. /\ pc = "timer" /\ sent_count < total_samples /\ next_deadline <= clk
        /\ UNCHANGED <<deadlines, now, recorded>>
    BY <1>8, Zenon DEF SendRequest, schedvars, timevars
  <2>2. pc \notin Setup /\ pc \notin {"exit", "dead"} /\ pc \notin Sending \cup {"exit"}
    BY <2>1 DEF Setup, Sending
  <2>3. Planned = deadlines /\ Status = "running"
    BY <2>2, Abstraction, Zenon
  <2>4. CASE pc' = "dead" /\ UNCHANGED reqs
    <3>1. Planned' = Planned
      BY <2>1, <2>2, <2>4 DEF Planned, Setup
    <3>2. Status' = "failed"
      BY <2>4 DEF Status
    <3> QED
      BY <2>1, <2>3, <2>4, <3>1, <3>2, ExperimentSteps, Zenon
  <2>5. CASE \E g \in Nat : Sends(g)
    <3>1. PICK g \in Nat : Sends(g)
      BY <2>5
    <3>2. pc' = "send_tx" /\ g \in 1 .. Len(gens')
      BY <3>1, Zenon DEF Sends
    <3>3. Len(reqs') = Len(reqs) + 1
      BY <3>1, <3>2, SendsRequest, Zenon
    <3>4. Len(reqs) = sent_count
      BY <2>2, Zenon DEF IInv, Progress
    <3>5. deadlines[Len(reqs) + 1] <= now
      <4>1. clk <= now
        BY DEF IInv, Schedule
      <4>2. next_deadline \in Nat /\ next_deadline = deadlines[Len(reqs) + 1]
        BY <2>1, <3>4, TableSeqs, NextDeadline, Zenon DEF next_deadline
      <4> QED
        BY <1>0, <2>1, <4>1, <4>2
    <3>6. Planned' = Planned /\ Status' = Status
      <4>1. Planned' = deadlines' /\ Status' = "running"
        BY <3>2 DEF Planned, Status
      <4> QED
        BY <2>1, <2>3, <4>1, Zenon
    <3>7. Len(reqs) < Len(Planned) /\ Planned[Len(reqs) + 1] <= now
      BY <1>0, <2>1, <2>3, <3>4, <3>5, Zenon
    <3> QED
      BY <2>1, <2>3, <3>3, <3>6, <3>7, ExperimentSteps, Zenon
  <2> QED
    BY <1>8, <2>4, <2>5, SendEffect, Zenon
<1> QED
  BY <1>1, <1>2, <1>3, <1>4, <1>5, <1>6, <1>7, <1>8, NextCases, Zenon DEF Quiet

(* The client starts as the experiment does.                               *)
LEMMA InitRefines ==
  ASSUME Init
  PROVE  E!Init
<1>1. pc = "connections" /\ now = 0 /\ Len(reqs) = 0 /\ recorded = {}
  BY DEF Init
<1>2. Planned = << >> /\ Status = "running"
  BY <1>1 DEF Planned, Status
<1> QED
  BY <1>1, <1>2, Zenon DEF E!Init, Planned, Status

(* ImplementsExperiment holds: the client, with its timer or busy loop,    *)
(* its pooled or short-lived connections and samples in the order of the   *)
(* answers, is an open-loop experiment: the schedule is fixed first, each  *)
(* request is generated in its order and never before its time, each is    *)
(* sampled once, and the run is over exactly when the last one is.         *)
THEOREM Refinement == Spec => ImplementsExperiment
<1>1. IInv /\ IInv' /\ [Next]_vars => [E!Next]_E!vars
  BY StepRefines
<1>2. Init => E!Init
  BY InitRefines
<1> QED
  BY <1>1, <1>2, Invariant, PTL DEF Spec, ImplementsExperiment, E!Spec

================================================================================

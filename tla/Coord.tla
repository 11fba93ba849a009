---------------------------------- MODULE Coord ----------------------------------
(***************************************************************************)
(* The coordinator (scripts/coord.go): it divides a load between several   *)
(* agents, each a mutated_synthetic started over a connection of its own   *)
(* by a goroutine of its own, and adds up what they print, for a series of *)
(* increasing rates.                                                       *)
(*                                                                         *)
(* An agent is known by what its command line makes of it (parse_synthetic)*)
(* and by the lines print_summary prints: its rate, then its samples.  The *)
(* warm-up measurement is job 0, run by main itself; the agents are jobs   *)
(* 1 .. cnt, each a goroutine in measureOne.                               *)
(***************************************************************************)
EXTENDS Accum

CONSTANTS
  Cfgs,              \* command lines of the coordinator; mode is "unknown" for
                     \* a -m or -d that the agents do not know
  WarmupCfg,         \* the measurement of warmup()
  DEFAULT_SAMPLE_S,  \* seconds an agent samples when asked for no samples
  Latencies,         \* Latencies[k][j]: samples the agents may take
  MayFail            \* can connections, agents and what they print fail?

ASSUME CfgsAssumption ==
  /\ Cfgs \subseteq [samples : Nat, reqsPerSec : Nat, conns : Nat, cnt : Nat \ {0},
                     steps : Nat,
                     mode : {"round_robin", "random", "per_request", "unknown"}]
  /\ WarmupCfg \in [samples : Nat \ {0}, reqsPerSec : Nat \ {0}, conns : Nat \ {0}]
  /\ DEFAULT_SAMPLE_S \in Nat \ {0}
  /\ MayFail \in BOOLEAN

(* An agent prints numbers. *)
ASSUME LatenciesAssumption ==
  \A v \in Latencies, c \in Cfgs :
    \A k \in 1 .. c.cnt, j \in 1 .. c.samples : v[k][j] \in Int

VARIABLES
  cfg, val,
  pc,       \* main: "warmup", "step", "gather", "display", "done" or "exit"
  step,     \* the step of doExperiment
  part,     \* part[k]: what job k measures, a cfg
  job,      \* where measureOne is: "idle", "dial", "write", "rate", "scan",
            \* "send" or "received"
  got,      \* got[k]: samples job k has read
  agent,    \* "none", "running", "hung" or "gone"
  lines,    \* lines[k]: lines of agent k that have arrived
  cut,      \* the jobs whose agent broke off within its last line
  res,      \* the result measure() accumulates
  shown,    \* results displayed
  err,      \* why the process ended, or "none"
  faulty    \* something outside the coordinator has failed

jobvars   == <<job, got>>
agentvars == <<agent, lines, cut>>
vars == <<cfg, val, pc, step, part, jobvars, agentvars, res, shown, err, faulty>>

Agents == 1 .. cfg.cnt
Jobs   == 0 .. cfg.cnt

NoResult == [offered |-> 0, rates |-> 0, samples |-> << >>, cut |-> {}]

Init ==
  /\ cfg \in Cfgs /\ val \in Latencies
  /\ pc = "warmup" /\ step = 1
  /\ part = [k \in Jobs |-> WarmupCfg]
  /\ job = [k \in Jobs |-> IF k = 0 THEN "dial" ELSE "idle"]
  /\ got = [k \in Jobs |-> 0]
  /\ agent = [k \in Jobs |-> "none"] /\ lines = [k \in Jobs |-> 0] /\ cut = {}
  /\ res = NoResult /\ shown = << >>
  /\ err = "none" /\ faulty = FALSE

Running == pc \notin {"done", "exit"}

(* checkError and panics end the process, whichever goroutine they are in. *)
Exit(e) == pc' = "exit" /\ err' = e

-----------------------------------------------------------------------------
(* divCfg *)

(* A share that takes the remainder away from the first ones. *)
share_minus(total, cnt, k) == total \div cnt - (IF k - 1 < total % cnt THEN 1 ELSE 0)

(* A share that leaves the remainder to nobody. *)
share_truncated(total, cnt, k) == total \div cnt

(* What part k of cnt gets: the remainder goes to the first ones. *)
share(total, cnt, k) == total \div cnt + (IF k - 1 < total % cnt THEN 1 ELSE 0)

divCfg(rate) ==
  [k \in Agents |-> [samples    |-> share(cfg.samples, cfg.cnt, k),
                     reqsPerSec |-> share(rate, cfg.cnt, k),
                     conns      |-> share(cfg.conns, cfg.cnt, k)]]

(* The rate of a step of doExperiment. *)
stepRate(i) == (cfg.reqsPerSec * i) \div cfg.steps

-----------------------------------------------------------------------------
(* The agents *)

(* The samples an agent takes: parse_synthetic takes -s for seconds. *)
AgentSamples(p) ==
  (IF p.samples = 0 THEN DEFAULT_SAMPLE_S ELSE p.samples) * p.reqsPerSec

(* parse_synthetic prints the usage and exits at a -m or -d it does not    *)
(* know; warmup() passes its own.                                          *)
Understood(k) == k = 0 \/ cfg.mode # "unknown"

(* With no rate setup_deadlines draws from an undefined distribution. *)
NoSchedule(k) == part[k].reqsPerSec = 0

(* get_connection takes one from the pool, in turn or at random; with none *)
(* it divides by zero or reads beyond conns_.                              *)
EmptyPool(k) == part[k].conns = 0 /\ cfg.mode # "per_request"

(* What becomes of an agent that is started. *)
Started(k) ==
  CASE ~ Understood(k) -> {"gone"}
    [] Understood(k) /\ NoSchedule(k) -> {"gone", "hung"}
    [] Understood(k) /\ ~ NoSchedule(k) /\ EmptyPool(k) -> {"gone"}
    [] OTHER -> {"running"}

(* print_summary: the rate, then the samples in the order of arrival. *)
AgentPrints(k) ==
  /\ Running /\ agent[k] = "running"
  /\ lines[k] < 1 + AgentSamples(part[k])
  /\ lines' = [lines EXCEPT ![k] = @ + 1]
  /\ UNCHANGED <<cfg, val, pc, step, part, jobvars, agent, cut, res, shown, err, faulty>>

(* An agent ends after its last line, or breaks off, between two lines or  *)
(* within one: the scanner hands out what it has of a line at the end of   *)
(* the input as if it were whole.                                          *)
AgentEnds(k) ==
  /\ Running /\ agent[k] = "running"
  /\ agent' = [agent EXCEPT ![k] = "gone"]
  /\ \/ lines[k] = 1 + AgentSamples(part[k]) /\ UNCHANGED <<lines, cut, faulty>>
     \/ /\ MayFail /\ lines[k] < 1 + AgentSamples(part[k])
        /\ \/ UNCHANGED <<lines, cut>>
           \/ lines' = [lines EXCEPT ![k] = @ + 1] /\ cut' = cut \cup {k}
        /\ faulty' = TRUE
  /\ UNCHANGED <<cfg, val, pc, step, part, jobvars, res, shown, err>>

-----------------------------------------------------------------------------
(* measureOne *)

(* An error of the network, or a line that is not a number; the scanner    *)
(* reports an error after the lines it has.                                *)
Fail(k, at, e) ==
  /\ MayFail
  /\ Running /\ job[k] = at
  /\ faulty' = TRUE
  /\ Exit(e)
  /\ UNCHANGED <<cfg, val, step, part, jobvars, agentvars, res, shown>>

MeasureError(k) ==
  \/ Fail(k, "dial", "dial")
  \/ Fail(k, "write", "write")
  \/ lines[k] > 0 /\ Fail(k, "rate", "ParseFloat")
  \/ lines[k] > 1 + got[k] /\ Fail(k, "scan", "ParseInt")
  \/ lines[k] <= 1 + got[k] /\ Fail(k, "scan", "read")

Dial(k) ==
  /\ Running /\ job[k] = "dial"
  /\ job' = [job EXCEPT ![k] = "write"]
  /\ UNCHANGED <<cfg, val, pc, step, part, got, agentvars, res, shown, err, faulty>>

(* The command has been written: the agent starts. *)
Spawn(k) ==
  /\ Running /\ job[k] = "write"
  /\ job' = [job EXCEPT ![k] = "rate"]
  /\ \E a \in Started(k) : agent' = [agent EXCEPT ![k] = a]
  /\ UNCHANGED <<cfg, val, pc, step, part, got, lines, cut, res, shown, err, faulty>>

(* The first line; that there is none is noticed later. *)
ScanRate(k) ==
  /\ Running /\ job[k] = "rate"
  /\ lines[k] > 0 \/ agent[k] = "gone"
  /\ job' = [job EXCEPT ![k] = "scan"]
  /\ UNCHANGED <<cfg, val, pc, step, part, got, agentvars, res, shown, err, faulty>>

(* A loop that ends one sample late. *)
Enough_late(k, i) == i > part[k].samples

(* The loop over the samples breaks off when it has enough. *)
Enough(k, i) == i >= part[k].samples

(* A turn of the loop: ans.samples has no room if no samples were wanted. *)
ScanSample(k) ==
  /\ Running /\ job[k] = "scan"
  /\ lines[k] > 1 + got[k]
  /\ IF got[k] >= part[k].samples
     THEN Exit("index") /\ UNCHANGED jobvars
     ELSE /\ got' = [got EXCEPT ![k] = @ + 1]
          /\ job' = [job EXCEPT ![k] = IF Enough(k, got[k] + 1) THEN "send" ELSE @]
          /\ UNCHANGED <<pc, err>>
  /\ UNCHANGED <<cfg, val, step, part, agentvars, res, shown, faulty>>

Complete(k) == got[k] = part[k].samples

(* The connection is closed before there were enough. *)
ScanEof(k) ==
  /\ Running /\ job[k] = "scan"
  /\ lines[k] <= 1 + got[k] /\ agent[k] = "gone"
  /\ IF Complete(k)
     THEN job' = [job EXCEPT ![k] = "send"] /\ UNCHANGED <<pc, err>>
     ELSE Exit("Not enough samples") /\ UNCHANGED job
  /\ UNCHANGED <<cfg, val, step, part, got, agentvars, res, shown, faulty>>

-----------------------------------------------------------------------------
(* doExperiment and measure *)

WarmupDone ==
  /\ pc = "warmup" /\ job[0] = "send"
  /\ job' = [job EXCEPT ![0] = "received"]
  /\ pc' = "step"
  /\ UNCHANGED <<cfg, val, step, part, got, agentvars, res, shown, err, faulty>>

(* measure up to its second loop: a goroutine for each part. *)
StartStep ==
  /\ pc = "step" /\ step <= cfg.steps
  /\ part' = [k \in Jobs |-> IF k = 0 THEN part[0] ELSE divCfg(stepRate(step))[k]]
  /\ job' = [k \in Jobs |-> IF k = 0 THEN job[0] ELSE "dial"]
  /\ got' = [k \in Jobs |-> 0]
  /\ agent' = [k \in Jobs |-> "none"] /\ lines' = [k \in Jobs |-> 0] /\ cut' = {}
  /\ res' = NoResult
  /\ pc' = "gather"
  /\ UNCHANGED <<cfg, val, step, shown, err, faulty>>

LastStep ==
  /\ pc = "step" /\ step > cfg.steps
  /\ pc' = "done"
  /\ UNCHANGED <<cfg, val, step, part, jobvars, agentvars, res, shown, err, faulty>>

Received == Cardinality({k \in Agents : job'[k] = "received"})

(* A gathering loop that takes one turn too many. *)
AllIn_one_more == Received > cfg.cnt

(* The gathering loop takes cnt turns. *)
AllIn == Received >= cfg.cnt

(* The last line of agent k, if it was cut off and has been read: sample   *)
(* got[k], or the rate, as <<k, 0>>.                                       *)
CutIn(k) == IF k \in cut /\ lines[k] = 1 + got[k] THEN {<<k, got[k]>>} ELSE {}

accum(k) ==
  [offered |-> res.offered + part[k].reqsPerSec,
   rates   |-> res.rates + (IF lines[k] > 0 THEN 1 ELSE 0),
   samples |-> res.samples \o [j \in 1 .. got[k] |-> <<k, j>>],
   cut     |-> res.cut \cup CutIn(k)]

(* The channel is not buffered: a goroutine hands over its part when main  *)
(* receives it.                                                            *)
Receive(k) ==
  /\ pc = "gather" /\ job[k] = "send"
  /\ job' = [job EXCEPT ![k] = "received"]
  /\ res' = accum(k)
  /\ pc' = IF AllIn THEN "display" ELSE pc
  /\ UNCHANGED <<cfg, val, step, part, got, agentvars, shown, err, faulty>>

Fractions == {<<0, 1>>, <<99, 100>>, <<999, 1000>>, <<9999, 10000>>, <<1, 1>>}

(* The samples as they were read: one that is cut off has lost a digit.    *)
Values(ids, cuts) ==
  [i \in DOMAIN ids |-> LET v == val[ids[i][1]][ids[i][2]]
                        IN  IF ids[i] \in cuts THEN v \div 10 ELSE v]

(* display sorts the samples, and panics if there are none. *)
Display ==
  /\ pc = "display"
  /\ IF res.samples = << >>
     THEN Exit("index") /\ UNCHANGED <<shown, step>>
     ELSE /\ shown' = Append(shown,
               [offered |-> res.offered, rates |-> res.rates, ids |-> res.samples,
                cut |-> res.cut,
                pct |-> [p \in Fractions |-> percentile(Values(res.samples, res.cut), p)]])
          /\ step' = step + 1
          /\ pc' = "step"
          /\ UNCHANGED err
  /\ UNCHANGED <<cfg, val, part, jobvars, agentvars, res, faulty>>

-----------------------------------------------------------------------------
Measure(k) == Dial(k) \/ Spawn(k) \/ ScanRate(k) \/ ScanSample(k) \/ ScanEof(k)

Main == WarmupDone \/ StartStep \/ LastStep \/ (\E k \in Agents : Receive(k)) \/ Display

Next ==
  \/ Main
  \/ \E k \in Jobs : Measure(k) \/ MeasureError(k) \/ AgentPrints(k) \/ AgentEnds(k)

(* Main, each goroutine and each agent that has not hung keep running. *)
Fairness ==
  /\ WF_vars(Main)
  /\ WF_vars(\E k \in Jobs : Measure(k))
  /\ WF_vars(\E k \in Jobs : AgentPrints(k) \/ AgentEnds(k))

Spec == Init /\ [][Next]_vars /\ Fairness

-----------------------------------------------------------------------------
(* Properties *)

Parts == [samples : Nat, reqsPerSec : Nat, conns : Nat]

(* Every variable keeps its type. *)
TypeOK ==
  /\ cfg \in Cfgs /\ val \in Latencies
  /\ pc \in {"warmup", "step", "gather", "display", "done", "exit"}
  /\ step \in 1 .. cfg.steps + 1
  /\ part \in [Jobs -> Parts]
  /\ job \in [Jobs -> {"idle", "dial", "write", "rate", "scan", "send", "received"}]
  /\ \A k \in Jobs : got[k] \in 0 .. part[k].samples /\ lines[k] \in Nat
  /\ agent \in [Jobs -> {"none", "running", "hung", "gone"}] /\ cut \subseteq Jobs
  /\ res.offered \in Nat /\ res.rates \in 0 .. cfg.cnt
  /\ res.samples \in Seq(Agents \X Nat) /\ res.cut \subseteq Agents \X Nat
  /\ err \in {"none", "dial", "write", "ParseFloat", "ParseInt", "read", "index",
              "Not enough samples"}
  /\ faulty \in BOOLEAN

(* What is displayed for a step is the whole of it: the offered rate is    *)
(* the rate of the step, every agent that sampled has reported its rate,   *)
(* and the samples are as many as were asked for, none twice, each agent's *)
(* its first ones in their order, in whatever order the agents came in and *)
(* whatever failed on the way.  What an agent that breaks off can damage   *)
(* is the last of its samples, which may be cut (measureOne, measure,      *)
(* divCfg).                                                                *)
ResultComplete ==
  \A i \in DOMAIN shown :
    LET ids == shown[i].ids
    IN  /\ shown[i].offered = stepRate(i)
        /\ Len(ids) = cfg.samples
        /\ cfg.samples >= cfg.cnt => shown[i].rates = cfg.cnt
        /\ \A a, b \in DOMAIN ids :
             a < b /\ ids[a][1] = ids[b][1] => ids[a][2] < ids[b][2]
        /\ \E n \in [Agents -> 0 .. cfg.samples] :
             /\ {ids[a] : a \in DOMAIN ids} =
                  {s \in Agents \X (1 .. cfg.samples) : s[2] <= n[s[1]]}
             /\ \A k, l \in Agents : n[k] - n[l] \in {-1, 0, 1}
        /\ shown[i].cut # {} => faulty
        /\ \A s \in shown[i].cut : \A a \in DOMAIN ids :
             ids[a][1] = s[1] => ids[a][2] <= s[2]

(* Displayed percentiles are samples one rank off at most from the nearest *)
(* rank, never above it, and the first and last are the least and the      *)
(* greatest sample; Accum::percentile is the nearest rank exactly, for the *)
(* fractions it is asked for (result.percentile, Accum::percentile).       *)
PercentilesBracketed ==
  \A i \in DOMAIN shown : \A p \in Fractions :
    LET vals == Values(shown[i].ids, shown[i].cut)
        n    == Len(vals)
        here == shown[i].pct[p]
    IN  /\ p[1] > 0 => IsNearestRank(vals, p, AccumPercentile(vals, p))
        /\ p[1] = 0 => \A j \in DOMAIN vals : here <= vals[j]
        /\ p[1] = p[2] => \A j \in DOMAIN vals : here >= vals[j]
        /\ \E j \in DOMAIN vals : vals[j] = here
        /\ p[1] > 0 => here <= AccumPercentile(vals, p)
        /\ (AtMost(vals, here) + 1) * p[2] >= p[1] * n

(* If nothing outside fails, the agents know their options and each gets a *)
(* sample, a request a second and a connection to make it on, the          *)
(* coordinator does not fail: an agent never prints fewer samples than it  *)
(* is asked for, and none of the indices of coord.go is out of range.      *)
FailsForAReason ==
  err # "none" =>
    \/ faulty
    \/ cfg.mode = "unknown"
    \/ \E k \in Agents : 0 \in {part[k].samples, part[k].reqsPerSec, part[k].conns}

(* The coordinator ends, having displayed every step or failed, unless an  *)
(* agent that was given no rate hangs; goroutines, main and agents never   *)
(* wait for each other in a circle.                                        *)
CoordinatorEnds ==
  <>(\/ pc = "done" /\ Len(shown) = cfg.steps
     \/ pc = "exit"
     \/ \E k \in Agents : agent[k] = "hung")

==================================================================================

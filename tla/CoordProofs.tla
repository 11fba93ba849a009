------------------------------- MODULE CoordProofs -------------------------------
EXTENDS Coord, SequenceTheorems, FiniteSetTheorems, TLAPS

(***************************************************************************)
(* Proofs about the coordinator (coord.go), for every set of command       *)
(* lines, of agents and steps.                                             *)
(*                                                                         *)
(* The line that display prints is complete because divCfg leaves nothing  *)
(* out and measure() adds up each agent's result once.  The inductive      *)
(* invariant says what has been added up while some agents are still at    *)
(* work: the shares of the agents in R, as a closed form (Shares), since a *)
(* sum over the agents would need an induction over them.                  *)
(***************************************************************************)

(* The agents whose results main has received. *)
R == {k \in Agents : job[k] = "received"}

(* What the agents in S get of a total: a quotient each, and one more for  *)
(* each of the first total % cnt.                                          *)
Shares(total, S) ==
  Cardinality(S) * (total \div cfg.cnt)
    + Cardinality({k \in S : k - 1 < total % cfg.cnt})

(* A part with something of everything, for an agent that knows its        *)
(* options: it has no reason to fail.                                      *)
Sound(p) == cfg.mode # "unknown" /\ p.samples # 0 /\ p.reqsPerSec # 0 /\ p.conns # 0

Domains ==
  /\ got \in [Jobs -> Nat] /\ lines \in [Jobs -> Nat]
  /\ DOMAIN res = {"offered", "rates", "samples", "cut"}

(* A job has read no more than has arrived, goes on reading as long as it  *)
(* wants more, and hands over all it was asked for.                        *)
Reading(k) ==
  /\ job[k] \in {"idle", "dial", "write"} => agent[k] = "none"
  /\ job[k] \in {"idle", "dial", "write", "rate"} => got[k] = 0
  /\ agent[k] = "none" => lines[k] = 0
  /\ got[k] > 0 => lines[k] > got[k]
  /\ job[k] = "scan" => got[k] < part[k].samples \/ part[k].samples = 0
  /\ job[k] = "send" \/ (job[k] = "received" /\ k # 0) => got[k] = part[k].samples

(* An agent that has something of everything prints all of its lines. *)
Printing(k) ==
  ~ faulty /\ Sound(part[k]) =>
    /\ agent[k] # "hung"
    /\ agent[k] = "gone" => lines[k] = 1 + AgentSamples(part[k])

(* What main and its jobs do in each phase. *)
Phases ==
  /\ pc = "exit" <=> err # "none"
  /\ part[0] = WarmupCfg
  /\ pc \in {"step", "gather", "display", "done"} => job[0] = "received"
  /\ pc \in {"gather", "display"} =>
       /\ step <= cfg.steps
       /\ \A k \in Agents : part[k] = divCfg(stepRate(step))[k] /\ job[k] # "idle"
  /\ pc = "warmup" => \A k \in Agents : job[k] = "idle"
  /\ pc \in {"step", "done"} => \A k \in Agents : job[k] \in {"idle", "received"}
  /\ pc = "display" => R = Agents

(* The samples of an agent are in order, and ids has exactly the first     *)
(* g[k] of each agent k in S.                                              *)
InOrder(ids) ==
  \A a, b \in DOMAIN ids : a < b /\ ids[a][1] = ids[b][1] => ids[a][2] < ids[b][2]

Collected(ids, S, g) ==
  /\ \A a \in DOMAIN ids : ids[a][1] \in S /\ ids[a][2] \in 1 .. g[ids[a][1]]
  /\ \A k \in S : \A j \in 1 .. g[k] : \E a \in DOMAIN ids : ids[a] = <<k, j>>

(* The result that measure() accumulates is that of the agents in R. *)
Gathered ==
  pc \in {"gather", "display"} =>
    /\ res.offered = Shares(stepRate(step), R)
    /\ Len(res.samples) = Shares(cfg.samples, R)
    /\ res.rates \in 0 .. Cardinality(R)
    /\ cfg.samples >= cfg.cnt => res.rates = Cardinality(R)
    /\ InOrder(res.samples)
    /\ Collected(res.samples, R, got)

(* Each line displayed was complete. *)
Line(x, i) ==
  /\ x.offered = stepRate(i)
  /\ Len(x.ids) = cfg.samples
  /\ cfg.samples >= cfg.cnt => x.rates = cfg.cnt
  /\ InOrder(x.ids)
  /\ \E n \in [Agents -> 0 .. cfg.samples] :
       /\ {x.ids[a] : a \in DOMAIN x.ids} =
            {s \in Agents \X (1 .. cfg.samples) : s[2] <= n[s[1]]}
       /\ \A k, l \in Agents : n[k] - n[l] \in {-1, 0, 1}

Displayed ==
  /\ \E S : shown \in Seq(S)
  /\ Len(shown) = step - 1
  /\ \A i \in 1 .. Len(shown) : Line(shown[i], i)

IInv ==
  /\ TypeOK /\ Domains
  /\ \A k \in Jobs : Reading(k) /\ Printing(k)
  /\ Phases /\ Gathered /\ Displayed /\ FailsForAReason

-----------------------------------------------------------------------------
(* Shares of a total. *)

(* What the command line and the measurement of warmup() are. *)
LEMMA CfgTypes ==
  ASSUME cfg \in Cfgs
  PROVE  /\ cfg.samples \in Nat /\ cfg.reqsPerSec \in Nat /\ cfg.conns \in Nat
         /\ cfg.cnt \in Nat \ {0} /\ cfg.steps \in Nat
         /\ WarmupCfg \in Parts /\ (cfg.mode # "unknown" => Sound(WarmupCfg))
BY CfgsAssumption DEF Parts, Sound

(* A number is its quotient times the divisor plus its remainder. *)
LEMMA Division ==
  ASSUME NEW x \in Nat, NEW n \in Nat \ {0}
  PROVE  x \div n \in Nat /\ x % n \in 0 .. n - 1 /\ x = n * (x \div n) + (x % n)
OBVIOUS

(* Sets of agents are finite, and so is what they get. *)
LEMMA AgentSets ==
  ASSUME cfg \in Cfgs, NEW S \in SUBSET Agents
  PROVE  /\ IsFiniteSet(S) /\ Cardinality(S) \in 0 .. cfg.cnt
         /\ IsFiniteSet(Agents) /\ Cardinality(Agents) = cfg.cnt
         /\ Cardinality(S) = cfg.cnt <=> S = Agents
<1>1. cfg.cnt \in Nat \ {0}
  BY CfgTypes
<1>2. IsFiniteSet(Agents) /\ Cardinality(Agents) = cfg.cnt
  <2>1. IsFiniteSet(1 .. cfg.cnt) /\ Cardinality(1 .. cfg.cnt) = IF 1 > cfg.cnt THEN 0 ELSE cfg.cnt - 1 + 1
    BY <1>1, FS_Interval, SMTT(30)
  <2> QED
    BY <1>1, <2>1 DEF Agents
<1>3. /\ IsFiniteSet(S) /\ Cardinality(S) <= Cardinality(Agents)
      /\ Cardinality(S) = Cardinality(Agents) => S = Agents
  BY <1>2, FS_Subset
<1>4. Cardinality(S) \in Nat
  BY <1>3, FS_CardinalityType
<1> QED
  BY <1>1, <1>2, <1>3, <1>4

(* One more agent gets its share. *)
LEMMA SharesAdd ==
  ASSUME cfg \in Cfgs, NEW S \in SUBSET Agents, NEW k \in Agents, k \notin S, NEW total \in Nat
  PROVE  /\ Cardinality(S \cup {k}) = Cardinality(S) + 1
         /\ Shares(total, S \cup {k}) = Shares(total, S) + share(total, cfg.cnt, k)
         /\ Shares(total, S) \in Nat /\ share(total, cfg.cnt, k) \in Nat
<1> DEFINE q == total \div cfg.cnt
           r == total % cfg.cnt
           more(T) == {j \in T : j - 1 < r}
<1>1. cfg.cnt \in Nat \ {0} /\ q \in Nat /\ r \in Nat
  <2>1. cfg.cnt \in Nat \ {0} /\ q \in Nat /\ r \in 0 .. cfg.cnt - 1
    BY CfgTypes, Division
  <2> HIDE DEF r
  <2> QED
    BY <2>1
<1>2. IsFiniteSet(S) /\ Cardinality(S) \in Nat
  BY AgentSets
<1>3. Cardinality(S \cup {k}) = Cardinality(S) + 1
  BY <1>2, FS_AddElement
<1>4. more(S) \in SUBSET Agents /\ IsFiniteSet(more(S)) /\ Cardinality(more(S)) \in Nat
  <2>1. more(S) \in SUBSET Agents
    OBVIOUS
  <2> HIDE DEF more
  <2> QED
    BY <2>1, AgentSets
<1>5. Cardinality(more(S \cup {k})) = Cardinality(more(S)) + (IF k - 1 < r THEN 1 ELSE 0)
  <2>1. CASE k - 1 < r
    <3>1. more(S \cup {k}) = more(S) \cup {k} /\ k \notin more(S)
      BY <2>1
    <3> HIDE DEF more
    <3>2. Cardinality(more(S) \cup {k}) = Cardinality(more(S)) + 1
      BY <1>4, <3>1, FS_AddElement
    <3> QED
      BY <2>1, <3>1, <3>2
  <2>2. CASE ~ (k - 1 < r)
    <3>1. more(S \cup {k}) = more(S)
      BY <2>2
    <3> HIDE DEF more
    <3> QED
      BY <1>4, <2>2, <3>1
  <2> QED
    BY <2>1, <2>2
<1>6. /\ Shares(total, S \cup {k}) = (Cardinality(S) + 1) * q + Cardinality(more(S \cup {k}))
      /\ Shares(total, S) = Cardinality(S) * q + Cardinality(more(S))
      /\ share(total, cfg.cnt, k) = q + (IF k - 1 < r THEN 1 ELSE 0)
  BY <1>3 DEF Shares, share
<1> DEFINE n == Cardinality(S)
           m == Cardinality(more(S))
           x == IF k - 1 < r THEN 1 ELSE 0
<1>7. n \in Nat /\ m \in Nat /\ x \in Nat
  BY <1>2, <1>4
<1>8. Cardinality(more(S \cup {k})) = m + x
  BY <1>5
<1> HIDE DEF n, m, x, q, r, more
<1>9. (n + 1) * q = n * q + q /\ n * q \in Nat
  BY <1>1, <1>7
<1>10. (n + 1) * q + (m + x) = (n * q + m) + (q + x)
  BY <1>1, <1>7, <1>9
<1>11. Shares(total, S \cup {k}) = (n + 1) * q + (m + x)
  BY <1>6, <1>8 DEF n
<1>12. Shares(total, S) = n * q + m /\ share(total, cfg.cnt, k) = q + x
  BY <1>6 DEF n, m, x
<1> QED
  BY <1>1, <1>3, <1>7, <1>9, <1>10, <1>11, <1>12

(* Nobody gets nothing; all together get the total. *)
LEMMA SharesEnds ==
  ASSUME cfg \in Cfgs, NEW total \in Nat
  PROVE  Shares(total, {}) = 0 /\ Shares(total, Agents) = total
<1> DEFINE q == total \div cfg.cnt
           r == total % cfg.cnt
<1>1. cfg.cnt \in Nat \ {0} /\ q \in Nat /\ r \in 0 .. cfg.cnt - 1 /\ total = cfg.cnt * q + r
  BY CfgTypes, Division
<1>2. Shares(total, {}) = 0
  <2>1. Cardinality({}) = 0 /\ {k \in {} : k - 1 < r} = {}
    BY FS_EmptySet
  <2>2. Shares(total, {}) = 0 * q + 0
    BY <2>1 DEF Shares
  <2> HIDE DEF q
  <2> QED
    BY <1>1, <2>2
<1>3. Cardinality(Agents) = cfg.cnt
  BY AgentSets
<1>4. {k \in Agents : k - 1 < r} = 1 .. r
  <2> HIDE DEF r
  <2> QED
    BY <1>1 DEF Agents
<1>5. Cardinality(1 .. r) = r
  <2> HIDE DEF r
  <2>1. Cardinality(1 .. r) = IF 1 > r THEN 0 ELSE r - 1 + 1
    BY <1>1, FS_Interval
  <2> QED
    BY <1>1, <2>1
<1>6. Shares(total, Agents) = cfg.cnt * q + r
  BY <1>3, <1>4, <1>5 DEF Shares
<1> QED
  BY <1>1, <1>2, <1>6

(* A share is part of the total; two shares differ by one at most; and a   *)
(* total of one for each leaves nobody without.                            *)
LEMMA ShareBounds ==
  ASSUME cfg \in Cfgs, NEW total \in Nat, NEW k \in Agents, NEW l \in Agents
  PROVE  /\ share(total, cfg.cnt, k) \in 0 .. total
         /\ share(total, cfg.cnt, k) - share(total, cfg.cnt, l) \in {-1, 0, 1}
         /\ total >= cfg.cnt => share(total, cfg.cnt, k) > 0
<1> DEFINE c == cfg.cnt
           q == total \div c
           r == total % c
<1>1. c \in Nat \ {0} /\ q \in Nat /\ r \in 0 .. c - 1 /\ total = c * q + r
  BY CfgTypes, Division
<1>2. /\ share(total, c, k) = q + (IF k - 1 < r THEN 1 ELSE 0)
      /\ share(total, c, l) = q + (IF l - 1 < r THEN 1 ELSE 0)
  BY DEF share
<1>3. k \in 1 .. c
  BY DEF Agents
<1> HIDE DEF c, q, r
<1>4. c * q >= q
  BY <1>1
<1>5. c * q \in Nat
  BY <1>1
<1>6. k - 1 < r => r >= 1
  BY <1>1, <1>3
<1>7. share(total, c, k) \in 0 .. total
  BY <1>1, <1>2, <1>4, <1>5, <1>6
<1>8. share(total, c, k) - share(total, c, l) \in {-1, 0, 1}
  BY <1>1, <1>2
<1>9. total >= c => share(total, c, k) > 0
  <2>1. CASE q = 0
    <3>1. c * q = 0
      BY <1>1, <2>1
    <3> QED
      BY <1>1, <3>1
  <2>2. CASE q > 0
    BY <1>1, <1>2, <2>2
  <2> QED
    BY <1>1, <2>1, <2>2
<1> QED
  BY <1>7, <1>8, <1>9 DEF c

-----------------------------------------------------------------------------
(* What a step that leaves something alone keeps. *)

(* The jobs are the warm-up and the agents. *)
LEMMA JobsSplit ==
  ASSUME cfg \in Cfgs
  PROVE  /\ 0 \in Jobs /\ 0 \notin Agents /\ Agents \subseteq Jobs
         /\ \A k \in Jobs : k = 0 \/ k \in Agents
BY CfgTypes DEF Jobs, Agents

(* A job that none of its variables changes. *)
LEMMA KeepJob ==
  ASSUME NEW k, Reading(k), Printing(k), cfg' = cfg, job'[k] = job[k], got'[k] = got[k],
         agent'[k] = agent[k], lines'[k] = lines[k], part'[k] = part[k], faulty => faulty'
  PROVE  Reading(k)' /\ Printing(k)'
<1>1. Reading(k)'
  BY Zenon DEF Reading
<1>2. Printing(k)'
  BY Zenon DEF Printing, Sound
<1> QED
  BY <1>1, <1>2

(* The lines on the screen stay. *)
LEMMA KeepDisplayed ==
  ASSUME Displayed, cfg' = cfg, step' = step, shown' = shown
  PROVE  Displayed'
<1>1. stepRate(0)' = stepRate(0) /\ Agents' = Agents
  BY DEF stepRate, Agents
<1>2. \A x, i : Line(x, i)' <=> Line(x, i)
  BY <1>1, Zenon DEF Line, stepRate, Agents
<1>3. \A i \in 1 .. Len(shown') : Line(shown[i], i)'
  BY <1>2, Zenon DEF Displayed
<1> QED
  BY <1>3, Zenon DEF Displayed

(* What has been gathered stays. *)
LEMMA KeepGathered ==
  ASSUME Gathered, cfg' = cfg, step' = step, res' = res, R' = R,
         \A k \in R : got'[k] = got[k],
         pc' \in {"gather", "display"} => pc \in {"gather", "display"}
  PROVE  Gathered'
<1> SUFFICES ASSUME pc' \in {"gather", "display"} PROVE Gathered'
  BY Zenon DEF Gathered
<1>1. /\ res.offered = Shares(stepRate(step), R)
      /\ Len(res.samples) = Shares(cfg.samples, R)
      /\ res.rates \in 0 .. Cardinality(R)
      /\ cfg.samples >= cfg.cnt => res.rates = Cardinality(R)
      /\ InOrder(res.samples)
      /\ Collected(res.samples, R, got)
  BY Zenon DEF Gathered
<1>2. \A t, S : Shares(t, S)' = Shares(t, S)
  BY DEF Shares
<1>3. stepRate(step)' = stepRate(step)
  BY DEF stepRate
<1>4. Collected(res.samples, R, got')
  BY <1>1, Zenon DEF Collected
<1>5. Shares(stepRate(step), R)' = Shares(stepRate(step), R)
  BY <1>3, Zenon DEF Shares
<1>6. Shares(cfg.samples, R)' = Shares(cfg.samples, R)
  BY Zenon DEF Shares
<1>7. res'.offered = Shares(stepRate(step), R)' /\ Len(res'.samples) = Shares(cfg.samples, R)'
  BY <1>1, <1>5, <1>6, Zenon
<1>8. /\ res'.rates \in 0 .. Cardinality(R')
      /\ cfg'.samples >= cfg'.cnt => res'.rates = Cardinality(R')
  BY <1>1, Zenon
<1>9. InOrder(res'.samples)
  BY <1>1, Zenon
<1>10. Collected(res'.samples, R', got')
  BY <1>4, Zenon
<1> QED
  BY <1>7, <1>8, <1>9, <1>10, Zenon DEF Gathered

(* A reason to fail stays one. *)
LEMMA KeepReason ==
  ASSUME FailsForAReason, cfg' = cfg, err' = err, part' = part, faulty => faulty'
  PROVE  FailsForAReason'
<1>1. Agents' = Agents
  BY DEF Agents
<1> QED
  BY <1>1, Zenon DEF FailsForAReason

-----------------------------------------------------------------------------
(* Steps of a job or an agent, and steps that end the process. *)

States == {"idle", "dial", "write", "rate", "scan", "send", "received"}
Busy   == {"dial", "write", "rate", "scan"}
Errors == {"dial", "write", "ParseFloat", "ParseInt", "read", "index", "Not enough samples"}
AgentStates == {"none", "running", "hung", "gone"}

(* The types of the variables the jobs use. *)
LEMMA Types ==
  ASSUME IInv
  PROVE  /\ cfg \in Cfgs /\ faulty \in BOOLEAN
         /\ part \in [Jobs -> Parts] /\ job \in [Jobs -> States]
         /\ got \in [Jobs -> Nat] /\ lines \in [Jobs -> Nat] /\ agent \in [Jobs -> AgentStates]
         /\ cut \subseteq Jobs
         /\ \A k \in Jobs : got[k] \in 0 .. part[k].samples /\ part[k].samples \in Nat
         /\ \A k \in Jobs : Reading(k) /\ Printing(k)
<1>1. /\ cfg \in Cfgs /\ faulty \in BOOLEAN
      /\ part \in [Jobs -> Parts] /\ job \in [Jobs -> States]
      /\ got \in [Jobs -> Nat] /\ lines \in [Jobs -> Nat] /\ agent \in [Jobs -> AgentStates]
      /\ cut \subseteq Jobs
      /\ \A k \in Jobs : got[k] \in 0 .. part[k].samples
      /\ \A k \in Jobs : Reading(k) /\ Printing(k)
  BY Zenon DEF IInv, TypeOK, Domains, States, AgentStates
<1>2. \A k \in Jobs : part[k].samples \in Nat
  BY <1>1 DEF Parts
<1> QED
  BY <1>1, <1>2, Zenon

(* Only the warm-up job works during the warm-up, and after it only the    *)
(* agents of a step.                                                       *)
LEMMA JobPhase ==
  ASSUME IInv, NEW k \in Jobs, Running, job[k] \in Busy
  PROVE  \/ pc = "warmup" /\ k = 0
         \/ pc = "gather" /\ k \in Agents
<1>1. pc \in {"warmup", "step", "gather", "display"}
  BY DEF IInv, TypeOK, Running
<1>2. k = 0 \/ k \in Agents
  BY Types, JobsSplit
<1>3. job[k] # "idle" /\ job[k] # "received"
  BY DEF Busy
<1>4. /\ pc \in {"step", "gather", "display", "done"} => job[0] = "received"
      /\ pc = "warmup" => \A j \in Agents : job[j] = "idle"
      /\ pc \in {"step", "done"} => \A j \in Agents : job[j] \in {"idle", "received"}
      /\ pc = "display" => \A j \in Agents : job[j] = "received"
  BY DEF IInv, Phases, R
<1> QED
  BY <1>1, <1>2, <1>3, <1>4

(* A step of job or agent k keeps the invariant if it keeps what concerns  *)
(* k.                                                                      *)
LEMMA JobStep ==
  ASSUME IInv, NEW k \in Jobs, Running,
         UNCHANGED <<cfg, val, pc, step, part, res, shown, err>>,
         faulty => faulty', faulty' \in BOOLEAN,
         job' \in [Jobs -> States], got' \in [Jobs -> Nat], lines' \in [Jobs -> Nat],
         agent' \in [Jobs -> AgentStates], cut' \subseteq Jobs,
         \A j \in Jobs : j # k => /\ job'[j] = job[j] /\ got'[j] = got[j]
                                  /\ lines'[j] = lines[j] /\ agent'[j] = agent[j],
         \/ job'[k] = job[k] /\ got'[k] = got[k]
         \/ job[k] \in Busy /\ job'[k] \in {"write", "rate", "scan", "send"},
         got'[k] \in 0 .. part[k].samples,
         Reading(k)', Printing(k)'
  PROVE  IInv'
<1>1. /\ cfg' = cfg /\ val' = val /\ pc' = pc /\ step' = step /\ part' = part /\ res' = res
      /\ shown' = shown /\ err' = err
  OBVIOUS
<1>2. Agents' = Agents /\ Jobs' = Jobs
  BY <1>1 DEF Agents, Jobs
<1>3. TypeOK /\ cfg \in Cfgs
  BY DEF IInv, TypeOK
<1>4. TypeOK'
  <2>1. \A j \in Jobs : got'[j] \in 0 .. part[j].samples /\ lines'[j] \in Nat
    BY <1>3, Zenon DEF TypeOK
  <2> QED
    BY <1>1, <1>2, <1>3, <2>1, Zenon DEF TypeOK, States, AgentStates
<1>5. Domains'
  BY <1>1, <1>2, Zenon DEF IInv, Domains
<1>6. \A j \in Jobs : Reading(j)' /\ Printing(j)'
  <2> SUFFICES ASSUME NEW j \in Jobs, j # k PROVE Reading(j)' /\ Printing(j)'
    BY Zenon
  <2> QED
    BY <1>1, Types, KeepJob, Zenon
<1>7. \A j \in Jobs : job'[j] = "received" <=> job[j] = "received"
  <2>1. job'[k] = "received" <=> job[k] = "received"
    BY DEF Busy
  <2> QED
    BY <2>1, Zenon
<1>8. R' = R
  <2>1. \A j \in Agents : job'[j] = "received" <=> job[j] = "received"
    BY <1>3, <1>7, JobsSplit
  <2> QED
    BY <1>2, <2>1 DEF R
<1>9. \A j \in Jobs : job'[j] = "idle" <=> job[j] = "idle"
  <2>1. job'[k] = "idle" <=> job[k] = "idle"
    BY DEF Busy
  <2> QED
    BY <2>1, Zenon
<1>10. Phases'
  <2>1. Phases /\ 0 \in Jobs /\ Agents \subseteq Jobs
    BY <1>3, JobsSplit, Zenon DEF IInv
  <2>2. \A j : divCfg(stepRate(step))'[j] = divCfg(stepRate(step))[j]
    BY <1>1, <1>2 DEF divCfg, stepRate
  <2>3. /\ pc' = "exit" <=> err' # "none"
        /\ part'[0] = WarmupCfg
    BY <1>1, <2>1, Zenon DEF Phases
  <2>4. pc' \in {"step", "gather", "display", "done"} => job'[0] = "received"
    BY <1>1, <1>7, <2>1, Zenon DEF Phases
  <2>5. pc' \in {"gather", "display"} =>
          /\ step' <= cfg'.steps
          /\ \A j \in Agents : part'[j] = divCfg(stepRate(step))'[j] /\ job'[j] # "idle"
    BY <1>1, <1>9, <2>1, <2>2, Zenon DEF Phases
  <2>6. pc' = "warmup" => \A j \in Agents : job'[j] = "idle"
    BY <1>1, <1>9, <2>1, Zenon DEF Phases
  <2>7. pc' \in {"step", "done"} => \A j \in Agents : job'[j] \in {"idle", "received"}
    <3>1. pc \in {"step", "done"} => \A j \in Agents : job[j] = "idle" \/ job[j] = "received"
      BY <2>1 DEF Phases
    <3> QED
      BY <1>1, <1>7, <1>9, <2>1, <3>1
  <2>8. pc' = "display" => R' = Agents
    BY <1>1, <1>8, <2>1, Zenon DEF Phases
  <2> QED
    BY <1>2, <2>3, <2>4, <2>5, <2>6, <2>7, <2>8, Zenon DEF Phases
<1>11. Gathered'
  <2>1. \A j \in R : got'[j] = got[j]
    <3> SUFFICES ASSUME NEW j \in R PROVE got'[j] = got[j]
      OBVIOUS
    <3>1. j \in Jobs /\ job[j] = "received"
      BY <1>3, JobsSplit DEF R
    <3>2. job[j] \notin Busy
      BY <3>1 DEF Busy
    <3> QED
      BY <3>1, <3>2, Zenon
  <2> QED
    BY <1>1, <1>8, <2>1, KeepGathered, Zenon DEF IInv
<1>12. Displayed'
  BY <1>1, KeepDisplayed, Zenon DEF IInv
<1>13. FailsForAReason'
  BY <1>1, KeepReason, Zenon DEF IInv
<1> QED
  BY <1>2, <1>4, <1>5, <1>6, <1>10, <1>11, <1>12, <1>13, Zenon DEF IInv

(* The process ends. *)
LEMMA ExitStep ==
  ASSUME IInv, Running, pc' = "exit", err' \in Errors, faulty => faulty', faulty' \in BOOLEAN,
         UNCHANGED <<cfg, val, step, part, jobvars, agentvars, res, shown>>,
         \/ faulty' \/ cfg.mode = "unknown"
         \/ \E k \in Agents : 0 \in {part[k].samples, part[k].reqsPerSec, part[k].conns}
  PROVE  IInv'
<1>1. /\ cfg' = cfg /\ val' = val /\ step' = step /\ part' = part /\ res' = res
      /\ shown' = shown /\ job' = job /\ got' = got /\ agent' = agent /\ lines' = lines
      /\ cut' = cut
  BY DEF jobvars, agentvars
<1>2. Agents' = Agents /\ Jobs' = Jobs
  BY <1>1 DEF Agents, Jobs
<1>3. err' # "none" /\ err' \in {"none", "dial", "write", "ParseFloat", "ParseInt", "read",
                                 "index", "Not enough samples"}
  BY DEF Errors
<1>4. TypeOK'
  <2>1. TypeOK
    BY DEF IInv
  <2>2. pc' \in {"warmup", "step", "gather", "display", "done", "exit"}
    OBVIOUS
  <2> QED
    BY <1>1, <1>2, <1>3, <2>1, <2>2, Zenon DEF TypeOK
<1>5. Domains'
  BY <1>1, <1>2, Zenon DEF IInv, Domains
<1>6. \A j \in Jobs : Reading(j)' /\ Printing(j)'
  BY <1>1, Types, KeepJob, Zenon
<1>7. Phases'
  <2>1. part[0] = WarmupCfg
    BY DEF IInv, Phases
  <2> QED
    BY <1>1, <1>3, <2>1 DEF Phases
<1>8. Gathered'
  BY DEF Gathered
<1>9. Displayed'
  BY <1>1, KeepDisplayed, Zenon DEF IInv
<1>10. FailsForAReason'
  BY <1>1, <1>2, Zenon DEF FailsForAReason
<1> QED
  BY <1>2, <1>4, <1>5, <1>6, <1>7, <1>8, <1>9, <1>10, Zenon DEF IInv

-----------------------------------------------------------------------------
(* The agents and measureOne. *)

(* Two functions that differ at one place. *)
LEMMA ExceptAt ==
  ASSUME NEW S, NEW T, NEW f \in [S -> T], NEW k \in S, NEW x \in T, NEW g, g = [f EXCEPT ![k] = x]
  PROVE  g \in [S -> T] /\ g[k] = x /\ \A j \in S : j # k => g[j] = f[j]
OBVIOUS

(* An agent prints a line of its result. *)
LEMMA AgentPrintsStep ==
  ASSUME IInv, NEW k \in Jobs, AgentPrints(k)
  PROVE  IInv'
<1>1. /\ Running /\ agent[k] = "running" /\ lines' = [lines EXCEPT ![k] = lines[k] + 1]
      /\ UNCHANGED <<cfg, val, pc, step, part, res, shown, err>>
      /\ job' = job /\ got' = got /\ agent' = agent /\ cut' = cut /\ faulty' = faulty /\ part' = part
  BY DEF AgentPrints, jobvars
<1>2. /\ faulty \in BOOLEAN /\ job \in [Jobs -> States] /\ got \in [Jobs -> Nat]
      /\ lines \in [Jobs -> Nat] /\ agent \in [Jobs -> AgentStates] /\ cut \subseteq Jobs
      /\ got[k] \in 0 .. part[k].samples /\ got[k] \in Nat /\ lines[k] \in Nat
      /\ Reading(k) /\ Printing(k)
  BY Types
<1>3. /\ lines' \in [Jobs -> Nat] /\ lines'[k] = lines[k] + 1
      /\ \A j \in Jobs : j # k => lines'[j] = lines[j]
  <2>1. lines[k] + 1 \in Nat
    BY <1>2
  <2> QED
    BY <1>1, <1>2, <2>1, ExceptAt, Zenon
<1>4. Reading(k)'
  BY <1>1, <1>2, <1>3 DEF Reading
<1>5. Printing(k)'
  BY <1>1 DEF Printing, Sound
<1> QED
  BY <1>1, <1>2, <1>3, <1>4, <1>5, JobStep, Zenon

(* An agent ends, hangs or dies. *)
LEMMA AgentEndsStep ==
  ASSUME IInv, NEW k \in Jobs, AgentEnds(k)
  PROVE  IInv'
<1>1. /\ Running /\ agent[k] = "running" /\ agent' = [agent EXCEPT ![k] = "gone"]
      /\ UNCHANGED <<cfg, val, pc, step, part, res, shown, err>>
      /\ job' = job /\ got' = got /\ part' = part
      /\ \/ /\ lines[k] = 1 + AgentSamples(part[k]) /\ faulty' = faulty
            /\ lines' = lines /\ cut' = cut
         \/ /\ faulty' = TRUE
            /\ \/ lines' = lines /\ cut' = cut
               \/ lines' = [lines EXCEPT ![k] = lines[k] + 1] /\ cut' = cut \cup {k}
  BY Zenon DEF AgentEnds, jobvars
<1>2. /\ faulty \in BOOLEAN /\ job \in [Jobs -> States] /\ got \in [Jobs -> Nat]
      /\ lines \in [Jobs -> Nat] /\ agent \in [Jobs -> AgentStates] /\ cut \subseteq Jobs
      /\ got[k] \in 0 .. part[k].samples /\ Reading(k) /\ Printing(k)
      /\ got[k] \in Nat /\ lines[k] \in Nat
  BY Types
<1>3. /\ agent' \in [Jobs -> AgentStates] /\ agent'[k] = "gone"
      /\ \A j \in Jobs : j # k => agent'[j] = agent[j]
  <2>1. "gone" \in AgentStates
    BY DEF AgentStates
  <2> QED
    BY <1>1, <1>2, <2>1, ExceptAt, Zenon
<1>4. /\ lines' \in [Jobs -> Nat] /\ \A j \in Jobs : j # k => lines'[j] = lines[j]
      /\ lines'[k] = lines[k] \/ (lines'[k] = lines[k] + 1 /\ faulty' = TRUE)
  <2>1. lines[k] + 1 \in Nat
    BY <1>2
  <2>2. CASE lines' = lines
    BY <1>2, <2>2, Zenon
  <2>3. CASE faulty' = TRUE /\ lines' = [lines EXCEPT ![k] = lines[k] + 1]
    BY <1>2, <2>1, <2>3, ExceptAt, Zenon
  <2> QED
    BY <1>1, <2>2, <2>3, Zenon
<1>5. Reading(k)'
  BY <1>1, <1>2, <1>3, <1>4 DEF Reading
<1>6. Printing(k)'
  BY <1>1, <1>3, <1>4 DEF Printing, Sound
<1>7. faulty' \in BOOLEAN /\ (faulty => faulty') /\ cut' \subseteq Jobs
  BY <1>1, <1>2
<1> QED
  BY <1>1, <1>2, <1>3, <1>4, <1>5, <1>6, <1>7, JobStep, Zenon

(* A call of measureOne fails, and checkError ends the process. *)
LEMMA MeasureErrorStep ==
  ASSUME IInv, NEW k \in Jobs, MeasureError(k)
  PROVE  IInv'
<1>1. PICK e \in Errors : \E at \in States : Fail(k, at, e)
  BY DEF MeasureError, Errors, States
<1>2. /\ Running /\ faulty' = TRUE /\ pc' = "exit" /\ err' = e
      /\ UNCHANGED <<cfg, val, step, part, jobvars, agentvars, res, shown>>
  BY <1>1 DEF Fail, Exit
<1> QED
  BY <1>1, <1>2, ExitStep

(* A step that only moves the job. *)
LEMMA Moved ==
  ASSUME IInv, NEW k \in Jobs, NEW x \in {"write", "rate", "scan", "send"},
         job' = [job EXCEPT ![k] = x]
  PROVE  /\ job' \in [Jobs -> States] /\ job'[k] = x
         /\ \A j \in Jobs : j # k => job'[j] = job[j]
<1>1. x \in States /\ job \in [Jobs -> States]
  BY Types DEF States
<1> QED
  BY <1>1, ExceptAt, Zenon

(* measureOne connects to its agent. *)
LEMMA DialStep ==
  ASSUME IInv, NEW k \in Jobs, Dial(k)
  PROVE  IInv'
<1>1. /\ Running /\ job[k] = "dial" /\ job' = [job EXCEPT ![k] = "write"]
      /\ UNCHANGED <<cfg, val, pc, step, part, res, shown, err>>
      /\ agent' = agent /\ got' = got /\ lines' = lines /\ cut' = cut /\ part' = part /\ faulty' = faulty
  BY DEF Dial, agentvars
<1>2. /\ faulty \in BOOLEAN /\ got \in [Jobs -> Nat]
      /\ lines \in [Jobs -> Nat] /\ agent \in [Jobs -> AgentStates] /\ cut \subseteq Jobs
      /\ got[k] \in 0 .. part[k].samples /\ Reading(k) /\ Printing(k)
  BY Types
<1>3. /\ job' \in [Jobs -> States] /\ job'[k] = "write"
      /\ \A j \in Jobs : j # k => job'[j] = job[j]
  BY <1>1, Moved
<1>4. Reading(k)' /\ Printing(k)'
  BY <1>1, <1>2, <1>3 DEF Reading, Printing, Sound
<1>5. job[k] \in Busy /\ job'[k] \in {"write", "rate", "scan", "send"}
  BY <1>1, <1>3 DEF Busy
<1> QED
  BY <1>1, <1>2, <1>3, <1>4, <1>5, JobStep, Zenon

(* measureOne writes the command, and the agent starts. *)
LEMMA SpawnStep ==
  ASSUME IInv, NEW k \in Jobs, Spawn(k)
  PROVE  IInv'
<1>1. PICK a \in Started(k) : agent' = [agent EXCEPT ![k] = a]
  BY DEF Spawn
<1>2. /\ Running /\ job[k] = "write" /\ job' = [job EXCEPT ![k] = "rate"]
      /\ UNCHANGED <<cfg, val, pc, step, part, res, shown, err>>
      /\ got' = got /\ lines' = lines /\ cut' = cut /\ part' = part /\ faulty' = faulty
  BY DEF Spawn
<1>3. /\ faulty \in BOOLEAN /\ got \in [Jobs -> Nat]
      /\ lines \in [Jobs -> Nat] /\ agent \in [Jobs -> AgentStates] /\ cut \subseteq Jobs
      /\ got[k] \in 0 .. part[k].samples /\ Reading(k) /\ Printing(k)
  BY Types
<1>4. /\ a \in AgentStates /\ a # "none"
      /\ Sound(part[k]) => a = "running"
  BY <1>1 DEF Started, Understood, NoSchedule, EmptyPool, AgentStates, Sound
<1>5. /\ job' \in [Jobs -> States] /\ job'[k] = "rate"
      /\ \A j \in Jobs : j # k => job'[j] = job[j]
  BY <1>2, Moved
<1>6. /\ agent' \in [Jobs -> AgentStates] /\ agent'[k] = a
      /\ \A j \in Jobs : j # k => agent'[j] = agent[j]
  BY <1>1, <1>3, <1>4, ExceptAt, Zenon
<1>7. Reading(k)'
  BY <1>2, <1>3, <1>4, <1>5, <1>6 DEF Reading
<1>8. Printing(k)'
  BY <1>2, <1>4, <1>6 DEF Printing, Sound
<1>9. job[k] \in Busy /\ job'[k] \in {"write", "rate", "scan", "send"}
  BY <1>2, <1>5 DEF Busy
<1> QED
  BY <1>2, <1>3, <1>5, <1>6, <1>7, <1>8, <1>9, JobStep, Zenon

(* measureOne reads the line with the rate. *)
LEMMA ScanRateStep ==
  ASSUME IInv, NEW k \in Jobs, ScanRate(k)
  PROVE  IInv'
<1>1. /\ Running /\ job[k] = "rate" /\ job' = [job EXCEPT ![k] = "scan"]
      /\ UNCHANGED <<cfg, val, pc, step, part, res, shown, err>>
      /\ agent' = agent /\ got' = got /\ lines' = lines /\ cut' = cut /\ part' = part /\ faulty' = faulty
  BY DEF ScanRate, agentvars
<1>2. /\ faulty \in BOOLEAN /\ got \in [Jobs -> Nat]
      /\ lines \in [Jobs -> Nat] /\ agent \in [Jobs -> AgentStates] /\ cut \subseteq Jobs
      /\ got[k] \in 0 .. part[k].samples /\ Reading(k) /\ Printing(k)
      /\ part[k].samples \in Nat
  BY Types
<1>3. /\ job' \in [Jobs -> States] /\ job'[k] = "scan"
      /\ \A j \in Jobs : j # k => job'[j] = job[j]
  BY <1>1, Moved
<1>4. got[k] = 0
  BY <1>1, <1>2 DEF Reading
<1>5. got[k] < part[k].samples \/ part[k].samples = 0
  BY <1>2, <1>4
<1>6. Reading(k)' /\ Printing(k)'
  BY <1>1, <1>2, <1>3, <1>5 DEF Reading, Printing, Sound
<1>7. job[k] \in Busy /\ job'[k] \in {"write", "rate", "scan", "send"}
  BY <1>1, <1>3 DEF Busy
<1> QED
  BY <1>1, <1>2, <1>3, <1>6, <1>7, JobStep, Zenon

(* A part that lacks something belongs to an agent: the warm-up lacks      *)
(* nothing.                                                                *)
LEMMA Lacking ==
  ASSUME IInv, NEW k \in Jobs, Running, job[k] \in Busy, ~ Sound(part[k])
  PROVE  \/ cfg.mode = "unknown"
         \/ \E j \in Agents : 0 \in {part[j].samples, part[j].reqsPerSec, part[j].conns}
<1> SUFFICES ASSUME cfg.mode # "unknown"
             PROVE  \E j \in Agents : 0 \in {part[j].samples, part[j].reqsPerSec, part[j].conns}
  OBVIOUS
<1>1. k # 0
  BY Types, CfgTypes DEF IInv, Phases, Sound
<1>2. k \in Agents
  BY <1>1, Types, JobsSplit
<1> QED
  BY <1>2 DEF Sound

(* measureOne reads a sample. *)
LEMMA ScanSampleStep ==
  ASSUME IInv, NEW k \in Jobs, ScanSample(k)
  PROVE  IInv'
<1>1. /\ Running /\ job[k] = "scan" /\ lines[k] > 1 + got[k]
      /\ UNCHANGED <<cfg, val, step, part, agentvars, res, shown, faulty>>
      /\ agent' = agent /\ lines' = lines /\ cut' = cut /\ part' = part /\ faulty' = faulty
  BY DEF ScanSample, agentvars
<1>2. /\ faulty \in BOOLEAN /\ job \in [Jobs -> States] /\ got \in [Jobs -> Nat]
      /\ lines \in [Jobs -> Nat] /\ agent \in [Jobs -> AgentStates] /\ cut \subseteq Jobs
      /\ got[k] \in 0 .. part[k].samples /\ Reading(k) /\ Printing(k)
      /\ part[k].samples \in Nat /\ got[k] \in Nat /\ lines[k] \in Nat
  BY Types
<1>3. job[k] \in Busy
  BY <1>1 DEF Busy
<1>4. CASE got[k] >= part[k].samples
  <2>1. pc' = "exit" /\ err' = "index" /\ UNCHANGED jobvars
    BY <1>4 DEF ScanSample, Exit
  <2>2. part[k].samples = 0
    BY <1>1, <1>2, <1>4 DEF Reading
  <2>3. ~ Sound(part[k])
    BY <2>2 DEF Sound
  <2>4. \/ cfg.mode = "unknown"
        \/ \E j \in Agents : 0 \in {part[j].samples, part[j].reqsPerSec, part[j].conns}
    BY <1>1, <1>3, <2>3, Lacking
  <2>5. err' \in Errors
    BY <2>1 DEF Errors
  <2>6. UNCHANGED <<cfg, val, step, part, jobvars, agentvars, res, shown>>
    BY <1>1, <2>1, <2>5
  <2>7. (faulty => faulty') /\ faulty' \in BOOLEAN
    BY <1>1, <1>2
  <2> QED
    BY <1>1, <2>1, <2>4, <2>5, <2>6, <2>7, ExitStep, Zenon
<1>5. CASE ~ (got[k] >= part[k].samples)
  <2> DEFINE x == IF Enough(k, got[k] + 1) THEN "send" ELSE "scan"
  <2>1. /\ got' = [got EXCEPT ![k] = got[k] + 1] /\ job' = [job EXCEPT ![k] = x]
        /\ pc' = pc /\ err' = err
    BY <1>1, <1>2, <1>5 DEF ScanSample
  <2>2. got[k] + 1 \in Nat /\ got[k] + 1 <= part[k].samples
    BY <1>2, <1>5
  <2>3. x \in {"write", "rate", "scan", "send"}
    OBVIOUS
  <2>4. /\ x = "send" => got[k] + 1 = part[k].samples
        /\ x = "scan" => got[k] + 1 < part[k].samples
        /\ x = "send" \/ x = "scan"
    BY <1>2, <2>2 DEF Enough
  <2> HIDE DEF x
  <2>5. /\ job' \in [Jobs -> States] /\ job'[k] = x
        /\ \A j \in Jobs : j # k => job'[j] = job[j]
    BY <2>1, <2>3, Moved
  <2>6. /\ got' \in [Jobs -> Nat] /\ got'[k] = got[k] + 1
        /\ \A j \in Jobs : j # k => got'[j] = got[j]
    BY <1>2, <2>1, <2>2, ExceptAt, Zenon
  <2>7. Reading(k)'
    BY <1>1, <1>2, <2>4, <2>5, <2>6 DEF Reading
  <2>8. Printing(k)'
    BY <1>1, <1>2 DEF Printing, Sound
  <2>9. got'[k] \in 0 .. part[k].samples /\ job'[k] \in {"write", "rate", "scan", "send"}
    BY <1>2, <2>2, <2>3, <2>5, <2>6
  <2>10. UNCHANGED <<cfg, val, pc, step, part, res, shown, err>>
    BY <1>1, <2>1
  <2>11. \A j \in Jobs : j # k => /\ job'[j] = job[j] /\ got'[j] = got[j]
                                  /\ lines'[j] = lines[j] /\ agent'[j] = agent[j]
    BY <1>1, <2>5, <2>6, Zenon
  <2>12. /\ (faulty => faulty') /\ faulty' \in BOOLEAN
         /\ lines' \in [Jobs -> Nat] /\ agent' \in [Jobs -> AgentStates] /\ cut' \subseteq Jobs
    BY <1>1, <1>2
  <2> QED
    BY <1>1, <1>3, <2>5, <2>6, <2>7, <2>8, <2>9, <2>10, <2>11, <2>12, JobStep, Zenon
<1> QED
  BY <1>4, <1>5

(* An agent takes a sample for each request, of which there is at least    *)
(* one a second.                                                           *)
LEMMA EnoughPrinted ==
  ASSUME NEW p \in Parts, Sound(p)
  PROVE  AgentSamples(p) \in Nat /\ AgentSamples(p) >= p.samples
<1> DEFINE s == p.samples
           r == p.reqsPerSec
<1>1. s \in Nat \ {0} /\ r \in Nat \ {0}
  BY DEF Parts, Sound
<1>2. AgentSamples(p) = s * r
  BY DEF AgentSamples, Sound
<1> HIDE DEF s, r
<1>3. s * r \in Nat /\ s * r >= s
  BY <1>1
<1> QED
  BY <1>2, <1>3 DEF s

(* measureOne finds the end of what its agent printed. *)
LEMMA ScanEofStep ==
  ASSUME IInv, NEW k \in Jobs, ScanEof(k)
  PROVE  IInv'
<1>1. /\ Running /\ job[k] = "scan" /\ lines[k] <= 1 + got[k] /\ agent[k] = "gone"
      /\ UNCHANGED <<cfg, val, step, part, got, agentvars, res, shown, faulty>>
      /\ agent' = agent /\ lines' = lines /\ cut' = cut /\ part' = part /\ faulty' = faulty /\ got' = got
  BY DEF ScanEof, agentvars
<1>2. /\ faulty \in BOOLEAN /\ job \in [Jobs -> States] /\ got \in [Jobs -> Nat]
      /\ lines \in [Jobs -> Nat] /\ agent \in [Jobs -> AgentStates] /\ cut \subseteq Jobs
      /\ got[k] \in 0 .. part[k].samples /\ Reading(k) /\ Printing(k)
      /\ part[k].samples \in Nat /\ got[k] \in Nat /\ lines[k] \in Nat /\ part[k] \in Parts
  BY Types
<1>3. job[k] \in Busy
  BY <1>1 DEF Busy
<1>4. CASE Complete(k)
  <2>1. job' = [job EXCEPT ![k] = "send"] /\ pc' = pc /\ err' = err
    BY <1>4 DEF ScanEof
  <2>2. /\ job' \in [Jobs -> States] /\ job'[k] = "send"
        /\ \A j \in Jobs : j # k => job'[j] = job[j]
    BY <2>1, Moved
  <2>3. Reading(k)'
    BY <1>1, <1>2, <1>4, <2>2 DEF Reading, Complete
  <2>4. Printing(k)'
    BY <1>1, <1>2 DEF Printing, Sound
  <2>5. job'[k] \in {"write", "rate", "scan", "send"}
    BY <2>2
  <2>6. UNCHANGED <<cfg, val, pc, step, part, res, shown, err>>
    BY <1>1, <2>1
  <2>7. \A j \in Jobs : j # k => /\ job'[j] = job[j] /\ got'[j] = got[j]
                                 /\ lines'[j] = lines[j] /\ agent'[j] = agent[j]
    BY <1>1, <2>2, Zenon
  <2>8. /\ (faulty => faulty') /\ faulty' \in BOOLEAN /\ got' \in [Jobs -> Nat]
        /\ lines' \in [Jobs -> Nat] /\ agent' \in [Jobs -> AgentStates] /\ cut' \subseteq Jobs
        /\ got'[k] \in 0 .. part[k].samples
    BY <1>1, <1>2
  <2> QED
    BY <1>1, <1>3, <2>2, <2>3, <2>4, <2>5, <2>6, <2>7, <2>8, JobStep, Zenon
<1>5. CASE ~ Complete(k)
  <2>1. pc' = "exit" /\ err' = "Not enough samples" /\ job' = job
    BY <1>5 DEF ScanEof, Exit
  <2>2. got[k] < part[k].samples
    BY <1>2, <1>5 DEF Complete
  <2>3. faulty \/ ~ Sound(part[k])
    <3> SUFFICES ASSUME ~ faulty, Sound(part[k]) PROVE FALSE
      OBVIOUS
    <3>1. lines[k] = 1 + AgentSamples(part[k])
      BY <1>1, <1>2 DEF Printing, Sound
    <3>2. AgentSamples(part[k]) \in Nat /\ AgentSamples(part[k]) >= part[k].samples
      BY <1>2, EnoughPrinted
    <3> QED
      BY <1>1, <1>2, <2>2, <3>1, <3>2
  <2>4. \/ faulty' \/ cfg.mode = "unknown"
        \/ \E j \in Agents : 0 \in {part[j].samples, part[j].reqsPerSec, part[j].conns}
    BY <1>1, <1>3, <2>3, Lacking
  <2>5. err' \in Errors /\ UNCHANGED jobvars
    BY <1>1, <2>1 DEF Errors, jobvars
  <2>6. UNCHANGED <<cfg, val, step, part, jobvars, agentvars, res, shown>>
    BY <1>1, <2>1, <2>5
  <2>7. (faulty => faulty') /\ faulty' \in BOOLEAN
    BY <1>1, <1>2
  <2> QED
    BY <1>1, <2>1, <2>4, <2>5, <2>6, <2>7, ExitStep, Zenon
<1> QED
  BY <1>4, <1>5

-----------------------------------------------------------------------------
(* main: doExperiment, measure and display. *)

(* The first state. *)
LEMMA InitIInv ==
  ASSUME Init
  PROVE  IInv
<1>1. /\ cfg \in Cfgs /\ val \in Latencies /\ pc = "warmup" /\ step = 1
      /\ part = [k \in Jobs |-> WarmupCfg]
      /\ job = [k \in Jobs |-> IF k = 0 THEN "dial" ELSE "idle"]
      /\ got = [k \in Jobs |-> 0]
      /\ agent = [k \in Jobs |-> "none"] /\ lines = [k \in Jobs |-> 0] /\ cut = {}
      /\ res = [offered |-> 0, rates |-> 0, samples |-> << >>, cut |-> {}] /\ shown = << >>
      /\ err = "none" /\ faulty = FALSE
  BY DEF Init, NoResult
<1>2. /\ cfg.steps \in Nat /\ cfg.cnt \in Nat \ {0}
      /\ WarmupCfg \in Parts /\ WarmupCfg.samples \in Nat
  BY <1>1, CfgTypes DEF Parts
<1>3. 0 \in Jobs /\ 0 \notin Agents /\ Agents \subseteq Jobs
  BY <1>1, JobsSplit
<1>4. /\ part \in [Jobs -> Parts] /\ job \in [Jobs -> States]
      /\ agent \in [Jobs -> AgentStates]
      /\ got \in [Jobs -> Nat] /\ lines \in [Jobs -> Nat]
  BY <1>1, <1>2 DEF States, AgentStates
<1>5. \A k \in Jobs : got[k] \in 0 .. part[k].samples /\ lines[k] \in Nat
  BY <1>1, <1>2
<1>6. /\ res.offered \in Nat /\ res.rates \in 0 .. cfg.cnt /\ res.samples \in Seq(Agents \X Nat)
      /\ res.cut \subseteq Agents \X Nat /\ cut \subseteq Jobs
      /\ DOMAIN res = {"offered", "rates", "samples", "cut"}
  BY <1>1, <1>2
<1>7. step \in 1 .. cfg.steps + 1
  BY <1>1, <1>2
<1>8. TypeOK
  <2>1. /\ pc \in {"warmup", "step", "gather", "display", "done", "exit"} /\ faulty \in BOOLEAN
        /\ err \in {"none", "dial", "write", "ParseFloat", "ParseInt", "read", "index",
                    "Not enough samples"}
    BY <1>1
  <2> QED
    BY <1>1, <1>4, <1>5, <1>6, <1>7, <2>1, Zenon DEF TypeOK, States, AgentStates
<1>9. Domains
  BY <1>4, <1>6 DEF Domains
<1>10. \A k \in Jobs : Reading(k) /\ Printing(k)
  BY <1>1 DEF Reading, Printing, Sound
<1>11. Phases
  BY <1>1, <1>3 DEF Phases
<1>12. Gathered
  BY <1>1 DEF Gathered
<1>13. Displayed
  <2>1. shown \in Seq({}) /\ Len(shown) = step - 1 /\ 1 .. Len(shown) = {}
    BY <1>1
  <2> QED
    BY <2>1, Zenon DEF Displayed
<1>14. FailsForAReason
  BY <1>1 DEF FailsForAReason
<1> QED
  BY <1>8, <1>9, <1>10, <1>11, <1>12, <1>13, <1>14, Zenon DEF IInv

(* The warm-up is over. *)
LEMMA WarmupDoneStep ==
  ASSUME IInv, WarmupDone
  PROVE  IInv'
<1>1. /\ pc = "warmup" /\ pc' = "step" /\ job[0] = "send"
      /\ job' = [job EXCEPT ![0] = "received"]
      /\ cfg' = cfg /\ val' = val /\ step' = step /\ part' = part /\ got' = got /\ agent' = agent
      /\ lines' = lines /\ cut' = cut /\ res' = res /\ shown' = shown /\ err' = err /\ faulty' = faulty
  BY DEF WarmupDone, agentvars
<1>2. Agents' = Agents /\ Jobs' = Jobs
  BY <1>1 DEF Agents, Jobs
<1>3. /\ cfg \in Cfgs /\ job \in [Jobs -> States] /\ faulty \in BOOLEAN
      /\ \A k \in Jobs : Reading(k) /\ Printing(k)
  BY Types
<1>4. 0 \in Jobs /\ 0 \notin Agents /\ Agents \subseteq Jobs
  BY <1>3, JobsSplit
<1>5. /\ job' \in [Jobs -> States] /\ job'[0] = "received"
      /\ \A j \in Jobs : j # 0 => job'[j] = job[j]
  <2>1. "received" \in States
    BY DEF States
  <2> QED
    BY <1>1, <1>3, <1>4, <2>1, ExceptAt, Zenon
<1>6. TypeOK'
  <2>1. TypeOK
    BY DEF IInv
  <2>2. pc' \in {"warmup", "step", "gather", "display", "done", "exit"}
    BY <1>1
  <2> QED
    BY <1>1, <1>2, <1>5, <2>1, <2>2, Zenon DEF TypeOK, States
<1>7. Domains'
  BY <1>1, <1>2, Zenon DEF IInv, Domains
<1>8. \A k \in Jobs : Reading(k)' /\ Printing(k)'
  <2>1. ASSUME NEW k \in Jobs, k # 0 PROVE Reading(k)' /\ Printing(k)'
    <3>1. Reading(k) /\ Printing(k) /\ job'[k] = job[k]
      BY <1>3, <1>5, <2>1
    <3>2. faulty => faulty'
      BY <1>1
    <3> QED
      BY <1>1, <3>1, <3>2, KeepJob, Zenon
  <2>2. Reading(0)'
    <3>1. Reading(0)
      BY <1>3, <1>4
    <3> QED
      BY <1>1, <1>5, <3>1 DEF Reading
  <2>3. Printing(0)'
    <3>1. Printing(0)
      BY <1>3, <1>4
    <3> QED
      BY <1>1, <3>1 DEF Printing, Sound
  <2> QED
    BY <2>1, <2>2, <2>3, Zenon
<1>9. Phases'
  <2>1. /\ pc = "exit" <=> err # "none"
        /\ part[0] = WarmupCfg
        /\ \A k \in Agents : job[k] = "idle"
    BY <1>1 DEF IInv, Phases
  <2>2. \A k \in Agents : job'[k] = "idle"
    BY <1>4, <1>5, <2>1
  <2> QED
    BY <1>1, <1>2, <1>5, <2>1, <2>2 DEF Phases
<1>10. Gathered'
  BY <1>1 DEF Gathered
<1>11. Displayed'
  BY <1>1, KeepDisplayed, Zenon DEF IInv
<1>12. FailsForAReason'
  <2>1. faulty => faulty'
    BY <1>1
  <2> QED
    BY <1>1, <2>1, KeepReason, Zenon DEF IInv
<1> QED
  BY <1>2, <1>6, <1>7, <1>8, <1>9, <1>10, <1>11, <1>12, Zenon DEF IInv

(* doExperiment has no step left. *)
LEMMA LastStepStep ==
  ASSUME IInv, LastStep
  PROVE  IInv'
<1>1. /\ pc = "step" /\ pc' = "done"
      /\ cfg' = cfg /\ val' = val /\ step' = step /\ part' = part /\ got' = got /\ agent' = agent
      /\ lines' = lines /\ cut' = cut /\ res' = res /\ shown' = shown /\ err' = err /\ faulty' = faulty
      /\ job' = job
  BY DEF LastStep, agentvars, jobvars
<1>2. Agents' = Agents /\ Jobs' = Jobs
  BY <1>1 DEF Agents, Jobs
<1>3. faulty => faulty'
  BY <1>1
<1>4. TypeOK'
  <2>1. TypeOK
    BY DEF IInv
  <2>2. pc' \in {"warmup", "step", "gather", "display", "done", "exit"}
    BY <1>1
  <2> QED
    BY <1>1, <1>2, <2>1, <2>2, Zenon DEF TypeOK
<1>5. Domains'
  BY <1>1, <1>2, Zenon DEF IInv, Domains
<1>6. \A k \in Jobs : Reading(k)' /\ Printing(k)'
  BY <1>1, <1>3, Types, KeepJob, Zenon
<1>7. Phases'
  <2>1. /\ pc = "exit" <=> err # "none"
        /\ part[0] = WarmupCfg /\ job[0] = "received"
        /\ \A k \in Agents : job[k] \in {"idle", "received"}
    BY <1>1 DEF IInv, Phases
  <2> QED
    BY <1>1, <1>2, <2>1 DEF Phases
<1>8. Gathered'
  BY <1>1 DEF Gathered
<1>9. Displayed'
  BY <1>1, KeepDisplayed, Zenon DEF IInv
<1>10. FailsForAReason'
  BY <1>1, <1>3, KeepReason, Zenon DEF IInv
<1> QED
  BY <1>2, <1>4, <1>5, <1>6, <1>7, <1>8, <1>9, <1>10, Zenon DEF IInv

(* The rate of a step is a number, and the parts of a step are shares. *)
LEMMA StepParts ==
  ASSUME cfg \in Cfgs, step \in 1 .. cfg.steps + 1, step <= cfg.steps, NEW k \in Agents
  PROVE  LET p == divCfg(stepRate(step))[k]
         IN  /\ stepRate(step) \in Nat /\ p \in Parts
             /\ p.samples = share(cfg.samples, cfg.cnt, k)
             /\ p.reqsPerSec = share(stepRate(step), cfg.cnt, k)
<1>1. /\ cfg.samples \in Nat /\ cfg.reqsPerSec \in Nat /\ cfg.conns \in Nat
      /\ cfg.cnt \in Nat \ {0} /\ cfg.steps \in Nat
  BY CfgTypes
<1>2. stepRate(step) \in Nat
  <2>1. step \in Nat /\ cfg.steps \in Nat \ {0}
    BY <1>1
  <2>2. cfg.reqsPerSec * step \in Nat
    BY <1>1, <2>1
  <2> QED
    BY <2>1, <2>2, Division DEF stepRate
<1>3. /\ share(cfg.samples, cfg.cnt, k) \in Nat /\ share(cfg.conns, cfg.cnt, k) \in Nat
      /\ share(stepRate(step), cfg.cnt, k) \in Nat
  <2>1. \A t \in Nat : share(t, cfg.cnt, k) \in 0 .. t
    BY ShareBounds
  <2> QED
    BY <1>1, <1>2, <2>1
<1>4. divCfg(stepRate(step))[k] =
        [samples    |-> share(cfg.samples, cfg.cnt, k),
         reqsPerSec |-> share(stepRate(step), cfg.cnt, k),
         conns      |-> share(cfg.conns, cfg.cnt, k)]
  BY Zenon DEF divCfg
<1> QED
  BY <1>2, <1>3, <1>4 DEF Parts

(* measure starts a job for each agent. *)
LEMMA StartStepStep ==
  ASSUME IInv, StartStep
  PROVE  IInv'
<1>1. /\ pc = "step" /\ step <= cfg.steps /\ pc' = "gather"
      /\ part' = [k \in Jobs |-> IF k = 0 THEN part[0] ELSE divCfg(stepRate(step))[k]]
      /\ job' = [k \in Jobs |-> IF k = 0 THEN job[0] ELSE "dial"]
      /\ got' = [k \in Jobs |-> 0]
      /\ agent' = [k \in Jobs |-> "none"] /\ lines' = [k \in Jobs |-> 0] /\ cut' = {}
      /\ res' = [offered |-> 0, rates |-> 0, samples |-> << >>, cut |-> {}]
      /\ cfg' = cfg /\ val' = val /\ step' = step /\ shown' = shown /\ err' = err
      /\ faulty' = faulty
  BY DEF StartStep, NoResult
<1>2. Agents' = Agents /\ Jobs' = Jobs
  BY <1>1 DEF Agents, Jobs
<1>3. /\ cfg \in Cfgs /\ part \in [Jobs -> Parts] /\ step \in 1 .. cfg.steps + 1 /\ TypeOK
  BY Types DEF IInv, TypeOK
<1>4. /\ 0 \in Jobs /\ 0 \notin Agents /\ Agents \subseteq Jobs
      /\ \A k \in Jobs : k = 0 \/ k \in Agents
  BY <1>3, JobsSplit
<1>5. part[0] = WarmupCfg /\ job[0] = "received" /\ err = "none"
  BY <1>1 DEF IInv, Phases
<1>6. \A k \in Agents : part'[k] = divCfg(stepRate(step))[k] /\ part'[k] \in Parts
  <2>1. \A k \in Agents : divCfg(stepRate(step))[k] \in Parts
    BY <1>1, <1>3, StepParts
  <2>2. \A k \in Agents : part'[k] = divCfg(stepRate(step))[k]
    BY <1>1, <1>4, Zenon
  <2> QED
    BY <2>1, <2>2, Zenon
<1>7. part'[0] = WarmupCfg /\ part'[0] \in Parts
  BY <1>1, <1>3, <1>4, <1>5
<1>8. part' \in [Jobs -> Parts]
  <2>1. \A k \in Jobs : part'[k] \in Parts
    BY <1>4, <1>6, <1>7, Zenon
  <2>2. part' = [k \in Jobs |-> part'[k]]
    BY <1>1
  <2> QED
    BY <2>1, <2>2
<1>9. /\ job' \in [Jobs -> States] /\ agent' \in [Jobs -> AgentStates]
      /\ got' \in [Jobs -> Nat] /\ lines' \in [Jobs -> Nat]
  BY <1>1, <1>5 DEF States, AgentStates
<1>10. \A k \in Jobs : got'[k] \in 0 .. part'[k].samples /\ lines'[k] \in Nat
  <2>1. \A k \in Jobs : part'[k].samples \in Nat
    BY <1>8 DEF Parts
  <2> QED
    BY <1>1, <2>1
<1>11. /\ res'.offered \in Nat /\ res'.rates \in 0 .. cfg.cnt
       /\ res'.samples \in Seq(Agents \X Nat)
       /\ res'.cut \subseteq Agents \X Nat /\ cut' \subseteq Jobs
       /\ DOMAIN res' = {"offered", "rates", "samples", "cut"}
  <2>1. cfg.cnt \in Nat \ {0}
    BY <1>3, CfgTypes
  <2> QED
    BY <1>1, <2>1
<1>12. TypeOK'
  <2>1. pc' \in {"warmup", "step", "gather", "display", "done", "exit"}
    BY <1>1
  <2> QED
    BY <1>1, <1>2, <1>3, <1>8, <1>9, <1>10, <1>11, <2>1, Zenon DEF TypeOK, States, AgentStates
<1>13. Domains'
  BY <1>2, <1>9, <1>11, Zenon DEF Domains
<1>14. \A k \in Jobs : Reading(k)' /\ Printing(k)'
  <2> SUFFICES ASSUME NEW k \in Jobs PROVE Reading(k)' /\ Printing(k)'
    OBVIOUS
  <2>1. got'[k] = 0 /\ lines'[k] = 0 /\ agent'[k] = "none"
    BY <1>1
  <2>2. (k = 0 /\ job'[k] = "received") \/ (job'[k] = "dial")
    BY <1>1, <1>5
  <2>3. Reading(k)'
    BY <2>1, <2>2 DEF Reading
  <2>4. Printing(k)'
    BY <2>1 DEF Printing, Sound
  <2> QED
    BY <2>3, <2>4
<1>15. \A k \in Agents : job'[k] = "dial"
  BY <1>1, <1>4
<1>16. R' = {}
  BY <1>2, <1>15 DEF R
<1>17. Phases'
  <2>1. job'[0] = "received"
    BY <1>1, <1>4, <1>5
  <2>2. \A k : divCfg(stepRate(step))'[k] = divCfg(stepRate(step))[k]
    BY <1>1, <1>2 DEF divCfg, stepRate
  <2>3. \A k \in Agents : part'[k] = divCfg(stepRate(step))'[k] /\ job'[k] # "idle"
    BY <1>6, <1>15, <2>2
  <2>4. pc' # "exit" /\ pc' # "warmup" /\ pc' \notin {"step", "done"} /\ pc' # "display"
        /\ err' = "none" /\ step' <= cfg'.steps
    BY <1>1, <1>5
  <2> QED
    BY <1>2, <1>7, <2>1, <2>3, <2>4, Zenon DEF Phases
<1>18. Gathered'
  <2>1. stepRate(step) \in Nat /\ cfg.samples \in Nat /\ cfg.cnt \in Nat \ {0}
    <3>1. 1 \in Agents
      BY <1>3, CfgTypes DEF Agents
    <3> QED
      BY <1>1, <1>3, <3>1, StepParts, CfgTypes
  <2>2. \A t \in Nat : Shares(t, {}) = 0
    BY <1>3, SharesEnds
  <2>3. Shares(stepRate(step), R)' = Shares(stepRate(step), {})
    BY <1>1, <1>16 DEF Shares, stepRate
  <2>4. Shares(cfg.samples, R)' = Shares(cfg.samples, {})
    BY <1>1, <1>16 DEF Shares
  <2>5. res'.offered = Shares(stepRate(step), R)' /\ Len(res'.samples) = Shares(cfg.samples, R)'
    BY <1>1, <2>1, <2>2, <2>3, <2>4
  <2>6. Cardinality(R') = 0
    BY <1>16, FS_EmptySet
  <2>7. res'.rates \in 0 .. Cardinality(R') /\ res'.rates = Cardinality(R')
    BY <1>1, <2>6
  <2>8. DOMAIN res'.samples = {}
    BY <1>1
  <2>9. InOrder(res'.samples) /\ Collected(res'.samples, R', got')
    BY <1>16, <2>8, Zenon DEF InOrder, Collected
  <2> QED
    BY <2>5, <2>7, <2>9, Zenon DEF Gathered
<1>19. Displayed'
  BY <1>1, KeepDisplayed, Zenon DEF IInv
<1>20. FailsForAReason'
  BY <1>1, <1>5 DEF FailsForAReason
<1> QED
  BY <1>2, <1>12, <1>13, <1>14, <1>17, <1>18, <1>19, <1>20, Zenon DEF IInv

(* One more agent's samples after those of others. *)
LEMMA MoreSamples ==
  ASSUME NEW S \in SUBSET Agents, NEW k \in Agents, k \notin S,
         NEW g \in [Jobs -> Nat], g[k] \in Nat,
         NEW ids \in Seq(Agents \X Nat), InOrder(ids), Collected(ids, S, g),
         NEW t, t = ids \o [j \in 1 .. g[k] |-> <<k, j>>]
  PROVE  /\ t \in Seq(Agents \X Nat) /\ Len(t) = Len(ids) + g[k]
         /\ InOrder(t) /\ Collected(t, S \cup {k}, g)
<1> DEFINE n == g[k]
           u == [j \in 1 .. n |-> <<k, j>>]
           m == Len(ids)
<1>1. /\ u \in Seq(Agents \X Nat) /\ Len(u) = n /\ \A j \in 1 .. n : u[j] = <<k, j>>
  <2>1. n \in Nat
    OBVIOUS
  <2> HIDE DEF n
  <2>2. \A j \in 1 .. n : <<k, j>> \in Agents \X Nat
    BY <2>1
  <2> QED
    BY <2>1, <2>2
<1>2. /\ t \in Seq(Agents \X Nat) /\ Len(t) = m + n
      /\ \A i \in 1 .. m + n : t[i] = IF i <= m THEN ids[i] ELSE u[i - m]
  <2> HIDE DEF u
  <2>1. t = ids \o u
    BY DEF u
  <2>2. /\ ids \o u \in Seq(Agents \X Nat) /\ Len(ids \o u) = Len(ids) + Len(u)
        /\ \A i \in 1 .. Len(ids) + Len(u) :
             (ids \o u)[i] = IF i <= Len(ids) THEN ids[i] ELSE u[i - Len(ids)]
    BY <1>1, ConcatProperties, Zenon
  <2> QED
    BY <1>1, <2>1, <2>2
<1>3. m \in Nat /\ n \in Nat /\ DOMAIN ids = 1 .. m /\ DOMAIN t = 1 .. m + n
  BY <1>2
<1> HIDE DEF n, u, m
<1>4. ASSUME NEW a \in 1 .. m
      PROVE  a \in 1 .. m + n /\ t[a] = ids[a] /\ t[a][1] \in S /\ t[a][2] \in 1 .. g[t[a][1]]
  <2>1. a \in 1 .. m + n /\ t[a] = ids[a]
    BY <1>2, <1>3
  <2> QED
    BY <1>3, <2>1 DEF Collected
<1>5. ASSUME NEW a \in 1 .. m + n, ~ (a <= m)
      PROVE  a - m \in 1 .. n /\ t[a] = <<k, a - m>> /\ t[a][1] = k /\ t[a][2] = a - m
  <2>1. a - m \in 1 .. n
    BY <1>3, <1>5
  <2>2. t[a] = u[a - m]
    BY <1>2, <1>5
  <2>3. t[a] = <<k, a - m>>
    BY <1>1, <2>1, <2>2
  <2> DEFINE d == a - m
  <2> HIDE DEF d
  <2>4. t[a] = <<k, d>>
    BY <2>3 DEF d
  <2>5. t[a][1] = k /\ t[a][2] = d
    <3> DEFINE z == t[a]
    <3>1. z = <<k, d>>
      BY <2>4
    <3> HIDE DEF z
    <3>2. z[1] = k /\ z[2] = d
      BY <3>1
    <3> QED
      BY <3>2 DEF z
  <2> QED
    BY <2>1, <2>3, <2>5 DEF d
<1>6. \A a \in 1 .. m + n : a <= m => a \in 1 .. m
  BY <1>3
<1>7. InOrder(t)
  <2> SUFFICES ASSUME NEW a \in 1 .. m + n, NEW b \in 1 .. m + n, a < b, t[a][1] = t[b][1]
               PROVE  t[a][2] < t[b][2]
    BY <1>3, Zenon DEF InOrder
  <2>1. CASE b <= m
    <3>1. a \in 1 .. m /\ b \in 1 .. m
      BY <1>3, <2>1
    <3>2. t[a] = ids[a] /\ t[b] = ids[b]
      BY <1>4, <3>1
    <3> QED
      BY <1>3, <3>1, <3>2 DEF InOrder
  <2>2. CASE ~ (b <= m) /\ a <= m
    <3>1. t[a][1] \in S
      BY <1>4, <1>6, <2>2
    <3>2. t[b][1] = k
      BY <1>5, <2>2
    <3> QED
      BY <3>1, <3>2
  <2>3. CASE ~ (b <= m) /\ ~ (a <= m)
    <3>1. t[a][2] = a - m /\ t[b][2] = b - m
      BY <1>5, <2>3
    <3> QED
      BY <1>3, <3>1
  <2> QED
    BY <2>1, <2>2, <2>3
<1>8. \A a \in 1 .. m + n : t[a][1] \in S \cup {k} /\ t[a][2] \in 1 .. g[t[a][1]]
  <2> SUFFICES ASSUME NEW a \in 1 .. m + n
               PROVE  t[a][1] \in S \cup {k} /\ t[a][2] \in 1 .. g[t[a][1]]
    OBVIOUS
  <2>1. CASE a <= m
    BY <1>4, <1>6, <2>1, Zenon
  <2>2. CASE ~ (a <= m)
    BY <1>5, <2>2 DEF n
  <2> QED
    BY <2>1, <2>2
<1>9. \A l \in S \cup {k} : \A j \in 1 .. g[l] : \E a \in 1 .. m + n : t[a] = <<l, j>>
  <2> SUFFICES ASSUME NEW l \in S \cup {k}, NEW j \in 1 .. g[l]
               PROVE  \E a \in 1 .. m + n : t[a] = <<l, j>>
    OBVIOUS
  <2>1. CASE l \in S
    <3>1. PICK a \in 1 .. m : ids[a] = <<l, j>>
      BY <1>3, <2>1 DEF Collected
    <3> QED
      BY <1>4, <3>1
  <2>2. CASE l = k
    <3>1. j \in 1 .. n
      BY <2>2 DEF n
    <3>2. m + j \in 1 .. m + n /\ ~ (m + j <= m) /\ (m + j) - m = j
      BY <1>3, <3>1
    <3>3. t[m + j] = <<k, j>>
      BY <1>5, <3>2
    <3> QED
      BY <2>2, <3>2, <3>3
  <2> QED
    BY <2>1, <2>2
<1>10. Collected(t, S \cup {k}, g)
  BY <1>3, <1>8, <1>9, Zenon DEF Collected
<1> QED
  BY <1>2, <1>7, <1>10 DEF m, n

(* measure receives a job's result and adds it up. *)
LEMMA ReceiveStep ==
  ASSUME IInv, NEW k \in Agents, Receive(k)
  PROVE  IInv'
<1> DEFINE c == cfg.cnt
           rate == stepRate(step)
<1>1. /\ pc = "gather" /\ job[k] = "send" /\ job' = [job EXCEPT ![k] = "received"]
      /\ res' = accum(k) /\ pc' = IF AllIn THEN "display" ELSE pc
      /\ cfg' = cfg /\ val' = val /\ step' = step /\ part' = part /\ got' = got /\ agent' = agent
      /\ lines' = lines /\ cut' = cut /\ shown' = shown /\ err' = err /\ faulty' = faulty
  BY DEF Receive, agentvars
<1>2. Agents' = Agents /\ Jobs' = Jobs
  BY <1>1 DEF Agents, Jobs
<1>3. /\ cfg \in Cfgs /\ job \in [Jobs -> States] /\ faulty \in BOOLEAN /\ got \in [Jobs -> Nat]
      /\ lines \in [Jobs -> Nat]
      /\ step \in 1 .. cfg.steps + 1 /\ TypeOK /\ Domains
      /\ \A j \in Jobs : Reading(j) /\ Printing(j)
  BY Types DEF IInv, TypeOK
<1>4. 0 \in Jobs /\ 0 \notin Agents /\ Agents \subseteq Jobs /\ k \in Jobs /\ k # 0
  BY <1>3, JobsSplit
<1>5. /\ job' \in [Jobs -> States] /\ job'[k] = "received"
      /\ \A j \in Jobs : j # k => job'[j] = job[j]
  <2>1. "received" \in States
    BY DEF States
  <2> QED
    BY <1>1, <1>3, <1>4, <2>1, ExceptAt, Zenon
<1>6. k \notin R /\ R \in SUBSET Agents /\ R' = R \cup {k}
  BY <1>1, <1>2, <1>4, <1>5 DEF R
<1>7. /\ step <= cfg.steps
      /\ \A j \in Agents : part[j] = divCfg(stepRate(step))[j] /\ job[j] # "idle"
      /\ part[0] = WarmupCfg /\ job[0] = "received"
      /\ err = "none"
  BY <1>1 DEF IInv, Phases
<1>8. /\ rate \in Nat /\ part[k].samples = share(cfg.samples, c, k)
      /\ part[k].reqsPerSec = share(rate, c, k)
  BY <1>3, <1>7, StepParts
<1>9. /\ res.offered = Shares(rate, R)
      /\ Len(res.samples) = Shares(cfg.samples, R)
      /\ res.rates \in 0 .. Cardinality(R)
      /\ cfg.samples >= cfg.cnt => res.rates = Cardinality(R)
      /\ InOrder(res.samples)
      /\ Collected(res.samples, R, got)
  BY <1>1 DEF IInv, Gathered
<1>10. c \in Nat \ {0} /\ cfg.samples \in Nat
  BY <1>3, CfgTypes
<1>11. got[k] = part[k].samples /\ got[k] \in Nat /\ lines[k] \in Nat
       /\ (got[k] > 0 => lines[k] > got[k])
  BY <1>1, <1>3, <1>4 DEF Reading
<1>12. /\ res'.offered = res.offered + part[k].reqsPerSec
       /\ res'.rates = res.rates + (IF lines[k] > 0 THEN 1 ELSE 0)
       /\ res'.samples = res.samples \o [j \in 1 .. got[k] |-> <<k, j>>]
       /\ res'.cut = res.cut \cup CutIn(k)
       /\ DOMAIN res' = {"offered", "rates", "samples", "cut"}
  BY <1>1 DEF accum
<1>13. /\ Cardinality(R') = Cardinality(R) + 1 /\ Cardinality(R) \in Nat
       /\ Cardinality(R') \in 0 .. c
       /\ Cardinality(R') = c <=> R' = Agents
  <2>1. R' \in SUBSET Agents
    BY <1>6
  <2>2. Cardinality(R) \in 0 .. c
    BY <1>3, <1>6, AgentSets
  <2>3. Cardinality(R') \in 0 .. c /\ (Cardinality(R') = c <=> R' = Agents)
    BY <1>3, <2>1, AgentSets
  <2>4. Cardinality(R') = Cardinality(R) + 1
    BY <1>3, <1>6, <1>10, SharesAdd
  <2> QED
    BY <1>10, <2>2, <2>3, <2>4
<1>14. /\ res'.offered = Shares(rate, R') /\ res'.offered \in Nat
  <2>1. /\ Shares(rate, R \cup {k}) = Shares(rate, R) + share(rate, cfg.cnt, k)
        /\ Shares(rate, R) \in Nat /\ share(rate, cfg.cnt, k) \in Nat
    BY <1>3, <1>6, <1>8, SharesAdd
  <2> QED
    BY <1>6, <1>8, <1>9, <1>12, <2>1
<1>15. /\ res'.samples \in Seq(Agents \X Nat) /\ Len(res'.samples) = Shares(cfg.samples, R')
       /\ InOrder(res'.samples) /\ Collected(res'.samples, R', got')
  <2>1. res.samples \in Seq(Agents \X Nat)
    BY <1>3 DEF TypeOK
  <2>2. /\ res'.samples \in Seq(Agents \X Nat) /\ Len(res'.samples) = Len(res.samples) + got[k]
        /\ InOrder(res'.samples) /\ Collected(res'.samples, R \cup {k}, got)
    BY <1>3, <1>6, <1>9, <1>11, <1>12, <2>1, MoreSamples, Zenon
  <2>3. Shares(cfg.samples, R \cup {k}) = Shares(cfg.samples, R) + share(cfg.samples, cfg.cnt, k)
    BY <1>3, <1>6, <1>10, SharesAdd
  <2>4. Len(res'.samples) = Shares(cfg.samples, R')
    BY <1>6, <1>8, <1>9, <1>11, <2>2, <2>3
  <2> QED
    BY <1>1, <1>6, <2>2, <2>4, Zenon
<1>16. /\ res'.rates \in 0 .. Cardinality(R')
       /\ cfg.samples >= cfg.cnt => res'.rates = Cardinality(R')
  <2>1. res'.rates \in 0 .. Cardinality(R')
    BY <1>9, <1>12, <1>13
  <2>2. ASSUME cfg.samples >= cfg.cnt PROVE res'.rates = Cardinality(R')
    <3>1. share(cfg.samples, cfg.cnt, k) > 0
      BY <1>3, <1>10, <2>2, ShareBounds
    <3>2. got[k] > 0
      BY <1>8, <1>11, <3>1
    <3>3. lines[k] > 0
      BY <1>11, <3>2
    <3> QED
      BY <1>9, <1>12, <1>13, <2>2, <3>3
  <2> QED
    BY <2>1, <2>2
<1>17. pc' \in {"gather", "display"} /\ (pc' = "display" => R' = Agents)
  <2>1. Received = Cardinality(R')
    BY <1>2 DEF Received, R
  <2>2. AllIn => R' = Agents
    BY <1>10, <1>13, <2>1 DEF AllIn
  <2> QED
    BY <1>1, <2>2
<1>18. TypeOK'
  <2>1. pc' \in {"warmup", "step", "gather", "display", "done", "exit"}
    BY <1>17
  <2>2. res'.rates \in 0 .. cfg.cnt
    BY <1>10, <1>13, <1>16
  <2>3. res'.cut \subseteq Agents \X Nat
    <3>1. res.cut \subseteq Agents \X Nat
      BY <1>3, Zenon DEF TypeOK
    <3>2. CutIn(k) \subseteq Agents \X Nat
      BY <1>11 DEF CutIn
    <3> QED
      BY <1>12, <3>1, <3>2
  <2> QED
    BY <1>1, <1>2, <1>3, <1>5, <1>14, <1>15, <2>1, <2>2, <2>3, Zenon DEF TypeOK, States
<1>19. Domains'
  BY <1>1, <1>2, <1>3, <1>12, Zenon DEF Domains
<1>20. \A j \in Jobs : Reading(j)' /\ Printing(j)'
  <2>1. ASSUME NEW j \in Jobs, j # k PROVE Reading(j)' /\ Printing(j)'
    <3>1. Reading(j) /\ Printing(j) /\ job'[j] = job[j] /\ (faulty => faulty')
      BY <1>1, <1>3, <1>5, <2>1
    <3> QED
      BY <1>1, <3>1, KeepJob, Zenon
  <2>2. Reading(k)'
    <3>1. Reading(k)
      BY <1>3, <1>4
    <3> QED
      BY <1>1, <1>5, <1>11, <3>1 DEF Reading
  <2>3. Printing(k)'
    <3>1. Printing(k)
      BY <1>3, <1>4
    <3> QED
      BY <1>1, <3>1 DEF Printing, Sound
  <2> QED
    BY <2>1, <2>2, <2>3, Zenon
<1>21. Phases'
  <2>1. job'[0] = "received"
    BY <1>4, <1>5, <1>7
  <2>2. \A j : divCfg(stepRate(step))'[j] = divCfg(stepRate(step))[j]
    BY <1>1, <1>2 DEF divCfg, stepRate
  <2>3. \A j \in Agents : part'[j] = divCfg(stepRate(step))'[j] /\ job'[j] # "idle"
    <3>1. \A j \in Agents : job'[j] # "idle"
      BY <1>4, <1>5, <1>7
    <3> QED
      BY <1>1, <1>7, <2>2, <3>1, Zenon
  <2>4. pc' # "exit" /\ pc' # "warmup" /\ pc' \notin {"step", "done"}
        /\ err' = "none" /\ step' <= cfg'.steps /\ part'[0] = WarmupCfg
    BY <1>1, <1>7, <1>17
  <2> QED
    BY <1>2, <1>17, <2>1, <2>3, <2>4, Zenon DEF Phases
<1>22. Gathered'
  <2>1. Shares(stepRate(step), R)' = Shares(rate, R')
    BY <1>1 DEF Shares, stepRate
  <2>2. Shares(cfg.samples, R)' = Shares(cfg.samples, R')
    BY <1>1 DEF Shares
  <2>3. res'.offered = Shares(stepRate(step), R)' /\ Len(res'.samples) = Shares(cfg.samples, R)'
    BY <1>14, <1>15, <2>1, <2>2
  <2>4. cfg'.samples >= cfg'.cnt => res'.rates = Cardinality(R')
    BY <1>1, <1>16, Zenon
  <2> QED
    BY <1>15, <1>16, <2>3, <2>4, Zenon DEF Gathered
<1>23. Displayed'
  BY <1>1, KeepDisplayed, Zenon DEF IInv
<1>24. FailsForAReason'
  BY <1>1, <1>7 DEF FailsForAReason
<1> QED
  BY <1>2, <1>18, <1>19, <1>20, <1>21, <1>22, <1>23, <1>24, Zenon DEF IInv

(* When every agent's result is in, the line is complete. *)
LEMMA LineComplete ==
  ASSUME IInv, pc = "display", NEW x, x.offered = res.offered, x.rates = res.rates,
         x.ids = res.samples
  PROVE  Line(x, step)
<1>1. /\ cfg \in Cfgs /\ step \in 1 .. cfg.steps + 1 /\ got \in [Jobs -> Nat]
      /\ res.samples \in Seq(Agents \X Nat)
      /\ \A j \in Jobs : Reading(j)
  BY Types DEF IInv, TypeOK
<1>2. /\ R = Agents /\ step <= cfg.steps
      /\ \A k \in Agents : part[k] = divCfg(stepRate(step))[k]
  BY DEF IInv, Phases
<1>3. /\ res.offered = Shares(stepRate(step), R)
      /\ Len(res.samples) = Shares(cfg.samples, R)
      /\ cfg.samples >= cfg.cnt => res.rates = Cardinality(R)
      /\ InOrder(res.samples)
      /\ Collected(res.samples, R, got)
  BY DEF IInv, Gathered
<1>4. cfg.samples \in Nat /\ cfg.cnt \in Nat \ {0} /\ 1 \in Agents
  BY <1>1, CfgTypes DEF Agents
<1>5. stepRate(step) \in Nat
  BY <1>1, <1>2, <1>4, StepParts
<1>6. /\ Shares(stepRate(step), R) = stepRate(step) /\ Shares(cfg.samples, R) = cfg.samples
      /\ Cardinality(R) = cfg.cnt
  <2>1. \A t \in Nat : Shares(t, Agents) = t
    BY <1>1, SharesEnds
  <2>2. Cardinality(Agents) = cfg.cnt
    BY <1>1, AgentSets
  <2> QED
    BY <1>2, <1>4, <1>5, <2>1, <2>2
<1> DEFINE n == [k \in Agents |-> got[k]]
<1>7. \A k \in Agents : n[k] = share(cfg.samples, cfg.cnt, k)
  <2> SUFFICES ASSUME NEW k \in Agents PROVE got[k] = share(cfg.samples, cfg.cnt, k)
    OBVIOUS
  <2>1. k \in Jobs /\ k # 0 /\ job[k] = "received"
    <3>1. k \in R
      BY <1>2
    <3> QED
      BY <1>1, <3>1, JobsSplit DEF R
  <2>2. got[k] = part[k].samples
    BY <1>1, <2>1 DEF Reading
  <2> QED
    BY <1>1, <1>2, <2>2, StepParts
<1>8. n \in [Agents -> 0 .. cfg.samples]
  <2>1. \A k \in Agents : n[k] \in 0 .. cfg.samples
    BY <1>1, <1>4, <1>7, ShareBounds
  <2> QED
    BY <2>1
<1>9. \A k, l \in Agents : n[k] - n[l] \in {-1, 0, 1}
  BY <1>1, <1>4, <1>7, ShareBounds
<1> DEFINE ids == res.samples
           A == {ids[a] : a \in DOMAIN ids}
           B == {s \in Agents \X (1 .. cfg.samples) : s[2] <= n[s[1]]}
<1>10. A = B
  <2>1. /\ \A a \in DOMAIN ids : ids[a][1] \in Agents /\ ids[a][2] \in 1 .. n[ids[a][1]]
        /\ \A k \in Agents : \A j \in 1 .. n[k] : \E a \in DOMAIN ids : ids[a] = <<k, j>>
    BY <1>2, <1>3 DEF Collected
  <2>2. \A a \in DOMAIN ids : ids[a] \in Agents \X Nat
    BY <1>1
  <2> HIDE DEF ids, n
  <2>3. ASSUME NEW y \in A PROVE y \in B
    <3>1. PICK a \in DOMAIN ids : y = ids[a]
      OBVIOUS
    <3>2. y \in Agents \X Nat /\ y[1] \in Agents /\ y[2] \in 1 .. n[y[1]]
      BY <2>1, <2>2, <3>1, Zenon
    <3>3. n[y[1]] \in 0 .. cfg.samples
      BY <1>8, <3>2
    <3>4. y[2] \in 1 .. cfg.samples /\ y[2] <= n[y[1]]
      BY <1>4, <3>2, <3>3
    <3>5. y \in Agents \X (1 .. cfg.samples)
      BY <3>2, <3>4
    <3> QED
      BY <3>4, <3>5
  <2>4. ASSUME NEW y \in B PROVE y \in A
    <3>1. y \in Agents \X (1 .. cfg.samples) /\ y[2] <= n[y[1]]
      OBVIOUS
    <3>2. y[1] \in Agents /\ y[2] \in 1 .. cfg.samples /\ y = <<y[1], y[2]>>
      BY <3>1
    <3>3. n[y[1]] \in 0 .. cfg.samples
      BY <1>8, <3>2
    <3>4. y[2] \in 1 .. n[y[1]]
      BY <1>4, <3>1, <3>2, <3>3
    <3>5. PICK a \in DOMAIN ids : ids[a] = <<y[1], y[2]>>
      BY <2>1, <3>2, <3>4, Zenon
    <3>6. ids[a] = y
      BY <3>2, <3>5, Zenon
    <3> QED
      BY <3>6
  <2> HIDE DEF A, B
  <2> QED
    BY <2>3, <2>4
<1>11. /\ x.offered = stepRate(step) /\ Len(x.ids) = cfg.samples
       /\ cfg.samples >= cfg.cnt => x.rates = cfg.cnt
       /\ InOrder(x.ids)
  BY <1>3, <1>6
<1>12. {x.ids[a] : a \in DOMAIN x.ids} = B
  BY <1>10, Zenon
<1> HIDE DEF n
<1> QED
  BY <1>8, <1>9, <1>11, <1>12, Zenon DEF Line

(* display prints the line of a step. *)
LEMMA DisplayStep ==
  ASSUME IInv, Display
  PROVE  IInv'
<1>1. /\ pc = "display" /\ cfg' = cfg /\ val' = val /\ part' = part /\ job' = job /\ got' = got
      /\ agent' = agent /\ lines' = lines /\ cut' = cut /\ res' = res /\ faulty' = faulty
      /\ UNCHANGED <<jobvars, agentvars>>
  BY DEF Display, jobvars, agentvars
<1>2. /\ cfg \in Cfgs /\ faulty \in BOOLEAN /\ step \in 1 .. cfg.steps + 1
      /\ res.samples \in Seq(Agents \X Nat) /\ TypeOK
  BY Types DEF IInv, TypeOK
<1>3. /\ R = Agents /\ step <= cfg.steps /\ err = "none"
      /\ \A k \in Agents : part[k] = divCfg(stepRate(step))[k]
      /\ part[0] = WarmupCfg /\ job[0] = "received"
  BY <1>1 DEF IInv, Phases
<1>4. cfg.samples \in Nat /\ cfg.cnt \in Nat \ {0} /\ 1 \in Agents /\ cfg.steps \in Nat
  BY <1>2, CfgTypes DEF Agents
<1>5. CASE res.samples = << >>
  <2>1. pc' = "exit" /\ err' = "index" /\ shown' = shown /\ step' = step
    BY <1>5 DEF Display, Exit
  <2>2. cfg.samples = 0
    <3>1. Len(res.samples) = Shares(cfg.samples, Agents)
      BY <1>1, <1>3 DEF IInv, Gathered
    <3>2. Shares(cfg.samples, Agents) = cfg.samples
      BY <1>2, <1>4, SharesEnds
    <3> QED
      BY <1>5, <3>1, <3>2
  <2>3. part[1].samples = 0
    <3>1. part[1].samples = share(cfg.samples, cfg.cnt, 1)
      BY <1>2, <1>3, <1>4, StepParts
    <3>2. share(cfg.samples, cfg.cnt, 1) \in 0 .. cfg.samples
      BY <1>2, <1>4, ShareBounds
    <3> QED
      BY <2>2, <3>1, <3>2
  <2>4. \E k \in Agents : 0 \in {part[k].samples, part[k].reqsPerSec, part[k].conns}
    BY <1>4, <2>3
  <2>5. err' \in Errors /\ Running
    BY <1>1, <2>1 DEF Errors, Running
  <2>6. UNCHANGED <<cfg, val, step, part, jobvars, agentvars, res, shown>>
    BY <1>1, <2>1
  <2>7. (faulty => faulty') /\ faulty' \in BOOLEAN
    BY <1>1, <1>2
  <2> QED
    BY <2>1, <2>4, <2>5, <2>6, <2>7, ExitStep, Zenon
<1>6. CASE res.samples # << >>
  <2> DEFINE x == [offered |-> res.offered, rates |-> res.rates, ids |-> res.samples,
                   cut |-> res.cut,
                   pct |-> [p \in Fractions |-> percentile(Values(res.samples, res.cut), p)]]
  <2>1. shown' = Append(shown, x) /\ step' = step + 1 /\ pc' = "step" /\ err' = err
    BY <1>6 DEF Display
  <2>2. x.offered = res.offered /\ x.rates = res.rates /\ x.ids = res.samples
    OBVIOUS
  <2> HIDE DEF x
  <2>3. Line(x, step)
    BY <1>1, <2>2, LineComplete
  <2>4. Agents' = Agents /\ Jobs' = Jobs
    BY <1>1 DEF Agents, Jobs
  <2>5. step' \in 1 .. cfg.steps + 1
    BY <1>2, <1>3, <1>4, <2>1
  <2>6. TypeOK'
    <3>1. pc' \in {"warmup", "step", "gather", "display", "done", "exit"}
      BY <2>1
    <3> QED
      BY <1>1, <1>2, <2>1, <2>4, <2>5, <3>1, Zenon DEF TypeOK
  <2>7. Domains'
    BY <1>1, <2>4, Zenon DEF IInv, Domains
  <2>8. faulty => faulty'
    BY <1>1
  <2>9. \A k \in Jobs : Reading(k)' /\ Printing(k)'
    BY <1>1, <2>8, Types, KeepJob, Zenon
  <2>10. Phases'
    <3>1. \A k \in Agents : job[k] = "received"
      BY <1>3 DEF R
    <3> QED
      BY <1>1, <1>3, <2>1, <2>4, <3>1 DEF Phases
  <2>11. Gathered'
    BY <2>1 DEF Gathered
  <2>12. Displayed'
    <3>1. PICK S : shown \in Seq(S)
      BY Zenon DEF IInv, Displayed
    <3>2. Len(shown) = step - 1 /\ \A i \in 1 .. Len(shown) : Line(shown[i], i)
      BY Zenon DEF IInv, Displayed
    <3> DEFINE T == S \cup {x}
    <3>3. shown \in Seq(T) /\ x \in T
      BY <3>1
    <3> HIDE DEF T
    <3>4. /\ shown' \in Seq(T) /\ Len(shown') = Len(shown) + 1
          /\ \A i \in 1 .. Len(shown) : shown'[i] = shown[i]
          /\ shown'[Len(shown) + 1] = x
      BY <2>1, <3>3, AppendProperties
    <3>5. Len(shown) \in Nat /\ Len(shown) + 1 = step /\ Len(shown') = step' - 1
      BY <1>2, <1>4, <2>1, <3>1, <3>2, <3>4
    <3>7. \A i \in 1 .. Len(shown') : Line(shown'[i], i)
      <4> SUFFICES ASSUME NEW i \in 1 .. Len(shown') PROVE Line(shown'[i], i)
        OBVIOUS
      <4>1. CASE i \in 1 .. Len(shown)
        BY <3>2, <3>4, <4>1, Zenon
      <4>2. CASE i = Len(shown) + 1
        BY <2>3, <3>4, <3>5, <4>2, Zenon
      <4> QED
        BY <3>4, <3>5, <4>1, <4>2
    <3>8. \A i \in 1 .. Len(shown') : Line(shown[i], i)'
      <4> SUFFICES ASSUME NEW i \in 1 .. Len(shown') PROVE Line(shown[i], i)'
        OBVIOUS
      <4>1. Line(shown'[i], i)
        BY <3>7
      <4>3. /\ shown'[i].offered = stepRate(i)
            /\ Len(shown'[i].ids) = cfg.samples
            /\ cfg.samples >= cfg.cnt => shown'[i].rates = cfg.cnt
            /\ \A a, b \in DOMAIN shown'[i].ids : a < b /\ shown'[i].ids[a][1] = shown'[i].ids[b][1]
                 => shown'[i].ids[a][2] < shown'[i].ids[b][2]
            /\ \E n \in [Agents -> 0 .. cfg.samples] :
                 /\ {shown'[i].ids[a] : a \in DOMAIN shown'[i].ids} =
                      {s \in Agents \X (1 .. cfg.samples) : s[2] <= n[s[1]]}
                 /\ \A k, l \in Agents : n[k] - n[l] \in {-1, 0, 1}
        BY <4>1, Zenon DEF Line, InOrder
      <4>4. stepRate(i)' = stepRate(i)
        BY <1>1 DEF stepRate
      <4>5. /\ shown'[i].offered = stepRate(i)'
            /\ Len(shown'[i].ids) = cfg'.samples
            /\ cfg'.samples >= cfg'.cnt => shown'[i].rates = cfg'.cnt
            /\ \A a, b \in DOMAIN shown'[i].ids : a < b /\ shown'[i].ids[a][1] = shown'[i].ids[b][1]
                 => shown'[i].ids[a][2] < shown'[i].ids[b][2]
            /\ \E n \in [Agents' -> 0 .. cfg'.samples] :
                 /\ {shown'[i].ids[a] : a \in DOMAIN shown'[i].ids} =
                      {s \in Agents' \X (1 .. cfg'.samples) : s[2] <= n[s[1]]}
                 /\ \A k, l \in Agents' : n[k] - n[l] \in {-1, 0, 1}
        BY <1>1, <2>4, <4>3, <4>4, Zenon
      <4> QED
        BY <4>5, Zenon DEF Line, InOrder
    <3> QED
      BY <3>4, <3>5, <3>8, Zenon DEF Displayed
  <2>13. FailsForAReason'
    BY <1>3, <2>1 DEF FailsForAReason
  <2> QED
    BY <2>4, <2>6, <2>7, <2>9, <2>10, <2>11, <2>12, <2>13, Zenon DEF IInv
<1> QED
  BY <1>5, <1>6

-----------------------------------------------------------------------------
(* The theorems. *)

(* Every step keeps the invariant. *)
LEMMA NextIInv ==
  ASSUME IInv, [Next]_vars
  PROVE  IInv'
<1>1. CASE Main
  BY <1>1, WarmupDoneStep, StartStepStep, LastStepStep, ReceiveStep, DisplayStep DEF Main
<1>2. CASE \E k \in Jobs : Measure(k)
  BY <1>2, DialStep, SpawnStep, ScanRateStep, ScanSampleStep, ScanEofStep DEF Measure
<1>3. CASE \E k \in Jobs : MeasureError(k) \/ AgentPrints(k) \/ AgentEnds(k)
  BY <1>3, MeasureErrorStep, AgentPrintsStep, AgentEndsStep
<1>4. CASE UNCHANGED vars
  <2>1. /\ cfg' = cfg /\ val' = val /\ pc' = pc /\ step' = step /\ part' = part /\ job' = job
        /\ got' = got /\ agent' = agent /\ lines' = lines /\ cut' = cut /\ res' = res /\ shown' = shown
        /\ err' = err /\ faulty' = faulty
    BY <1>4 DEF vars, jobvars, agentvars
  <2>2. Agents' = Agents /\ Jobs' = Jobs /\ R' = R /\ (faulty => faulty')
    BY <2>1 DEF Agents, Jobs, R
  <2>3. TypeOK' /\ Domains'
    BY <2>1, <2>2, Zenon DEF IInv, TypeOK, Domains
  <2>4. \A k \in Jobs : Reading(k)' /\ Printing(k)'
    BY <2>1, <2>2, Types, KeepJob, Zenon
  <2>5. Phases'
    <3>1. \A k : divCfg(stepRate(step))'[k] = divCfg(stepRate(step))[k]
      BY <2>1, <2>2 DEF divCfg, stepRate
    <3> QED
      BY <2>1, <2>2, <3>1, Zenon DEF IInv, Phases
  <2>6. Gathered' /\ Displayed' /\ FailsForAReason'
    BY <2>1, <2>2, KeepGathered, KeepDisplayed, KeepReason, Zenon DEF IInv
  <2> QED
    BY <2>2, <2>3, <2>4, <2>5, <2>6, Zenon DEF IInv
<1> QED
  BY <1>1, <1>2, <1>3, <1>4, Zenon DEF Next

(* Every reachable state satisfies the inductive invariant: what measure() *)
(* has accumulated is the shares of the agents it has received from.       *)
THEOREM Invariant == Spec => []IInv
<1>1. Init => IInv
  BY InitIInv
<1>2. IInv /\ [Next]_vars => IInv'
  BY NextIInv
<1> QED
  BY <1>1, <1>2, PTL DEF Spec

(* The coordinator's variables keep their types, for every command line;   *)
(* no job reads more samples than ans.samples of measureOne has room for.  *)
THEOREM TypeCorrect == Spec => []TypeOK
<1>1. IInv => TypeOK
  BY DEF IInv
<1> QED
  BY <1>1, Invariant, PTL

(* A line that was cut off is the last that its job has read, and only an  *)
(* agent that breaks off leaves one.                                       *)
LastCut(x) ==
  \A s \in x.cut : \A a \in DOMAIN x.ids : x.ids[a][1] = s[1] => x.ids[a][2] <= s[2]

CutInv ==
  /\ cut # {} \/ res.cut # {} => faulty
  /\ pc \in {"gather", "display"} => \A s \in res.cut : s[1] \in R /\ s[2] = got[s[1]]
  /\ \A i \in DOMAIN shown : (shown[i].cut # {} => faulty) /\ LastCut(shown[i])

(* What has been received stays as it is. *)
LEMMA KeepCut ==
  ASSUME CutInv, cut' = cut, res' = res, shown' = shown, faulty => faulty',
         pc' \in {"gather", "display"} =>
           pc \in {"gather", "display"} /\ \A k \in R : k \in R' /\ got'[k] = got[k]
  PROVE  CutInv'
<1>1. cut' # {} \/ res'.cut # {} => faulty'
  BY Zenon DEF CutInv
<1>2. pc' \in {"gather", "display"} => \A s \in res'.cut : s[1] \in R' /\ s[2] = got'[s[1]]
  BY Zenon DEF CutInv
<1>3. \A i \in DOMAIN shown' : (shown'[i].cut # {} => faulty') /\ LastCut(shown'[i])
  BY Zenon DEF CutInv
<1> QED
  BY <1>1, <1>2, <1>3, Zenon DEF CutInv, LastCut

(* Every step keeps it. *)
LEMMA CutStep ==
  ASSUME IInv, CutInv, [Next]_vars
  PROVE  CutInv'
<1>1. ASSUME NEW k \in Jobs, Measure(k) PROVE CutInv'
  <2>1. /\ cut' = cut /\ res' = res /\ shown' = shown /\ faulty' = faulty /\ cfg' = cfg
        /\ pc' = pc \/ pc' = "exit"
    BY <1>1 DEF Measure, Dial, Spawn, ScanRate, ScanSample, ScanEof, agentvars, Exit
  <2>2. job[k] # "received"
    BY <1>1 DEF Measure, Dial, Spawn, ScanRate, ScanSample, ScanEof
  <2>3. \A j \in Jobs : j # k => job'[j] = job[j] /\ got'[j] = got[j]
    <3>1. job \in [Jobs -> States] /\ got \in [Jobs -> Nat]
      BY Types
    <3>2. /\ job' = job \/ \E x : job' = [job EXCEPT ![k] = x]
          /\ got' = got \/ \E x : got' = [got EXCEPT ![k] = x]
      BY <1>1, Zenon DEF Measure, Dial, Spawn, ScanRate, ScanSample, ScanEof, jobvars
    <3> QED
      BY <3>1, <3>2
  <2>4. \A j \in R : j \in R' /\ got'[j] = got[j]
    <3>1. cfg \in Cfgs /\ Agents' = Agents
      BY <2>1, Types DEF Agents
    <3>2. \A j \in R : j \in Agents /\ j \in Jobs /\ j # k
      BY <2>2, <3>1, JobsSplit DEF R
    <3> QED
      BY <2>3, <3>1, <3>2 DEF R
  <2>5. pc' \in {"gather", "display"} => pc \in {"gather", "display"}
    BY <2>1
  <2> QED
    BY <2>1, <2>4, <2>5, KeepCut, Zenon
<1>2. ASSUME NEW k \in Jobs, MeasureError(k) PROVE CutInv'
  <2>1. /\ cut' = cut /\ res' = res /\ shown' = shown /\ faulty' = TRUE /\ pc' = "exit"
    BY <1>2 DEF MeasureError, Fail, agentvars, Exit
  <2> QED
    BY <2>1, KeepCut, Zenon
<1>3. ASSUME NEW k \in Jobs, AgentPrints(k) PROVE CutInv'
  <2>1. /\ cut' = cut /\ res' = res /\ shown' = shown /\ faulty' = faulty /\ pc' = pc
        /\ got' = got /\ job' = job /\ cfg' = cfg
    BY <1>3 DEF AgentPrints, jobvars
  <2>2. R' = R
    BY <2>1 DEF R, Agents
  <2> QED
    BY <2>1, <2>2, KeepCut, Zenon
<1>4. ASSUME NEW k \in Jobs, AgentEnds(k) PROVE CutInv'
  <2>1. /\ res' = res /\ shown' = shown /\ pc' = pc /\ got' = got /\ job' = job /\ cfg' = cfg
        /\ faulty' = TRUE \/ (faulty' = faulty /\ cut' = cut)
    BY <1>4 DEF AgentEnds, jobvars
  <2>2. R' = R
    BY <2>1 DEF R, Agents
  <2>3. cut' # {} \/ res'.cut # {} => faulty'
    BY <2>1, Zenon DEF CutInv
  <2>4. pc' \in {"gather", "display"} => \A s \in res'.cut : s[1] \in R' /\ s[2] = got'[s[1]]
    BY <2>1, <2>2, Zenon DEF CutInv
  <2>5. \A i \in DOMAIN shown' : (shown'[i].cut # {} => faulty') /\ LastCut(shown'[i])
    BY <2>1, Zenon DEF CutInv
  <2> QED
    BY <2>3, <2>4, <2>5, Zenon DEF CutInv, LastCut
<1>5. CASE WarmupDone \/ LastStep
  <2>1. /\ cut' = cut /\ res' = res /\ shown' = shown /\ faulty' = faulty
        /\ pc' \notin {"gather", "display"}
    BY <1>5 DEF WarmupDone, LastStep, agentvars
  <2> QED
    BY <2>1, KeepCut, Zenon
<1>6. CASE StartStep
  <2>1. cut' = {} /\ res'.cut = {} /\ shown' = shown /\ faulty' = faulty
    BY <1>6 DEF StartStep, NoResult
  <2>2. \A i \in DOMAIN shown' : (shown'[i].cut # {} => faulty') /\ LastCut(shown'[i])
    BY <2>1, Zenon DEF CutInv
  <2> QED
    BY <2>1, <2>2, Zenon DEF CutInv, LastCut
<1>7. ASSUME NEW k \in Agents, Receive(k) PROVE CutInv'
  <2>1. /\ pc = "gather" /\ job[k] = "send" /\ job' = [job EXCEPT ![k] = "received"]
        /\ res' = accum(k) /\ cfg' = cfg /\ got' = got /\ cut' = cut /\ shown' = shown
        /\ faulty' = faulty
    BY <1>7 DEF Receive, agentvars
  <2>2. res'.cut = res.cut \cup CutIn(k)
    BY <2>1 DEF accum
  <2>3. \A s \in CutIn(k) : k \in cut /\ s[1] = k /\ s[2] = got[k]
    BY DEF CutIn
  <2>4. k \in R' /\ \A j \in R : j \in R'
    <3>1. job \in [Jobs -> States] /\ Agents \subseteq Jobs /\ Agents' = Agents
      BY <2>1, Types, JobsSplit DEF Agents
    <3> QED
      BY <2>1, <3>1 DEF R
  <2>5. cut' # {} \/ res'.cut # {} => faulty'
    BY <2>1, <2>2, <2>3, Zenon DEF CutInv
  <2>6. \A s \in res'.cut : s[1] \in R' /\ s[2] = got'[s[1]]
    <3>1. \A s \in res.cut : s[1] \in R /\ s[2] = got[s[1]]
      BY <2>1 DEF CutInv
    <3> QED
      BY <2>1, <2>2, <2>3, <2>4, <3>1, Zenon
  <2>7. \A i \in DOMAIN shown' : (shown'[i].cut # {} => faulty') /\ LastCut(shown'[i])
    BY <2>1, Zenon DEF CutInv
  <2> QED
    BY <2>5, <2>6, <2>7, Zenon DEF CutInv, LastCut
<1>8. CASE Display
  <2>1. /\ cut' = cut /\ res' = res /\ faulty' = faulty /\ pc = "display"
        /\ pc' \notin {"gather", "display"}
    BY <1>8 DEF Display, agentvars, Exit
  <2>2. CASE shown' = shown
    BY <2>1, <2>2, KeepCut, Zenon
  <2>3. CASE shown' # shown
    <3> DEFINE x == [offered |-> res.offered, rates |-> res.rates, ids |-> res.samples,
                     cut |-> res.cut,
                     pct |-> [p \in Fractions |-> percentile(Values(res.samples, res.cut), p)]]
    <3>1. shown' = Append(shown, x) /\ x.cut = res.cut /\ x.ids = res.samples
      BY <1>8, <2>3 DEF Display
    <3> HIDE DEF x
    <3>2. PICK S : shown \in Seq(S)
      BY Zenon DEF IInv, Displayed
    <3>3. /\ DOMAIN shown = 1 .. Len(shown) /\ DOMAIN shown' = 1 .. Len(shown) + 1
          /\ Len(shown) \in Nat
          /\ \A i \in 1 .. Len(shown) : shown'[i] = shown[i]
          /\ shown'[Len(shown) + 1] = x
      BY <3>1, <3>2
    <3>4. LastCut(x)
      <4>1. Collected(res.samples, R, got)
        BY <2>1 DEF IInv, Gathered
      <4>2. \A s \in res.cut : s[2] = got[s[1]]
        BY <2>1 DEF CutInv
      <4>3. ASSUME NEW s \in res.cut, NEW a \in DOMAIN res.samples, res.samples[a][1] = s[1]
            PROVE  res.samples[a][2] <= s[2]
        <5>1. res.samples[a][2] \in 1 .. got[s[1]]
          BY <4>1, <4>3 DEF Collected
        <5> QED
          BY <4>2, <5>1
      <4> QED
        BY <3>1, <4>3, Zenon DEF LastCut
    <3>5. x.cut # {} => faulty'
      BY <2>1, <3>1, Zenon DEF CutInv
    <3>6. \A i \in DOMAIN shown' : (shown'[i].cut # {} => faulty') /\ LastCut(shown'[i])
      <4> SUFFICES ASSUME NEW i \in DOMAIN shown'
                   PROVE  (shown'[i].cut # {} => faulty') /\ LastCut(shown'[i])
        OBVIOUS
      <4>1. CASE i \in 1 .. Len(shown)
        BY <2>1, <3>3, <4>1, Zenon DEF CutInv
      <4>2. CASE i = Len(shown) + 1
        BY <3>3, <3>4, <3>5, <4>2, Zenon
      <4> QED
        BY <3>3, <4>1, <4>2
    <3>7. cut' # {} \/ res'.cut # {} => faulty'
      BY <2>1, Zenon DEF CutInv
    <3> QED
      BY <2>1, <3>6, <3>7, Zenon DEF CutInv, LastCut
  <2> QED
    BY <2>2, <2>3
<1>9. CASE UNCHANGED vars
  <2>1. /\ cut' = cut /\ res' = res /\ shown' = shown /\ faulty' = faulty /\ pc' = pc
        /\ got' = got /\ job' = job /\ cfg' = cfg
    BY <1>9 DEF vars, jobvars, agentvars
  <2>2. R' = R
    BY <2>1 DEF R, Agents
  <2> QED
    BY <2>1, <2>2, KeepCut, Zenon
<1> QED
  BY <1>1, <1>2, <1>3, <1>4, <1>5, <1>6, <1>7, <1>8, <1>9, Zenon DEF Next, Main

(* Every line displayed is the whole of its step, for every number of      *)
(* agents and steps and in whatever order the agents' results come in, and *)
(* only the last sample of an agent that broke off can have been cut       *)
(* (measureOne, measure, divCfg).                                          *)
THEOREM ResultCorrect == Spec => []ResultComplete
<1>1. IInv /\ CutInv => ResultComplete
  <2> SUFFICES ASSUME IInv, CutInv PROVE ResultComplete
    OBVIOUS
  <2>1. DOMAIN shown = 1 .. Len(shown)
    <3>1. PICK S : shown \in Seq(S)
      BY Zenon DEF IInv, Displayed
    <3> QED
      BY <3>1
  <2>2. \A i \in DOMAIN shown : Line(shown[i], i)
    BY <2>1, Zenon DEF IInv, Displayed
  <2>3. \A i \in DOMAIN shown : (shown[i].cut # {} => faulty) /\ LastCut(shown[i])
    BY Zenon DEF CutInv
  <2> QED
    BY <2>2, <2>3, Zenon DEF ResultComplete, Line, InOrder, LastCut
<1>2. Init => CutInv
  BY DEF Init, NoResult, CutInv
<1>3. IInv /\ CutInv /\ [Next]_vars => CutInv'
  BY CutStep
<1> QED
  BY <1>1, <1>2, <1>3, Invariant, PTL DEF Spec

(* The coordinator fails only when something outside it fails, its agents  *)
(* do not know their options, or an agent was given no sample, rate or     *)
(* connection (checkError, the indices of coord.go).                       *)
THEOREM FailsCorrect == Spec => []FailsForAReason
<1>1. IInv => FailsForAReason
  BY DEF IInv
<1> QED
  BY <1>1, Invariant, PTL

-----------------------------------------------------------------------------
(* Percentiles. *)

(* The samples that sort() puts up to sample i. *)
UpTo(s, i) == {j \in DOMAIN s : Before(s, j, i)}

(* Sets of samples are finite, and a place is one of the places there are. *)
LEMMA PlaceTypes ==
  ASSUME NEW s \in Seq(Int), NEW i \in DOMAIN s
  PROVE  /\ IsFiniteSet(DOMAIN s) /\ Cardinality(DOMAIN s) = Len(s)
         /\ UpTo(s, i) \in SUBSET (DOMAIN s) /\ IsFiniteSet(UpTo(s, i)) /\ i \in UpTo(s, i)
         /\ Place(s, i) = Cardinality(UpTo(s, i))
         /\ Place(s, i) \in 1 .. Len(s)
<1>1. Len(s) \in Nat /\ DOMAIN s = 1 .. Len(s) /\ s[i] \in Int
  OBVIOUS
<1>2. IsFiniteSet(DOMAIN s) /\ Cardinality(DOMAIN s) = Len(s)
  <2>1. IsFiniteSet(1 .. Len(s)) /\ Cardinality(1 .. Len(s)) = IF 1 > Len(s) THEN 0 ELSE Len(s) - 1 + 1
    BY <1>1, FS_Interval
  <2> QED
    BY <1>1, <2>1
<1>3. UpTo(s, i) \in SUBSET (DOMAIN s) /\ i \in UpTo(s, i)
  BY <1>1 DEF UpTo, Before
<1>4. IsFiniteSet(UpTo(s, i)) /\ Cardinality(UpTo(s, i)) <= Len(s)
  BY <1>2, <1>3, FS_Subset
<1>5. Place(s, i) = Cardinality(UpTo(s, i))
  BY DEF Place, UpTo
<1>6. Cardinality(UpTo(s, i)) \in Nat /\ Cardinality(UpTo(s, i)) # 0
  BY <1>3, <1>4, FS_CardinalityType, FS_EmptySet
<1> QED
  BY <1>1, <1>2, <1>3, <1>4, <1>5, <1>6

(* Of two samples one is before the other, and its place is the lower one. *)
LEMMA PlaceOrder ==
  ASSUME NEW s \in Seq(Int), NEW i \in DOMAIN s, NEW j \in DOMAIN s, i # j, Before(s, j, i)
  PROVE  Place(s, j) < Place(s, i)
<1>1. s[i] \in Int /\ s[j] \in Int /\ i \in Int /\ j \in Int
  OBVIOUS
<1>2. UpTo(s, j) \subseteq UpTo(s, i)
  BY <1>1 DEF UpTo, Before
<1>3. i \notin UpTo(s, j)
  BY <1>1 DEF UpTo, Before
<1>4. /\ IsFiniteSet(UpTo(s, i)) /\ IsFiniteSet(UpTo(s, j)) /\ i \in UpTo(s, i)
      /\ Place(s, i) = Cardinality(UpTo(s, i)) /\ Place(s, j) = Cardinality(UpTo(s, j))
      /\ Place(s, i) \in Int /\ Place(s, j) \in Int
  BY PlaceTypes
<1>5. Cardinality(UpTo(s, j)) <= Cardinality(UpTo(s, i))
  BY <1>2, <1>4, FS_Subset
<1>6. Cardinality(UpTo(s, j)) # Cardinality(UpTo(s, i))
  BY <1>2, <1>3, <1>4, FS_Subset
<1> QED
  BY <1>4, <1>5, <1>6

(* Of two samples one is before the other. *)
LEMMA BeforeTotal ==
  ASSUME NEW s \in Seq(Int), NEW i \in DOMAIN s, NEW j \in DOMAIN s
  PROVE  Before(s, j, i) \/ Before(s, i, j)
<1>1. s[i] \in Int /\ s[j] \in Int /\ i \in Int /\ j \in Int
  OBVIOUS
<1> QED
  BY <1>1 DEF Before

(* Every place is taken. *)
LEMMA PlaceTaken ==
  ASSUME NEW s \in Seq(Int), NEW r \in DOMAIN s
  PROVE  \E i \in DOMAIN s : Place(s, i) = r
<1> DEFINE f == [i \in DOMAIN s |-> Place(s, i)]
<1>1. DOMAIN s = 1 .. Len(s) /\ IsFiniteSet(DOMAIN s)
  BY PlaceTypes
<1>2. f \in [DOMAIN s -> DOMAIN s]
  BY <1>1, PlaceTypes
<1>3. \A i, j \in DOMAIN s : f[i] = f[j] => i = j
  <2> SUFFICES ASSUME NEW i \in DOMAIN s, NEW j \in DOMAIN s, Place(s, i) = Place(s, j), i # j
               PROVE  FALSE
    OBVIOUS
  <2>1. Place(s, i) < Place(s, j) \/ Place(s, j) < Place(s, i)
    BY BeforeTotal, PlaceOrder
  <2>2. Place(s, i) \in Int
    BY PlaceTypes
  <2> QED
    BY <2>1, <2>2
<1>4. f \in Injection(DOMAIN s, DOMAIN s)
  BY <1>2, <1>3 DEF Injection, IsInjective
<1>5. f \in Surjection(DOMAIN s, DOMAIN s)
  BY <1>1, <1>4, FS_Injection
<1> QED
  BY <1>5 DEF Surjection

(* Sorted(s)[r] is the sample whose place is r: the samples rearranged, in *)
(* order.                                                                  *)
LEMMA SortedAt ==
  ASSUME NEW s \in Seq(Int), NEW r \in DOMAIN s
  PROVE  \E i \in DOMAIN s : Place(s, i) = r /\ Sorted(s)[r] = s[i]
<1> DEFINE i == CHOOSE i \in DOMAIN s : Place(s, i) = r
<1>1. i \in DOMAIN s /\ Place(s, i) = r
  BY PlaceTaken
<1>2. Sorted(s)[r] = s[i]
  BY DEF Sorted
<1> QED
  BY <1>1, <1>2

(* What sort() leaves does not decrease. *)
LEMMA SortedInOrder ==
  ASSUME NEW s \in Seq(Int), NEW q \in DOMAIN s, NEW r \in DOMAIN s, q <= r
  PROVE  Sorted(s)[q] \in Int /\ Sorted(s)[r] \in Int /\ Sorted(s)[q] <= Sorted(s)[r]
<1>1. PICK i \in DOMAIN s : Place(s, i) = q /\ Sorted(s)[q] = s[i]
  BY SortedAt
<1>2. PICK j \in DOMAIN s : Place(s, j) = r /\ Sorted(s)[r] = s[j]
  BY SortedAt
<1>3. s[i] \in Int /\ s[j] \in Int /\ q \in Int /\ r \in Int
  OBVIOUS
<1>4. ~ (i # j /\ Before(s, j, i))
  BY <1>1, <1>2, <1>3, PlaceOrder
<1>5. s[i] <= s[j]
  BY <1>3, <1>4, BeforeTotal DEF Before
<1> QED
  BY <1>1, <1>2, <1>3, <1>5

(* At least r samples do not exceed the one at place r; less than r do not *)
(* exceed one that is smaller.                                             *)
LEMMA SortedCounts ==
  ASSUME NEW s \in Seq(Int), NEW r \in DOMAIN s
  PROVE  /\ \E i \in DOMAIN s : s[i] = Sorted(s)[r]
         /\ AtMost(s, Sorted(s)[r]) \in Nat /\ r <= AtMost(s, Sorted(s)[r])
         /\ \A j \in DOMAIN s : s[j] < Sorted(s)[r] =>
              AtMost(s, s[j]) \in Nat /\ AtMost(s, s[j]) < r
<1>1. PICK i \in DOMAIN s : Place(s, i) = r /\ Sorted(s)[r] = s[i]
  BY SortedAt
<1>2. /\ IsFiniteSet(DOMAIN s) /\ IsFiniteSet(UpTo(s, i)) /\ r = Cardinality(UpTo(s, i))
      /\ \A j \in DOMAIN s : s[j] \in Int
      /\ i \in UpTo(s, i) /\ r \in Nat
  BY <1>1, PlaceTypes
<1> DEFINE A(v) == {j \in DOMAIN s : s[j] <= v}
<1>3. \A v : IsFiniteSet(A(v)) /\ AtMost(s, v) = Cardinality(A(v)) /\ AtMost(s, v) \in Nat
  <2> SUFFICES ASSUME NEW v
               PROVE  IsFiniteSet(A(v)) /\ AtMost(s, v) = Cardinality(A(v)) /\ AtMost(s, v) \in Nat
    OBVIOUS
  <2>1. A(v) \in SUBSET (DOMAIN s)
    OBVIOUS
  <2>2. IsFiniteSet(A(v))
    BY <1>2, <2>1, FS_Subset
  <2>3. AtMost(s, v) = Cardinality(A(v))
    BY DEF AtMost
  <2> QED
    BY <2>2, <2>3, FS_CardinalityType
<1>4. UpTo(s, i) \in SUBSET A(s[i])
  BY <1>2 DEF UpTo, Before
<1>5. r <= AtMost(s, s[i])
  <2>1. IsFiniteSet(A(s[i])) /\ AtMost(s, s[i]) = Cardinality(A(s[i]))
    BY <1>3
  <2>2. Cardinality(UpTo(s, i)) <= Cardinality(A(s[i]))
    BY <1>4, <2>1, FS_Subset
  <2> QED
    BY <1>2, <2>1, <2>2
<1>6. ASSUME NEW j \in DOMAIN s, s[j] < s[i]
      PROVE  AtMost(s, s[j]) < r
  <2>1. A(s[j]) \in SUBSET UpTo(s, i) /\ i \notin A(s[j])
    BY <1>2, <1>6 DEF UpTo, Before
  <2>2. Cardinality(A(s[j])) <= r /\ Cardinality(A(s[j])) # r
    BY <1>2, <2>1, FS_Subset
  <2>3. AtMost(s, s[j]) = Cardinality(A(s[j])) /\ AtMost(s, s[j]) \in Nat
    BY <1>3
  <2> QED
    BY <1>2, <2>2, <2>3
<1> QED
  BY <1>1, <1>3, <1>5, <1>6

(* Fractions of a whole. *)
Ratio(p) == p[1] \in Nat /\ p[2] \in Nat \ {0} /\ p[1] <= p[2]

(* Division rounds down, by less than the divisor. *)
LEMMA Quotient ==
  ASSUME NEW x \in Nat, NEW d \in Nat \ {0}
  PROVE  /\ x \div d \in Nat /\ (x \div d) * d \in Nat
         /\ (x \div d) * d <= x /\ x < (x \div d) * d + d
OBVIOUS

(* Multiplying by a natural number keeps the order. *)
LEMMA TimesMonotone ==
  ASSUME NEW x \in Int, NEW y \in Int, NEW d \in Nat, x <= y
  PROVE  x * d <= y * d /\ x * d \in Int /\ y * d \in Int
OBVIOUS

(* Products with a neighbouring number. *)
LEMMA TimesOne ==
  ASSUME NEW x \in Int, NEW d \in Int
  PROVE  (x + 1) * d = x * d + d /\ (x - 1) * d = x * d - d
OBVIOUS

(* The rank of Accum::percentile is one of the array, and the least whose  *)
(* share of the samples reaches the fraction.                              *)
LEMMA AccumRankBounds ==
  ASSUME NEW n \in Nat \ {0}, NEW p, Ratio(p), p[1] > 0
  PROVE  /\ AccumRank(n, p) \in 1 .. n
         /\ AccumRank(n, p) * p[2] >= p[1] * n
         /\ (AccumRank(n, p) - 1) * p[2] < p[1] * n
<1> DEFINE a == p[1]
           d == p[2]
           r == AccumRank(n, p)
           m == a * n
<1>1. a \in Nat /\ a > 0 /\ d \in Nat \ {0} /\ a <= d
  BY DEF Ratio
<1>2. n * a = m /\ m \in Nat /\ m >= n /\ m <= n * d
  <2>1. 1 * n <= a * n /\ a * n <= d * n
    BY <1>1, TimesMonotone
  <2> QED
    BY <1>1, <2>1
<1>3. r = (m + d - 1) \div d
  BY <1>2 DEF AccumRank
<1> HIDE DEF a, d, r, m
<1>4. m + d - 1 \in Nat
  BY <1>1, <1>2
<1>5. r \in Nat /\ r * d <= m + d - 1 /\ m + d - 1 < r * d + d /\ r * d \in Nat
  BY <1>1, <1>3, <1>4, Quotient
<1>6. r * d >= m /\ (r - 1) * d < m
  BY <1>1, <1>2, <1>5, TimesOne
<1>7. r # 0
  BY <1>1, <1>2, <1>6
<1>8. r <= n
  <2> SUFFICES ASSUME n <= r - 1 PROVE FALSE
    BY <1>5
  <2>1. n * d <= (r - 1) * d /\ n * d \in Int /\ (r - 1) * d \in Int
    BY <1>1, <1>5, TimesMonotone
  <2> QED
    BY <1>2, <1>6, <2>1
<1> QED
  BY <1>5, <1>6, <1>7, <1>8 DEF a, d, r, m

(* The rank of result.percentile is one of the array too; it is the first  *)
(* for 0 and the last for 1, at most that of Accum::percentile, and falls  *)
(* short of the fraction by less than a sample.                            *)
LEMMA RankBounds ==
  ASSUME NEW n \in Nat \ {0}, NEW p, Ratio(p)
  PROVE  /\ Rank(n, p) \in 1 .. n
         /\ p[1] = 0 => Rank(n, p) = 1
         /\ p[1] = p[2] => Rank(n, p) = n
         /\ p[1] > 0 => Rank(n, p) <= AccumRank(n, p)
         /\ (Rank(n, p) + 1) * p[2] >= p[1] * n
<1> DEFINE a == p[1]
           d == p[2]
           m == a * (n - 1)
           k == m \div d
<1>1. a \in Nat /\ d \in Nat \ {0} /\ a <= d
  BY DEF Ratio
<1>2. m \in Nat /\ m <= (n - 1) * d /\ a * n = m + a /\ (n - 1) * d \in Nat
  <2>1. a * (n - 1) <= d * (n - 1)
    BY <1>1, TimesMonotone
  <2> QED
    BY <1>1, <2>1
<1>3. Rank(n, p) = k + 1
  BY DEF Rank
<1>4. k \in Nat /\ k * d <= m /\ m < k * d + d /\ k * d \in Nat
  BY <1>1, <1>2, Quotient
<1>5. (a = 0 => m = 0) /\ (a = d => m = (n - 1) * d)
  BY <1>1
<1> HIDE DEF a, d, m, k
<1>6. k <= n - 1
  <2> SUFFICES ASSUME n <= k PROVE FALSE
    BY <1>4
  <2>1. n * d <= k * d /\ n * d \in Int
    BY <1>1, <1>4, TimesMonotone
  <2>2. (n - 1) * d = n * d - d
    BY <1>1, TimesOne
  <2> QED
    BY <1>1, <1>2, <1>4, <2>1, <2>2
<1>7. a = 0 => k = 0
  <2> SUFFICES ASSUME a = 0, 1 <= k PROVE FALSE
    BY <1>4
  <2>1. 1 * d <= k * d
    BY <1>1, <1>4, TimesMonotone
  <2> QED
    BY <1>1, <1>4, <1>5, <2>1
<1>8. a = d => k = n - 1
  <2> SUFFICES ASSUME a = d, k + 1 <= n - 1 PROVE FALSE
    BY <1>4, <1>6
  <2>1. (k + 1) * d <= (n - 1) * d
    BY <1>1, <1>4, TimesMonotone
  <2>2. (k + 1) * d = k * d + d
    BY <1>1, <1>4, TimesOne
  <2> QED
    BY <1>1, <1>2, <1>4, <1>5, <2>1, <2>2
<1>9. a > 0 => k + 1 <= AccumRank(n, p)
  <2> SUFFICES ASSUME a > 0, AccumRank(n, p) <= k PROVE FALSE
    BY <1>4, AccumRankBounds DEF a
  <2>1. AccumRank(n, p) \in Nat /\ AccumRank(n, p) * d >= a * n
    BY AccumRankBounds DEF a, d
  <2>2. AccumRank(n, p) * d <= k * d
    BY <1>1, <1>4, <2>1, TimesMonotone
  <2> QED
    BY <1>1, <1>2, <1>4, <2>1, <2>2
<1>10. (k + 2) * d >= a * n
  <2>1. (k + 2) * d = (k + 1) * d + d /\ (k + 1) * d = k * d + d
    BY <1>1, <1>4, TimesOne
  <2> QED
    BY <1>1, <1>2, <1>4, <2>1
<1> QED
  BY <1>3, <1>4, <1>6, <1>7, <1>8, <1>9, <1>10 DEF a, d

(* Accum::percentile is the nearest rank, for every fraction above 0 and   *)
(* every set of samples.                                                   *)
THEOREM AccumIsNearestRank ==
  ASSUME NEW s \in Seq(Int), s # << >>, NEW p, Ratio(p), p[1] > 0
  PROVE  IsNearestRank(s, p, AccumPercentile(s, p))
<1> DEFINE n == Len(s)
           r == AccumRank(n, p)
           v == Sorted(s)[r]
<1>1. n \in Nat \ {0} /\ DOMAIN s = 1 .. n
  OBVIOUS
<1>2. /\ r \in DOMAIN s /\ r \in Int
      /\ r * p[2] >= p[1] * n /\ (r - 1) * p[2] < p[1] * n
  BY <1>1, AccumRankBounds
<1>3. p[1] \in Nat /\ p[2] \in Nat /\ p[1] * n \in Int
  BY <1>1 DEF Ratio
<1>4. AccumPercentile(s, p) = v
  BY DEF AccumPercentile
<1> HIDE DEF n, r, v
<1>5. /\ \E i \in DOMAIN s : s[i] = v
      /\ AtMost(s, v) \in Nat /\ r <= AtMost(s, v)
      /\ \A j \in DOMAIN s : s[j] < v => AtMost(s, s[j]) \in Nat /\ AtMost(s, s[j]) < r
  BY <1>2, SortedCounts DEF v
<1>6. AtMost(s, v) * p[2] >= p[1] * n
  <2> DEFINE c == AtMost(s, v)
             d == p[2]
  <2>1. r \in Int /\ c \in Int /\ d \in Nat /\ r <= c
    BY <1>2, <1>3, <1>5
  <2> HIDE DEF c, d
  <2>2. r * d <= c * d /\ r * d \in Int /\ c * d \in Int
    BY <2>1, TimesMonotone
  <2> QED
    BY <1>2, <1>3, <2>2, SMTT(30) DEF c, d
<1>7. ASSUME NEW j \in DOMAIN s, s[j] < v
      PROVE  AtMost(s, s[j]) * p[2] < p[1] * n
  <2> DEFINE c == AtMost(s, s[j])
             d == p[2]
  <2>1. c \in Int /\ r - 1 \in Int /\ d \in Nat /\ c <= r - 1
    <3>1. c \in Nat /\ c < r
      BY <1>5, <1>7
    <3> HIDE DEF c
    <3> QED
      BY <1>2, <1>3, <3>1, SMTT(30)
  <2> HIDE DEF c, d
  <2>2. c * d <= (r - 1) * d /\ c * d \in Int /\ (r - 1) * d \in Int
    BY <2>1, TimesMonotone
  <2> QED
    BY <1>2, <1>3, <2>2, SMTT(30) DEF c, d
<1> QED
  BY <1>4, <1>5, <1>6, <1>7 DEF IsNearestRank, n

(* result.percentile is a sample, the least for 0 and the greatest for 1,  *)
(* never above Accum::percentile and a rank below it at most.              *)
THEOREM PercentileBrackets ==
  ASSUME NEW s \in Seq(Int), s # << >>, NEW p, Ratio(p)
  PROVE  LET v == percentile(s, p)
         IN  /\ \E j \in DOMAIN s : s[j] = v
             /\ p[1] = 0 => \A j \in DOMAIN s : v <= s[j]
             /\ p[1] = p[2] => \A j \in DOMAIN s : v >= s[j]
             /\ p[1] > 0 => v <= AccumPercentile(s, p)
             /\ (AtMost(s, v) + 1) * p[2] >= p[1] * Len(s)
<1> DEFINE n == Len(s)
           q == Rank(n, p)
           v == Sorted(s)[q]
<1>1. n \in Nat \ {0} /\ DOMAIN s = 1 .. n
  OBVIOUS
<1>2. /\ q \in DOMAIN s /\ q \in Nat
      /\ (p[1] = 0 => q = 1) /\ (p[1] = p[2] => q = n)
      /\ (p[1] > 0 => q <= AccumRank(n, p))
      /\ (q + 1) * p[2] >= p[1] * n
  BY <1>1, RankBounds
<1>3. p[1] \in Nat /\ p[2] \in Nat /\ p[1] * n \in Int
  BY <1>1 DEF Ratio
<1>4. percentile(s, p) = v
  BY DEF percentile
<1> HIDE DEF n, q, v
<1>5. (\E i \in DOMAIN s : s[i] = v) /\ AtMost(s, v) \in Nat /\ q <= AtMost(s, v)
  BY <1>2, SortedCounts DEF v
<1>6. ASSUME NEW j \in DOMAIN s
      PROVE  (p[1] = 0 => v <= s[j]) /\ (p[1] = p[2] => v >= s[j])
  <2>1. Place(s, j) \in DOMAIN s /\ Place(s, j) \in 1 .. n
    BY <1>1, PlaceTypes DEF n
  <2>2. PICK i \in DOMAIN s : Place(s, i) = Place(s, j) /\ Sorted(s)[Place(s, j)] = s[i]
    BY <2>1, SortedAt
  <2>3. i = j
    <3> SUFFICES ASSUME i # j PROVE FALSE
      OBVIOUS
    <3>1. Place(s, i) < Place(s, j) \/ Place(s, j) < Place(s, i)
      BY BeforeTotal, PlaceOrder
    <3> QED
      BY <2>1, <2>2, <3>1
  <2>4. p[1] = 0 => v <= s[j]
    BY <1>2, <2>1, <2>2, <2>3, SortedInOrder DEF v
  <2>5. p[1] = p[2] => s[j] <= v
    BY <1>2, <2>1, <2>2, <2>3, SortedInOrder DEF v
  <2>6. s[j] \in Int /\ v \in Int
    BY <1>2, SortedInOrder DEF v
  <2> QED
    BY <2>4, <2>5, <2>6
<1>7. p[1] > 0 => v <= AccumPercentile(s, p)
  <2> SUFFICES ASSUME p[1] > 0 PROVE v <= AccumPercentile(s, p)
    OBVIOUS
  <2>1. AccumRank(n, p) \in DOMAIN s
    BY <1>1, AccumRankBounds
  <2>2. q <= AccumRank(n, p)
    BY <1>2
  <2> QED
    BY <1>2, <2>1, <2>2, SortedInOrder DEF AccumPercentile, n, v
<1>8. (AtMost(s, v) + 1) * p[2] >= p[1] * n
  <2> DEFINE c == AtMost(s, v) + 1
             d == p[2]
  <2>1. q + 1 \in Int /\ c \in Int /\ d \in Nat /\ q + 1 <= c
    BY <1>2, <1>3, <1>5, SMTT(30)
  <2> HIDE DEF c, d
  <2>2. (q + 1) * d <= c * d /\ (q + 1) * d \in Int /\ c * d \in Int
    BY <2>1, TimesMonotone
  <2> QED
    BY <1>2, <1>3, <2>2 DEF c, d
<1> QED
  BY <1>4, <1>5, <1>6, <1>7, <1>8 DEF n

(* A line displayed has the percentiles of its own samples, of which there *)
(* are some.                                                               *)
Percentiles(x) ==
  /\ x.ids # << >> /\ x.ids \in Seq(Agents \X Nat)
  /\ x.pct = [p \in Fractions |-> percentile(Values(x.ids, x.cut), p)]

PInv == \A i \in DOMAIN shown : Percentiles(shown[i])

(* Only display adds to what is displayed, and samples do not change. *)
LEMMA OnlyDisplayShows ==
  ASSUME [Next]_vars
  PROVE  cfg' = cfg /\ val' = val /\ (shown' = shown \/ Display)
<1>1. CASE Main
  BY <1>1 DEF Main, WarmupDone, StartStep, LastStep, Receive, Display
<1>2. CASE \E k \in Jobs : Measure(k)
  BY <1>2 DEF Measure, Dial, Spawn, ScanRate, ScanSample, ScanEof
<1>3. CASE \E k \in Jobs : MeasureError(k)
  BY <1>3 DEF MeasureError, Fail
<1>4. CASE \E k \in Jobs : AgentPrints(k) \/ AgentEnds(k)
  BY <1>4 DEF AgentPrints, AgentEnds
<1>5. CASE UNCHANGED vars
  BY <1>5 DEF vars
<1> QED
  BY <1>1, <1>2, <1>3, <1>4, <1>5 DEF Next

(* Every step keeps the displayed percentiles those of the samples. *)
LEMMA PercentilesStep ==
  ASSUME IInv, PInv, [Next]_vars
  PROVE  PInv'
<1>1. cfg' = cfg /\ val' = val /\ Agents' = Agents
  BY OnlyDisplayShows DEF Agents
<1>2. \A x : Percentiles(x) => Percentiles(x)'
  <2>1. \A ids, cuts : Values(ids, cuts)' = Values(ids, cuts)
    BY <1>1 DEF Values
  <2> QED
    BY <1>1, <2>1, Zenon DEF Percentiles
<1>3. CASE shown' = shown
  BY <1>2, <1>3, Zenon DEF PInv
<1>4. CASE Display /\ shown' # shown
  <2> DEFINE x == [offered |-> res.offered, rates |-> res.rates, ids |-> res.samples,
                   cut |-> res.cut,
                   pct |-> [p \in Fractions |-> percentile(Values(res.samples, res.cut), p)]]
  <2>1. shown' = Append(shown, x) /\ res.samples # << >>
    BY <1>4 DEF Display
  <2>2. Percentiles(x)
    BY <2>1 DEF IInv, TypeOK, Percentiles
  <2> HIDE DEF x
  <2>3. PICK S : shown \in Seq(S)
    BY Zenon DEF IInv, Displayed
  <2>4. /\ DOMAIN shown = 1 .. Len(shown) /\ DOMAIN shown' = 1 .. Len(shown) + 1
        /\ Len(shown) \in Nat
        /\ \A i \in 1 .. Len(shown) : shown'[i] = shown[i]
        /\ shown'[Len(shown) + 1] = x
    BY <2>1, <2>3
  <2>5. \A i \in DOMAIN shown' : Percentiles(shown'[i])
    BY <2>2, <2>4 DEF PInv
  <2>6. \A i \in DOMAIN shown' : Percentiles(shown[i])'
    BY <1>1, <2>5, Zenon DEF Percentiles, Values
  <2> QED
    BY <2>6, Zenon DEF PInv
<1> QED
  BY <1>3, <1>4, OnlyDisplayShows

(* PercentilesBracketed holds throughout, whatever the agents measured and *)
(* in whatever order their results came in: the coordinator's percentiles  *)
(* are a rank below those of Accum::percentile at most (result.percentile).*)
THEOREM PercentilesCorrect == Spec => []PercentilesBracketed
<1>1. Init => PInv
  BY DEF Init, PInv
<1>2. ASSUME IInv, PInv PROVE PercentilesBracketed
  <2> SUFFICES ASSUME NEW i \in DOMAIN shown, NEW p \in Fractions
               PROVE  LET vals == Values(shown[i].ids, shown[i].cut)
                          n    == Len(vals)
                          here == shown[i].pct[p]
                      IN  /\ p[1] > 0 => IsNearestRank(vals, p, AccumPercentile(vals, p))
                          /\ p[1] = 0 => \A j \in DOMAIN vals : here <= vals[j]
                          /\ p[1] = p[2] => \A j \in DOMAIN vals : here >= vals[j]
                          /\ \E j \in DOMAIN vals : vals[j] = here
                          /\ p[1] > 0 => here <= AccumPercentile(vals, p)
                          /\ (AtMost(vals, here) + 1) * p[2] >= p[1] * n
    BY Zenon DEF PercentilesBracketed
  <2> DEFINE ids  == shown[i].ids
             cuts == shown[i].cut
             vals == Values(ids, cuts)
  <2>1. Ratio(p)
    BY DEF Fractions, Ratio
  <2>2. ids # << >> /\ ids \in Seq(Agents \X Nat) /\ shown[i].pct[p] = percentile(vals, p)
    <3>1. Percentiles(shown[i])
      BY <1>2, Zenon DEF PInv
    <3> HIDE DEF vals
    <3> QED
      BY <3>1 DEF Percentiles, vals
  <2>3. \A a \in DOMAIN ids : ids[a] \in Agents \X (1 .. cfg.samples)
    <3>1. PICK n \in [Agents -> 0 .. cfg.samples] :
            {ids[a] : a \in DOMAIN ids} = {s \in Agents \X (1 .. cfg.samples) : s[2] <= n[s[1]]}
      <4>1. PICK S : shown \in Seq(S)
        BY <1>2, Zenon DEF IInv, Displayed
      <4>2. i \in 1 .. Len(shown)
        BY <4>1
      <4>3. Line(shown[i], i)
        BY <1>2, <4>2, Zenon DEF IInv, Displayed
      <4> QED
        BY <4>3, Zenon DEF Line
    <3> HIDE DEF ids
    <3> QED
      BY <3>1
  <2>4. cfg \in Cfgs /\ val \in Latencies
    BY <1>2 DEF IInv, TypeOK
  <2>5. vals \in Seq(Int) /\ vals # << >>
    <3> DEFINE v(a) == val[ids[a][1]][ids[a][2]]
               w(a) == IF ids[a] \in cuts THEN v(a) \div 10 ELSE v(a)
    <3> HIDE DEF ids, cuts
    <3>1. \A a \in DOMAIN ids : v(a) \in Int
      BY <2>3, <2>4, LatenciesAssumption DEF Agents
    <3>2. \A x \in Int : x \div 10 \in Int
      OBVIOUS
    <3> HIDE DEF v
    <3>3. \A a \in DOMAIN ids : w(a) \in Int
      BY <3>1, <3>2
    <3>4. Len(ids) \in Nat \ {0} /\ DOMAIN ids = 1 .. Len(ids)
      BY <2>2
    <3>5. vals = [a \in 1 .. Len(ids) |-> w(a)]
      BY <3>4 DEF Values, v
    <3> HIDE DEF w
    <3> QED
      BY <3>3, <3>4, <3>5
  <2> HIDE DEF vals
  <2>6. p[1] > 0 => IsNearestRank(vals, p, AccumPercentile(vals, p))
    BY <2>1, <2>5, AccumIsNearestRank
  <2>7. LET v == percentile(vals, p)
        IN  /\ \E j \in DOMAIN vals : vals[j] = v
            /\ p[1] = 0 => \A j \in DOMAIN vals : v <= vals[j]
            /\ p[1] = p[2] => \A j \in DOMAIN vals : v >= vals[j]
            /\ p[1] > 0 => v <= AccumPercentile(vals, p)
            /\ (AtMost(vals, v) + 1) * p[2] >= p[1] * Len(vals)
    BY <2>1, <2>5, PercentileBrackets
  <2> QED
    BY <2>2, <2>6, <2>7, Zenon DEF vals
<1> QED
  BY <1>1, <1>2, PercentilesStep, Invariant, PTL DEF Spec

=================================================================================

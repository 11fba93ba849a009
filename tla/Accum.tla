---------------------------------- MODULE Accum ----------------------------------
(***************************************************************************)
(* Sample sets and their percentiles: Accum (client/accum.cc), which the   *)
(* client reports from, and result (scripts/coord.go), which the           *)
(* coordinator reports from.  A fraction of n/d is the pair <<n, d>>, a    *)
(* set of samples a non-empty sequence of numbers in the order of arrival. *)
(***************************************************************************)
EXTENDS Integers, Sequences, FiniteSets

(* A sorted_ flag that is set although samples have been added since. *)
Sorted_stale(samples) == samples

(* Where sort() puts sample i: behind the smaller ones and those that are  *)
(* equal and were before it.  (Among equal numbers the order is all one.)  *)
Before(samples, j, i) ==
  samples[j] < samples[i] \/ (samples[j] = samples[i] /\ j <= i)

Place(samples, i) == Cardinality({j \in DOMAIN samples : Before(samples, j, i)})

(* The samples as sort() leaves them; both classes sort on first use. *)
Sorted(samples) ==
  [r \in DOMAIN samples |->
     samples[CHOOSE i \in DOMAIN samples : Place(samples, i) = r]]

(* Accum::percentile counts ranks from the fraction of the size, rounded   *)
(* up.                                                                     *)
AccumRank(n, p) == (n * p[1] + p[2] - 1) \div p[2]
AccumPercentile(samples, p) == Sorted(samples)[AccumRank(Len(samples), p)]

(* result.percentile rounds the fraction of the last index down. *)
Rank(n, p) == (p[1] * (n - 1)) \div p[2] + 1
percentile(samples, p) == Sorted(samples)[Rank(Len(samples), p)]

-----------------------------------------------------------------------------
(* The reference: the least sample that at least the fraction p of all     *)
(* samples do not exceed (nearest rank).                                   *)
AtMost(samples, v) == Cardinality({i \in DOMAIN samples : samples[i] <= v})

IsNearestRank(samples, p, v) ==
  /\ \E i \in DOMAIN samples : samples[i] = v
  /\ AtMost(samples, v) * p[2] >= p[1] * Len(samples)
  /\ \A i \in DOMAIN samples :
       samples[i] < v => AtMost(samples, samples[i]) * p[2] < p[1] * Len(samples)

==================================================================================

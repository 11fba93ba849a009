------------------------------- MODULE Experiment -------------------------------
(***************************************************************************)
(* What a run of the load generator promises, as README.md describes it:   *)
(* the complete schedule is fixed before the first request; requests are   *)
(* generated in the order of the schedule, each once and none before its   *)
(* time, whatever the responses do (an open system); every sample is       *)
(* recorded once; and the run ends when, and only when, the last of them   *)
(* has been recorded.                                                      *)
(***************************************************************************)
EXTENDS Integers, Sequences

VARIABLES
  sched,     \* the transmit times, or << >> before they are drawn
  clock,     \* time since the start of the experiment
  sent,      \* how many requests have been generated
  recorded,  \* the requests whose sample has been recorded
  status     \* "running", "over" or "failed"

vars == <<sched, clock, sent, recorded, status>>

Init ==
  /\ sched = << >>
  /\ clock = 0
  /\ sent = 0
  /\ recorded = {}
  /\ status = "running"

Plan ==
  /\ sched = << >>
  /\ sched' # << >>
  /\ \A i \in 1 .. Len(sched') - 1 : sched'[i] <= sched'[i + 1]
  /\ UNCHANGED <<clock, sent, recorded, status>>

Emit ==
  /\ status = "running"
  /\ sent < Len(sched)
  /\ sched[sent + 1] <= clock
  /\ sent' = sent + 1
  /\ UNCHANGED <<sched, clock, recorded, status>>

Record ==
  /\ status = "running"
  /\ \E r \in 1 .. sent \ recorded : recorded' = recorded \cup {r}
  /\ status' = IF recorded' = 1 .. Len(sched) THEN "over" ELSE "running"
  /\ UNCHANGED <<sched, clock, sent>>

(* A queue is full, or the destructor of a socket fails. *)
Fail ==
  /\ status = "running"
  /\ status' = "failed"
  /\ UNCHANGED <<sched, clock, sent, recorded>>

Pass ==
  /\ status = "running"
  /\ sched # << >>
  /\ clock' = clock + 1
  /\ UNCHANGED <<sched, sent, recorded, status>>

Next == Plan \/ Emit \/ Record \/ Fail \/ Pass

Spec == Init /\ [][Next]_vars

=============================================================================

------------------------------ MODULE RequestPipe ------------------------------
(***************************************************************************)
(* What a connection promises the client (client/client.cc): requests are  *)
(* generated one after the other, each is reported sent once, each is      *)
(* recorded once (Client::record_sample), both in the order in which they  *)
(* were generated and never before the step it depends on, until the       *)
(* process fails, after which nothing more is reported.                    *)
(***************************************************************************)
EXTENDS Naturals, Sequences

VARIABLES generated,   \* number of requests generated
          sent,        \* requests reported sent, in order
          done,        \* requests recorded, in order
          failed       \* the process has ended with an exception

pipevars == <<generated, sent, done, failed>>

Init ==
  /\ generated = 0
  /\ sent = << >>
  /\ done = << >>
  /\ failed = FALSE

Generate ==
  /\ ~ failed
  /\ generated' = generated + 1
  /\ UNCHANGED <<sent, done, failed>>

ReportSent ==
  /\ ~ failed
  /\ Len(sent) < generated
  /\ sent' = Append(sent, Len(sent) + 1)
  /\ UNCHANGED <<generated, done, failed>>

Record ==
  /\ ~ failed
  /\ Len(done) < Len(sent)
  /\ done' = Append(done, Len(done) + 1)
  /\ UNCHANGED <<generated, sent, failed>>

Fail ==
  /\ ~ failed
  /\ failed' = TRUE
  /\ UNCHANGED <<generated, sent, done>>

Next == Generate \/ ReportSent \/ Record \/ Fail

Spec == Init /\ [][Next]_pipevars

================================================================================

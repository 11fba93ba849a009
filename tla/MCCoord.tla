--------------------------------- MODULE MCCoord ---------------------------------
(* Model-checking instance of Coord. *)
EXTENDS Coord

Base == [samples |-> 3, reqsPerSec |-> 4, conns |-> 2, cnt |-> 2, steps |-> 2,
         mode |-> "round_robin"]

(* Loads that divide evenly and that do not, a first step with less than a *)
(* request for each agent, an agent with nothing to sample, with no        *)
(* connection, options an agent does not know, no sample and no step at    *)
(* all, and a single agent.                                                *)
MainCfgs ==
  {Base,
   [Base EXCEPT !.samples = 4, !.steps = 1, !.reqsPerSec = 3],
   [Base EXCEPT !.reqsPerSec = 2], [Base EXCEPT !.samples = 1],
   [Base EXCEPT !.conns = 1], [Base EXCEPT !.conns = 1, !.mode = "per_request"],
   [Base EXCEPT !.mode = "random"], [Base EXCEPT !.mode = "unknown"],
   [Base EXCEPT !.samples = 0, !.conns = 0], [Base EXCEPT !.steps = 0],
   [Base EXCEPT !.cnt = 1]}

Warmup == [samples |-> 1, reqsPerSec |-> 1, conns |-> 1]

(* The samples of two agents, apart, interleaved and with ties; cut off    *)
(* they are among the others or less than all of them.                     *)
MainLatencies ==
  {<<<<11, 12, 13, 14>>, <<15, 16, 17, 18>>>>, <<<<3, 1, 22, 15>>, <<2, 2, 11, 3>>>>,
   <<<<22, 13, 11, 2>>, <<1, 40, 10, 1>>>>}

==================================================================================

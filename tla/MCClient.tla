-------------------------------- MODULE MCClient --------------------------------
(* Model-checking instances of Client. *)
EXTENDS Client

Base == [conn_mode |-> "ROUND_ROBIN", conn_cnt |-> 2, protocol |-> "SYNTHETIC",
         send_only |-> FALSE, use_busy_timer |-> FALSE,
         warmup |-> 1, samples |-> 2, cooldown |-> 0, missed_window |-> 0]

(* Connections are pooled or opened for a request, timers busy or not; the *)
(* first or the last of three requests is not measured; four requests over *)
(* one connection fill its queues of three.                                *)
MainConfigs ==
  {[Base EXCEPT !.conn_mode = m, !.use_busy_timer = b] : m \in Modes, b \in BOOLEAN}
  \cup {[Base EXCEPT !.send_only = TRUE],
        [Base EXCEPT !.send_only = TRUE, !.conn_mode = "PER_REQUEST"],
        [Base EXCEPT !.protocol = "MEMCACHE"],
        [Base EXCEPT !.warmup = 0, !.cooldown = 1],
        [Base EXCEPT !.conn_cnt = 1, !.cooldown = 1]}

(* Connections for one request, with a body in the response. *)
BodyConfigs == {[Base EXCEPT !.conn_mode = "PER_REQUEST", !.protocol = "MEMCACHE"]}
=============================================================================

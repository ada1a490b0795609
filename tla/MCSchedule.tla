----------------------------- MODULE MCSchedule ------------------------------
(* The ingestion and the admin ask for two ticks, the scheduled forecast for one, of *)
(* an interval of four. *)
EXTENDS Schedule

const_TTL == [ingestion |-> [w \in Workers |-> 2],
              forecast |-> [w \in Workers |-> IF w = "admin" THEN 2 ELSE 1]]
=============================================================================

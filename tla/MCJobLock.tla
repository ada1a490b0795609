----------------------------- MODULE MCJobLock ------------------------------
(* Instances of JobLock for TLC: two scheduler runs (of two processes, or a  *)
(* tick and the start-up catch-up; long and short TTL) and an admin trigger, *)
(* under the names the code gives them.                                      *)
EXTENDS JobLock, TLC

CONSTANTS s1, s2, a1

MCTTL == (s1 :> 3) @@ (s2 :> 1) @@ (a1 :> 2)
MCCodeNames == (s1 :> "scheduler") @@ (s2 :> "scheduler") @@ (a1 :> "admin_trigger")
MCNames == {"scheduler", "admin_trigger"}
=============================================================================

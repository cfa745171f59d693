---------------------------- MODULE MCScheduler ----------------------------
(***************************************************************************)
(* Two task periods, 3 and 6, in the ratio of a control period to the      *)
(* health period, on a counter of 32 that neither divides: the grid moves  *)
(* against the wrap.  A loop may come round two control periods late.      *)
(***************************************************************************)
EXTENDS Scheduler

MCTask == {"Control", "Health"}
MCPeriod == [t \in MCTask |-> IF t = "Control" THEN 3 ELSE 6]
=============================================================================

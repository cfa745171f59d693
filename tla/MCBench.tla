------------------------------ MODULE MCBench ------------------------------
(* Bench with a period of 20 ms, and everything else scaled down.          *)
EXTENDS Bench

MCTask == {"Control", "Health", "Telemetry"}
MCPeriod == [t \in MCTask |-> IF t = "Control" THEN 1 ELSE 3]
=============================================================================

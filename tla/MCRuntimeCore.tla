--------------------------- MODULE MCRuntimeCore ---------------------------
(***************************************************************************)
(* RuntimeCore on a clock of eight ticks.  The host timeout, the grace     *)
(* period and the gap are as small as they can be while a tick can fall    *)
(* before, on and after each deadline and the counter wraps many times; an *)
(* overflow threshold of two lets one overflow pass.                       *)
(***************************************************************************)
EXTENDS RuntimeCore
=============================================================================

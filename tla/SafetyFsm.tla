----------------------------- MODULE SafetyFsm -----------------------------
(***************************************************************************)
(* What the safety state machine promises to whoever drives the actuators, *)
(* whatever timers, queues and counters decide it:                         *)
(*   - the state moves only along the diagram of ARCHITECTURE.md, possibly *)
(*     through several of its arrows in one step;                          *)
(*   - a latched stop is left for FAULT only, and FAULT never;             *)
(*   - an output that commands motion is issued from RUNNING or DEGRADED   *)
(*     alone, and a latched state issues nothing but stops.                *)
(* An output is what the last step issued, "None" when it issued nothing.  *)
(* A behaviour is one power cycle of the controller.                       *)
(***************************************************************************)
CONSTANT Boot   \* the state the machine is in when the behaviour starts

VARIABLES state, output

(* The states that one step may lead to.                                   *)
Reach ==
  [Startup  |-> {"Startup", "SelfTest", "SafeStop", "Fault"},
   SelfTest |-> {"SelfTest", "Ready", "SafeStop", "Fault"},
   Ready    |-> {"Ready", "Running", "Degraded", "SafeStop", "Fault"},
   Running  |-> {"Running", "Degraded", "SafeStop", "Fault"},
   Degraded |-> {"Degraded", "Running", "SafeStop", "Fault"},
   SafeStop |-> {"SafeStop", "Fault"},
   Fault    |-> {"Fault"}]

(* What may be issued by a step that ends in a state.                      *)
Issued ==
  [Startup  |-> {"Neutral"},
   SelfTest |-> {"Neutral"},
   Ready    |-> {"Neutral"},
   Running  |-> {"Neutral", "Control"},
   Degraded |-> {"Neutral", "Control"},
   SafeStop |-> {"SafeStop"},
   Fault    |-> {"SafeStop"}]

Init == state = Boot /\ output = "None"

Next ==
  /\ state' \in Reach[state]
  /\ output' \in Issued[state'] \cup {"None"}

vars == <<state, output>>

Spec == Init /\ [][Next]_vars
=============================================================================

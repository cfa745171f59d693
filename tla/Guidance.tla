------------------------------ MODULE Guidance ------------------------------
(***************************************************************************)
(* ControlSystem with its RouteManager (src/src/control.cpp): progress     *)
(* along the route, the final stop, completion, and the rate limit of the  *)
(* steering.  Where the estimate is, the only thing that matters of it, is *)
(* the set of waypoints whose region it lies in; the direction in which to *)
(* steer and the speed to aim at, if it is not zero, are choices.  The     *)
(* speed integral is left out.                                             *)
(*                                                                         *)
(* The controller is a record; an index of a waypoint begins at one.       *)
(***************************************************************************)
EXTENDS Integers

CONSTANTS
  MaxWaypoints,   \* kMaximumWaypoints (32)
  MaxSteering,    \* ControlConfig.maximum_steering_rad, in steps
  MaxChange       \* maximum_steering_rate_rad_s times the time step

ASSUME GuidanceAssumption ==
  /\ MaxWaypoints \in Nat \ {0}
  /\ MaxSteering \in Nat /\ MaxChange \in Nat

Steering == -MaxSteering .. MaxSteering

ControllerRecord ==
  [count    : 0 .. MaxWaypoints,   \* count_, zero while there is no route
   active   : 1 .. MaxWaypoints,   \* active_waypoint_
   latched  : BOOLEAN,             \* final_stop_latched_
   steering : Steering]            \* previous_steering_rad_

NoController == [count |-> 0, active |-> 1, latched |-> FALSE, steering |-> 0]

-----------------------------------------------------------------------------
(* set_route: a route that is refused leaves the one before in force, but  *)
(* the controller has already been reset by then.                          *)
RouteSet(c, n) ==
  [count |-> n, active |-> 1, latched |-> FALSE, steering |-> 0]

Slip_RouteRefusedUnlatched(c) ==
  [c EXCEPT !.steering = 0, !.latched = FALSE]
RouteRefused(c) == [c EXCEPT !.steering = 0]

-----------------------------------------------------------------------------
(* update: the active waypoint moves on while the estimate is in its       *)
(* region, and stays at the last.                                          *)
Slip_ReachesAny(c, near, next) ==
  /\ next \in c.active .. c.count
  /\ next = c.count \/ next \notin near
Reaches(c, near, next) ==
  /\ next \in c.active .. c.count
  /\ \A i \in c.active .. (next - 1) : i \in near
  /\ next = c.count \/ next \notin near

Progressed(c, near, next) ==
  [c EXCEPT !.active = next,
            !.latched = @ \/ (next = c.count /\ next \in near)]

(* Complete at rest in the region of the last waypoint, wherever the       *)
(* progress is.                                                            *)
IsComplete(c, near, slow) == c.count \in near /\ slow
Halted(c, near, slow) ==
  IsComplete(c, near, slow) \/ (c.active = c.count /\ c.latched)

-----------------------------------------------------------------------------
(* step, for an estimate that is finite.                                   *)
Clamp(x, low, high) == IF x < low THEN low ELSE IF x > high THEN high ELSE x

Steered(c, desired) ==
  Clamp(Clamp(desired, c.steering - MaxChange, c.steering + MaxChange),
        -MaxSteering, MaxSteering)

Command == [kind     : {"None", "Neutral", "Drive", "Complete", "SafeStop"},
            steering : Steering,
            target   : {"Zero", "Moving"}]
Still(kind) == [kind |-> kind, steering |-> 0, target |-> "Zero"]

(* The record and the command of a step that found the progress next.      *)
Guided(c, near, slow, next, desired) ==
  LET p == Progressed(c, near, next)
  IN  [p EXCEPT !.steering = IF IsComplete(p, near, slow)
                               THEN 0 ELSE Steered(p, desired)]

CommandOf(c, near, slow, next, desired, aim) ==
  LET p == Progressed(c, near, next)
  IN  IF IsComplete(p, near, slow)
        THEN Still("Complete")
        ELSE [kind |-> "Drive", steering |-> Steered(p, desired),
              target |-> IF Halted(p, near, slow) THEN "Zero" ELSE aim]
=============================================================================

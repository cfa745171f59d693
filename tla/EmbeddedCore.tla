---------------------------- MODULE EmbeddedCore ----------------------------
(***************************************************************************)
(* EmbeddedControllerCore (src/src/runtime.cpp) with the estimator, the    *)
(* controller and the runtime it owns, under every order of the calls that *)
(* FirmwareSession makes: a sensor frame is fused in a copy of the         *)
(* estimator that is kept or thrown away, the navigation mode is read off  *)
(* what was kept, the runtime decides, and the controller or one of its    *)
(* two fixed commands is what goes out.                                    *)
(*                                                                         *)
(* The session shows the core accepted frames only; a sound estimator has  *)
(* a finite estimate (enforce_covariance_health), so the controller never  *)
(* steps on one that is not.                                               *)
(***************************************************************************)
EXTENDS Core, Estimator, Guidance

CONSTANTS
  Frames,     \* the frames there are: what they carry, and what is made of it
  MaxQuiet    \* the longest silence of a source that was once seen

ASSUME CoreAssumption == Frames \subseteq Updates /\ MaxQuiet \in Nat

(* No source that was once seen is silent for 2^32 milliseconds, 49 days,  *)
(* after which its age starts again from zero.                             *)
ASSUME QuietAssumption == MaxQuiet < ClockSize

VARIABLES
  est,       \* estimator_
  rt,        \* runtime_
  control,   \* controller_
  command,   \* the command of the last step
  seen       \* observed: what the code has no record of, see Unseen

vars == <<est, rt, control, command, seen>>

(* The true time since a source was last fused, in a frame that was taken  *)
(* as a whole; the waypoints entered since the route was set, and if the   *)
(* last was, as the active one; and if a route was refused since the last  *)
(* command.                                                                *)
Never == -1
Quiet == 0 .. MaxQuiet \cup {Never}
Unseen == [quiet |-> [k \in Source |-> Never], entered |-> {},
           arrived |-> FALSE, refused |-> FALSE]
Observed == [quiet : [Source -> Quiet],
             entered : SUBSET (1 .. MaxWaypoints), arrived : BOOLEAN,
             refused : BOOLEAN]

-----------------------------------------------------------------------------
(* process_sensor_frame                                                    *)

(* The estimator is initialised by the first position, if it and the speed *)
(* are in range.                                                           *)
Begins(e, updates) == ~e.initialized /\ "Gnss" \in DOMAIN updates
Refused(e, updates) ==
  /\ Begins(e, updates)
  /\ \E k \in {"Gnss", "Wheel"} \cap DOMAIN updates : updates[k] = "Invalid"

(* It takes its position, speed and yaw rate from that frame, so nothing   *)
(* of them is outside a gate before a gyro has moved the prediction.       *)
Possible(e, updates) ==
  Begins(e, updates) =>
    \A k \in DOMAIN updates :
      updates[k] = "Gated" =>
        k = "Landmark" \/ (k # "Imu" /\ "Imu" \in DOMAIN updates)

Candidate(e, updates) ==
  Updated(IF Begins(e, updates) THEN Initialize(e) ELSE e, updates)

(* Before it is initialised the filter answers that it is not, which is    *)
(* no failure.                                                             *)
Judges(e, updates) == e.initialized \/ Begins(e, updates)

ResultOf(e, updates) ==
  CASE ~Judges(e, updates)   -> "Accepted"
    [] Refused(e, updates)   -> "Rejected"
    [] OTHER -> IF Some(updates, "Numerical") THEN "Numerical"
                ELSE IF Some(updates, "Invalid") THEN "Rejected"
                ELSE "Accepted"

(* All of the frame or nothing of it.                                      *)
Slip_FusedAnyway(e, updates) == Candidate(e, updates)
Fused(e, updates) ==
  IF ResultOf(e, updates) = "Accepted" THEN Candidate(e, updates) ELSE e

Heard(r, result) ==
  CASE result = "Accepted"  -> AcceptInput(r)
    [] result = "Numerical" -> ReportNumericalFault(r)
    [] result = "Rejected"  -> r

(* What is observed of a frame.                                            *)
Witnessed(s, e, updates) ==
  LET taken == IF Judges(e, updates) /\ ResultOf(e, updates) = "Accepted"
                 THEN Noted(updates) ELSE {}
  IN  [s EXCEPT !.quiet = [k \in Source |-> IF k \in taken THEN 0 ELSE @[k]]]

-----------------------------------------------------------------------------
Init ==
  /\ est = Blank
  /\ rt = Transition(Begun, "Ready")
  /\ control = NoController
  /\ command = Still("None")
  /\ seen = Unseen

(* notify_handshake                                                        *)
Handshake ==
  /\ rt' = NotifyHandshake(rt)
  /\ UNCHANGED <<est, control, command, seen>>

(* record_queue_overflow, by the session's queues.                         *)
Overflow ==
  /\ rt' = RecordQueueOverflow(rt)
  /\ UNCHANGED <<est, control, command, seen>>

SetRoute(n) ==
  /\ control' = RouteSet(control, n)
  /\ seen' = [seen EXCEPT !.entered = {}, !.arrived = FALSE,
                          !.refused = FALSE]
  /\ UNCHANGED <<est, rt, command>>

RefuseRoute ==
  /\ control' = RouteRefused(control)
  /\ seen' = [seen EXCEPT !.refused = TRUE]
  /\ UNCHANGED <<est, rt, command>>

-----------------------------------------------------------------------------
(* step and make_output: what is left of it once the frame is processed.   *)

(* The controller steps from an estimate that lies in the regions of near. *)
Drive(s) ==
  \E near \in SUBSET (1 .. control.count), slow \in BOOLEAN,
     next \in 1 .. control.count, desired \in Steering,
     aim \in {"Zero", "Moving"} :
    /\ Reaches(control, near, next)
    /\ control' = Guided(control, near, slow, next, desired)
    /\ command' = CommandOf(control, near, slow, next, desired, aim)
    /\ seen' = [s EXCEPT !.entered = @ \cup near,
                         !.arrived = @ \/ (next = control.count
                                             /\ next \in near),
                         !.refused = FALSE]

(* Neither of the fixed commands touches the controller.                   *)
Hold(kind, s) ==
  /\ command' = Still(kind)
  /\ seen' = [s EXCEPT !.refused = FALSE]
  /\ UNCHANGED control

Output(e, r, s) ==
  LET decision == Decide(r, ModeOf(e), e.healthy, control.count # 0)
  IN  \/ decision = "Control" /\ Drive(s)
      \/ decision # "Control" /\ Hold(decision, s)

(* What is decided and issued once the input is in.                        *)
Conclude(e, r, s) ==
  LET next == Ticked(r, ModeOf(e), e.healthy, control.count # 0)
  IN  /\ est' = e
      /\ rt' = next
      /\ Output(e, next, s)

StoppedIf(manual, r) == IF manual THEN RequestSafeStop(r) ELSE r

(* step without a sensor frame, and with one.                              *)
Step(manual) == Conclude(est, StoppedIf(manual, rt), seen)

StepWithFrame(updates) ==
  /\ Possible(est, updates)
  /\ Conclude(Fused(est, updates), Heard(rt, ResultOf(est, updates)),
              Witnessed(seen, est, updates))

-----------------------------------------------------------------------------
(* Time passes; the age that nothing reads does not advance.               *)
ReadAgesAged(r, d) ==
  [r EXCEPT
     !.validAge = IF r.state \in Live /\ r.hostSeen THEN Older(@, d) ELSE 0,
     !.blindAge = IF r.state \in Driving /\ r.blind THEN Older(@, d) ELSE 0]

Longer(q, d) == IF q = Never THEN Never ELSE q + d

Advance(d) ==
  /\ \A k \in Source : Longer(seen.quiet[k], d) <= MaxQuiet
  /\ est' = EstimatorAged(est, d)
  /\ rt' = ReadAgesAged(rt, d)
  /\ seen' = [seen EXCEPT !.quiet = [k \in Source |-> Longer(@[k], d)]]
  /\ UNCHANGED <<control, command>>

SomeAdvance == \E d \in 1 .. ClockSize - 1 : Advance(d)
SomeRoute == \E n \in 1 .. MaxWaypoints : SetRoute(n)
SomeStep == \E manual \in BOOLEAN : Step(manual)
SomeFrame == \E updates \in Frames : StepWithFrame(updates)

Next ==
  \/ SomeAdvance
  \/ Handshake
  \/ Overflow
  \/ SomeRoute
  \/ RefuseRoute
  \/ SomeStep
  \/ SomeFrame

Spec == Init /\ [][Next]_vars

-----------------------------------------------------------------------------
(* Types.                                                                  *)
TypeOK ==
  /\ est \in EstimatorRecord
  /\ rt \in RuntimeRecord
  /\ control \in ControllerRecord
  /\ control.active <= control.count \/ control.count = 0
  /\ command \in Command
  /\ seen \in Observed

(* The navigation mode speaks of sources that were fused, in frames taken  *)
(* as a whole, no longer ago than their timeouts: navigation_mode reads    *)
(* wrapping ages of an estimator that is copied, tried and thrown away.    *)
Recent(k) == seen.quiet[k] \in 0 .. FreshFor[k]
ModeIsFresh ==
  /\ ModeOf(est) = "GnssAided"     => Recent("Gnss")
  /\ ModeOf(est) = "LandmarkAided" => Recent("Landmark")
  /\ ModeOf(est) = "DeadReckoning" => Recent("Imu") /\ Recent("Wheel")
  /\ ModeOf(est) = "Degraded"      => Recent("Imu") \/ Recent("Wheel")

(* A waypoint becomes the active one only after the estimate was in the    *)
(* region of each before it, since the route was set (RouteManager::       *)
(* update), however often driving was interrupted.                         *)
WaypointsInOrder == \A i \in 1 .. control.active - 1 : i \in seen.entered

(* Once the vehicle has arrived it is never told to move again, wherever   *)
(* the estimate strays, until the next route: refused routes, stops and    *)
(* gaps of navigation do not take the final stop back.                     *)
FinalStopHolds == seen.arrived => command.target = "Zero"

(* docs/ARCHITECTURE.md: invalid input cannot replace active control       *)
(* state.  The steering of two commands in a row differs by the rate limit *)
(* at most, also if a route was refused between them.                      *)
RefusedRouteHarmless ==
  [][command.kind = "Drive" /\ seen.refused /\ command'.kind = "Drive"
       => command'.steering - command.steering \in -MaxChange .. MaxChange]_vars

-----------------------------------------------------------------------------
(* What the session knows of the core: its record in FirmwareSession, and  *)
(* what the operators of Core allow a call to do to it.                    *)
DecisionOf(kind) == IF kind \in {"Drive", "Complete"} THEN "Control" ELSE kind
AsCore ==
  [rt |-> rt, initialized |-> est.initialized,
   route |-> IF control.count = 0 THEN <<>> ELSE <<"set">>,
   command |-> DecisionOf(command.kind), drives |-> 0]

FrameOf(kinds) == [k \in kinds |-> 0]

(* The count of driving commands is the session's own.                     *)
Same(t, s) == /\ t.rt = s.rt /\ t.initialized = s.initialized
              /\ t.route = s.route /\ t.command = s.command

CoreAllows(s, t, mode) ==
  \/ \E d \in Age : Same(t, [s EXCEPT !.rt = ReadAgesAged(@, d)])
  \/ Same(t, [s EXCEPT !.rt = NotifyHandshake(@)])
  \/ Same(t, [s EXCEPT !.rt = RecordQueueOverflow(@)])
  \/ Same(t, [s EXCEPT !.route = <<"set">>])
  \/ \E manual \in BOOLEAN :
       Same(t, CoreStep([s EXCEPT !.rt = StoppedIf(manual, @)], mode))
  \/ \E kinds \in SUBSET Source : \E result \in ResultsOf(s, FrameOf(kinds)) :
       Same(t, CoreStep(Process(s, FrameOf(kinds), result), mode))

(* The core does nothing that the session does not expect of it: an        *)
(* estimator that is initialised is sound, the frame that initialises it   *)
(* counts as input, and the controller is asked for a command just when    *)
(* the runtime permits it, with the navigation mode of the estimator that  *)
(* was kept.                                                               *)
ImplementsCore == [][CoreAllows(AsCore, AsCore', ModeOf(est'))]_AsCore
=============================================================================

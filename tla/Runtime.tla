------------------------------ MODULE Runtime ------------------------------
(***************************************************************************)
(* The data of RuntimeCore (src/src/runtime.cpp) and what each of its      *)
(* member functions does to it, as operators on a record, so that the      *)
(* state machine of RuntimeCore and the larger handlers that call several  *)
(* of these functions in one go share one translation.                     *)
(*                                                                         *)
(* Timestamps are ages (module Clock).  Statistics that nothing reads back *)
(* are left out; queue_overflows, which is compared with a threshold, is   *)
(* kept up to that threshold.  Here and in the other modules a definition  *)
(* named Slip_X is not the code: it is a plausible slip in the definition  *)
(* that follows it, kept to show which property notices.                   *)
(***************************************************************************)
EXTENDS Clock

CONSTANTS
  HostTimeout,        \* RuntimeConfig.host_timeout_ms (500)
  UnavailableGrace,   \* RuntimeConfig.unavailable_grace_ms (250)
  OverflowThreshold   \* RuntimeConfig.queue_overflow_safe_stop_threshold (1)

(* RuntimeCore::validate_config refuses a zero in any of the three.        *)
ASSUME RuntimeConfigAssumption ==
  /\ HostTimeout \in Nat \ {0}
  /\ UnavailableGrace \in Nat \ {0}
  /\ OverflowThreshold \in Nat \ {0}

SafetyState == {"Startup", "SelfTest", "Ready", "Running", "Degraded",
                "SafeStop", "Fault"}
NavigationMode == {"GnssAided", "LandmarkAided", "DeadReckoning", "Degraded",
                   "Unavailable"}
Aided == {"GnssAided", "LandmarkAided"}
Unaided == {"DeadReckoning", "Degraded"}

Live    == {"Ready", "Running", "Degraded"}  \* input and watchdog matter here
Driving == {"Running", "Degraded"}           \* control may be permitted here
Latched == {"SafeStop", "Fault"}             \* only the next boot leaves these

(* What one tick allows: nothing yet, no actuation, control, or a stop.    *)
Decision == {"None", "Neutral", "Control", "SafeStop"}

RuntimeRecord ==
  [state     : SafetyState,
   hostSeen  : BOOLEAN,
   validAge  : Age,                      \* elapsed since last_valid_input_ms_
   blind     : BOOLEAN,                  \* unavailable_timer_active_
   blindAge  : Age,                      \* elapsed since unavailable_since_ms_
   overflows : 0 .. OverflowThreshold]   \* queue_overflows, saturated

Begun == [state |-> "Startup", hostSeen |-> FALSE, validAge |-> 0,
          blind |-> FALSE, blindAge |-> 0, overflows |-> 0]

-----------------------------------------------------------------------------
Transition(r, next) == [r EXCEPT !.state = next]

Aged(r, d) == [r EXCEPT !.validAge = Older(@, d), !.blindAge = Older(@, d)]

-----------------------------------------------------------------------------
(* Member functions, in the order of the source.                           *)

NotifyHandshake(r) ==
  IF r.state \in Live
    THEN [r EXCEPT !.hostSeen = TRUE, !.validAge = 0]
    ELSE r

(* accept_input differs from a handshake only in a statistic.              *)
AcceptInput(r) == NotifyHandshake(r)

Slip_StopAnyway(r) == Transition(r, "SafeStop")
StopUnlessFaulted(r) ==
  IF r.state = "Fault" THEN r ELSE Transition(r, "SafeStop")

Slip_OverflowBeyond(r) ==
  LET counted == [r EXCEPT !.overflows =
                    IF @ < OverflowThreshold THEN @ + 1 ELSE @]
  IN  IF counted.overflows > OverflowThreshold
        THEN StopUnlessFaulted(counted)
        ELSE counted
RecordQueueOverflow(r) ==
  LET counted == [r EXCEPT !.overflows =
                    IF @ < OverflowThreshold THEN @ + 1 ELSE @]
  IN  IF counted.overflows >= OverflowThreshold
        THEN StopUnlessFaulted(counted)
        ELSE counted

RequestSafeStop(r) == StopUnlessFaulted(r)

ReportNumericalFault(r) == Transition(r, "Fault")

-----------------------------------------------------------------------------
(* tick: watchdog, estimator health, navigation availability, decision.    *)

Slip_WatchdogDriving(r) ==
  /\ r.state \in Driving
  /\ r.hostSeen
  /\ r.validAge > HostTimeout
WatchdogExpired(r) ==
  /\ r.state \in Live
  /\ r.hostSeen
  /\ r.validAge > HostTimeout

Watchdog(r) ==
  IF WatchdogExpired(r) THEN Transition(r, "SafeStop") ELSE r

HealthCheck(r, healthy) ==
  IF r.state \in Driving /\ ~healthy THEN ReportNumericalFault(r) ELSE r

Start(r, mode, healthy, ready) ==
  IF r.hostSeen /\ healthy /\ ready /\ mode # "Unavailable"
    THEN Transition(r, IF mode \in Aided THEN "Running" ELSE "Degraded")
    ELSE r

FromRunning(r, mode) ==
  CASE mode \in Aided   -> [r EXCEPT !.blind = FALSE]
    [] mode \in Unaided -> [r EXCEPT !.blind = FALSE, !.state = "Degraded"]
    [] OTHER            -> [r EXCEPT !.blind = TRUE, !.blindAge = 0,
                                      !.state = "Degraded"]

Slip_StillBlindRestarted(r) ==
  IF r.blind /\ r.blindAge >= UnavailableGrace
    THEN Transition(r, "SafeStop")
    ELSE [r EXCEPT !.blind = TRUE, !.blindAge = 0]
StillBlind(r) ==
  CASE ~r.blind -> [r EXCEPT !.blind = TRUE, !.blindAge = 0]
    [] r.blind /\ r.blindAge < UnavailableGrace -> r
    [] r.blind /\ r.blindAge >= UnavailableGrace -> Transition(r, "SafeStop")

FromDegraded(r, mode) ==
  CASE mode \in Aided        -> [r EXCEPT !.blind = FALSE, !.state = "Running"]
    [] mode \in Unaided      -> [r EXCEPT !.blind = FALSE]
    [] mode = "Unavailable"  -> StillBlind(r)

Navigate(r, mode, healthy, ready) ==
  CASE r.state = "Ready"    -> Start(r, mode, healthy, ready)
    [] r.state = "Running"  -> FromRunning(r, mode)
    [] r.state = "Degraded" -> FromDegraded(r, mode)
    [] OTHER                 -> r

Ticked(r, mode, healthy, ready) ==
  Navigate(HealthCheck(Watchdog(r), healthy), mode, healthy, ready)

Decide(r, mode, healthy, ready) ==
  CASE r.state \in Latched -> "SafeStop"
    [] /\ r.state \in Driving
       /\ healthy
       /\ mode # "Unavailable"
       /\ ready             -> "Control"
    [] OTHER                -> "Neutral"
=============================================================================

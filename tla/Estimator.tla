----------------------------- MODULE Estimator -----------------------------
(***************************************************************************)
(* What the controller relies on in its estimator (src/src/ekf.cpp): which *)
(* sources it has seen and how long ago, whether it is still sound, and    *)
(* the navigation mode that follows.  The arithmetic of the filter only    *)
(* shows in what it says of an observation, which is a choice.             *)
(***************************************************************************)
EXTENDS Clock

Source == {"Imu", "Wheel", "Gnss", "Landmark"}

CONSTANT FreshFor   \* EkfConfig.imu_timeout_ms, ..., per source

(* validate_config                                                         *)
ASSUME EstimatorConfigAssumption == FreshFor \in [Source -> Nat \ {0}]

EstimatorRecord ==
  [initialized : BOOLEAN,
   healthy     : BOOLEAN,
   seen        : SUBSET Source,      \* seen_imu_, seen_wheel_, ...
   age         : [Source -> Age]]    \* elapsed since last_imu_ms_, ...

(* reset                                                                   *)
Blank == [initialized |-> FALSE, healthy |-> FALSE, seen |-> {},
          age |-> [k \in Source |-> 0]]

(* The age of a source that was never seen is not read.                    *)
EstimatorAged(e, d) ==
  [e EXCEPT !.age = [k \in Source |->
                       IF k \in e.seen THEN Older(e.age[k], d) ELSE 0]]

-----------------------------------------------------------------------------
(* What the filter says of the observations of a frame: taken in, outside  *)
(* the gate, out of range or not finite, or the filter broke over it.      *)
UpdateResult == {"Accepted", "Gated", "Invalid", "Numerical"}
Updates == UNION {[kinds -> UpdateResult] : kinds \in SUBSET Source}

Some(updates, what) == \E k \in DOMAIN updates : updates[k] = what

(* A gyro outside the gate has already driven the prediction.              *)
Noted(updates) ==
  {k \in DOMAIN updates :
     updates[k] = "Accepted" \/ (k = "Imu" /\ updates[k] = "Gated")}

(* initialize, at the position of the first frame that has one.            *)
Initialize(e) == [Blank EXCEPT !.initialized = TRUE, !.healthy = TRUE]

(* predict, update_wheel, update_gnss and update_landmark of one frame.    *)
Updated(e, updates) ==
  IF e.initialized
    THEN [e EXCEPT !.healthy = @ /\ ~Some(updates, "Numerical"),
                   !.seen = @ \cup Noted(updates),
                   !.age = [k \in Source |->
                              IF k \in Noted(updates) THEN 0 ELSE @[k]]]
    ELSE e

-----------------------------------------------------------------------------
(* navigation_mode                                                         *)
Slip_FreshOnceSeen(e, k) == k \in e.seen
Fresh(e, k) == k \in e.seen /\ e.age[k] <= FreshFor[k]

ModeOf(e) ==
  CASE ~(e.initialized /\ e.healthy)               -> "Unavailable"
    [] OTHER ->
       CASE Fresh(e, "Gnss")                       -> "GnssAided"
         [] ~Fresh(e, "Gnss") /\ Fresh(e, "Landmark") -> "LandmarkAided"
         [] ~Fresh(e, "Gnss") /\ ~Fresh(e, "Landmark") ->
            CASE Fresh(e, "Imu") /\ Fresh(e, "Wheel")   -> "DeadReckoning"
              [] Fresh(e, "Imu") # Fresh(e, "Wheel")    -> "Degraded"
              [] ~Fresh(e, "Imu") /\ ~Fresh(e, "Wheel") -> "Unavailable"
=============================================================================

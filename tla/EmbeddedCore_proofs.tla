------------------------ MODULE EmbeddedCore_proofs ------------------------
(***************************************************************************)
(* Proofs about EmbeddedCore, for every size of the routes, the steering,  *)
(* the timeouts and whatever frames there are.                             *)
(*                                                                         *)
(* The estimator is sound whenever it is initialised, because a frame that *)
(* breaks it is not kept, and the ages it holds are the true silences of   *)
(* its sources.  The controller's part is separate: the active waypoint    *)
(* only passes waypoints that were entered, and the final stop, once       *)
(* latched, keeps the last waypoint active and every target at zero.       *)
(***************************************************************************)
EXTENDS EmbeddedCore, Timing_proofs

Sound(e) ==
  /\ e \in EstimatorRecord
  /\ e.healthy = e.initialized
  /\ ~e.initialized => e.seen = {}

Tells(e, s) ==
  \A k \in e.seen : s.quiet[k] \in 0 .. MaxQuiet /\ e.age[k] = s.quiet[k]

StopKept ==
  seen.arrived => /\ control.count # 0
                  /\ control.latched
                  /\ control.active = control.count
                  /\ command.target = "Zero"

IInv ==
  /\ TypeOK
  /\ Sound(est)
  /\ Tells(est, seen)
  /\ WaypointsInOrder
  /\ StopKept

-----------------------------------------------------------------------------
(* The estimator.                                                          *)

LEMMA BlankSound == Sound(Blank)
BY ZeroIsAge DEF Blank, Sound, EstimatorRecord

LEMMA UpdatesDomain ==
  ASSUME NEW updates \in Updates
  PROVE  DOMAIN updates \subseteq Source /\ Noted(updates) \subseteq Source
BY DEF Updates, Noted

(* What is kept of a frame that was taken.                                 *)
LEMMA CandidateKeeps ==
  ASSUME NEW e, Sound(e), NEW updates \in Updates,
         Judges(e, updates), ~Some(updates, "Numerical"),
         NEW c, c = Candidate(e, updates)
  PROVE  /\ Sound(c)
         /\ c.initialized
         /\ c.seen \subseteq e.seen \cup Noted(updates)
         /\ \A k \in Source :
              c.age[k] = IF k \in Noted(updates) THEN 0 ELSE
                           IF e.initialized THEN e.age[k] ELSE 0
<1> DEFINE b == IF Begins(e, updates) THEN Initialize(e) ELSE e
<1>1. /\ b \in EstimatorRecord /\ b.initialized /\ b.healthy
      /\ b.seen \subseteq e.seen
      /\ \A k \in Source : b.age[k] = IF e.initialized THEN e.age[k] ELSE 0
  BY ZeroIsAge
  DEF Sound, Judges, Begins, Initialize, Blank, EstimatorRecord
<1>2. c = Updated(b, updates)
  BY DEF Candidate
<1> HIDE DEF b
<1>3. c = [b EXCEPT !.healthy = @ /\ ~Some(updates, "Numerical"),
                    !.seen = @ \cup Noted(updates),
                    !.age = [k \in Source |->
                               IF k \in Noted(updates) THEN 0 ELSE @[k]]]
  BY <1>1, <1>2 DEF Updated
<1>4. /\ c.initialized = b.initialized
      /\ c.healthy = (b.healthy /\ ~Some(updates, "Numerical"))
      /\ c.seen = b.seen \cup Noted(updates)
      /\ c.age = [k \in Source |-> IF k \in Noted(updates) THEN 0 ELSE b.age[k]]
      /\ c = [initialized |-> c.initialized, healthy |-> c.healthy,
              seen |-> c.seen, age |-> c.age]
  BY <1>1, <1>3 DEF EstimatorRecord
<1>5. /\ c.initialized = TRUE /\ c.healthy = TRUE
      /\ c.seen \in SUBSET Source
      /\ c.age \in [Source -> Age]
  BY <1>1, <1>4, UpdatesDomain, ZeroIsAge DEF EstimatorRecord
<1>6. c \in EstimatorRecord
  BY <1>4, <1>5 DEF EstimatorRecord
<1> QED
  BY <1>1, <1>4, <1>5, <1>6 DEF Sound

LEMMA FusedCases ==
  ASSUME NEW e, Sound(e), NEW updates \in Updates
  PROVE  \/ /\ ~Judges(e, updates)
            /\ ResultOf(e, updates) = "Accepted"
            /\ Fused(e, updates) = e
         \/ /\ Judges(e, updates)
            /\ ResultOf(e, updates) = "Accepted"
            /\ ~Some(updates, "Numerical")
            /\ Fused(e, updates) = Candidate(e, updates)
         \/ /\ Judges(e, updates)
            /\ ResultOf(e, updates) \in {"Rejected", "Numerical"}
            /\ Fused(e, updates) = e
<1>1. CASE ~Judges(e, updates)
  <2>1. ResultOf(e, updates) = "Accepted"
    BY <1>1 DEF ResultOf, Refused, Judges
  <2>2. Candidate(e, updates) = e
    BY <1>1 DEF Candidate, Updated, Judges
  <2> QED
    BY <1>1, <2>1, <2>2 DEF Fused
<1>2. CASE Judges(e, updates)
  BY <1>2 DEF ResultOf, Fused
<1> QED
  BY <1>1, <1>2

LEMMA WitnessedKeeps ==
  ASSUME NEW e, NEW updates \in Updates, NEW s \in Observed,
         NEW w, w = Witnessed(s, e, updates)
  PROVE  /\ w \in Observed
         /\ w.entered = s.entered /\ w.arrived = s.arrived
<1> DEFINE taken == IF Judges(e, updates) /\ ResultOf(e, updates) = "Accepted"
                      THEN Noted(updates) ELSE {}
           quiet == [k \in Source |-> IF k \in taken THEN 0 ELSE s.quiet[k]]
<1>1. w = [s EXCEPT !.quiet = quiet]
  BY DEF Witnessed, Observed
<1>2. quiet \in [Source -> Quiet]
  BY CoreAssumption DEF Observed, Quiet
<1> HIDE DEF quiet
<1> QED
  BY <1>1, <1>2 DEF Observed

LEMMA FusedKeeps ==
  ASSUME NEW e, Sound(e), NEW updates \in Updates,
         NEW s \in Observed, Tells(e, s)
  PROVE  /\ Sound(Fused(e, updates))
         /\ Tells(Fused(e, updates), Witnessed(s, e, updates))
<1>1. CASE /\ Judges(e, updates)
           /\ ResultOf(e, updates) = "Accepted"
           /\ ~Some(updates, "Numerical")
           /\ Fused(e, updates) = Candidate(e, updates)
  <2> DEFINE c == Candidate(e, updates)
             w == Witnessed(s, e, updates)
  <2>1. /\ Sound(c)
        /\ c.seen \subseteq e.seen \cup Noted(updates)
        /\ \A k \in Source :
             c.age[k] = IF k \in Noted(updates) THEN 0 ELSE
                          IF e.initialized THEN e.age[k] ELSE 0
    BY <1>1, CandidateKeeps
  <2>2. \A k \in Source :
          w.quiet[k] = IF k \in Noted(updates) THEN 0 ELSE s.quiet[k]
    BY <1>1 DEF Witnessed, Observed
  <2>3. ASSUME NEW k \in c.seen
        PROVE  w.quiet[k] \in 0 .. MaxQuiet /\ c.age[k] = w.quiet[k]
    <3>1. k \in Source
      BY <2>1 DEF Sound, EstimatorRecord
    <3>2. CASE k \in Noted(updates)
      BY <2>1, <2>2, <3>1, <3>2, CoreAssumption
    <3>3. CASE k \notin Noted(updates)
      <4>1. k \in e.seen /\ e.initialized
        BY <2>1, <2>3, <3>3 DEF Sound
      <4> QED
        BY <2>1, <2>2, <3>1, <3>3, <4>1 DEF Tells
    <3> QED
      BY <3>2, <3>3
  <2> QED
    BY <1>1, <2>1, <2>3 DEF Tells
<1>2. CASE /\ Fused(e, updates) = e
           /\ ~(Judges(e, updates) /\ ResultOf(e, updates) = "Accepted")
  <2>1. Witnessed(s, e, updates).quiet = s.quiet
    BY <1>2 DEF Witnessed, Observed
  <2> QED
    BY <1>2, <2>1 DEF Tells
<1> QED
  BY <1>1, <1>2, FusedCases

(* The mode of a sound estimator, and what each says of the sources.       *)
LEMMA ModeKnown ==
  ASSUME NEW e, Sound(e)
  PROVE  /\ ModeOf(e) \in NavigationMode
         /\ ~e.initialized => ModeOf(e) = "Unavailable"
BY DEF ModeOf, NavigationMode, Sound

LEMMA ModeSays ==
  ASSUME NEW e, Sound(e)
  PROVE  /\ ModeOf(e) = "GnssAided"     => Fresh(e, "Gnss")
         /\ ModeOf(e) = "LandmarkAided" => Fresh(e, "Landmark")
         /\ ModeOf(e) = "DeadReckoning" => Fresh(e, "Imu") /\ Fresh(e, "Wheel")
         /\ ModeOf(e) = "Degraded"      => Fresh(e, "Imu") \/ Fresh(e, "Wheel")
BY DEF ModeOf

-----------------------------------------------------------------------------
(* The controller.                                                         *)

LEMMA SteeredType ==
  ASSUME NEW c \in ControllerRecord, NEW desired \in Steering
  PROVE  Steered(c, desired) \in Steering
<1>1. c.steering \in Int /\ desired \in Int /\ MaxSteering \in Nat
  BY GuidanceAssumption DEF ControllerRecord, Steering
<1>2. Clamp(desired, c.steering - MaxChange, c.steering + MaxChange) \in Int
  BY <1>1, GuidanceAssumption DEF Clamp
<1> QED
  BY <1>1, <1>2 DEF Steered, Clamp, Steering

(* What a step of the controller makes of its progress, and of the stop.   *)
LEMMA GuidedKeeps ==
  ASSUME NEW c \in ControllerRecord, c.count # 0, c.active <= c.count,
         NEW near \in SUBSET (1 .. c.count), NEW slow \in BOOLEAN,
         NEW next \in 1 .. c.count, NEW desired \in Steering,
         NEW aim \in {"Zero", "Moving"}, Reaches(c, near, next),
         NEW g, g = Guided(c, near, slow, next, desired),
         NEW o, o = CommandOf(c, near, slow, next, desired, aim)
  PROVE  /\ g \in ControllerRecord
         /\ g.count = c.count /\ g.active = next
         /\ g.latched = (c.latched \/ (next = c.count /\ next \in near))
         /\ o \in Command
         /\ o.kind \in {"Drive", "Complete"}
         /\ next = c.count /\ g.latched => o.target = "Zero"
<1> DEFINE p == Progressed(c, near, next)
           t == Steered(p, desired)
<1>1. /\ p \in ControllerRecord
      /\ p.count = c.count /\ p.active = next
      /\ p.latched = (c.latched \/ (next = c.count /\ next \in near))
  <2>1. p = [c EXCEPT !.active = next,
                      !.latched = c.latched \/ (next = c.count
                                                   /\ next \in near)]
    BY DEF Progressed, ControllerRecord
  <2>2. next \in 1 .. MaxWaypoints
    BY GuidanceAssumption DEF ControllerRecord
  <2>3. (c.latched \/ (next = c.count /\ next \in near)) \in BOOLEAN
    BY DEF ControllerRecord
  <2> HIDE DEF p
  <2> QED
    BY <2>1, <2>2, <2>3 DEF ControllerRecord
<1>2. 0 \in Steering
  BY GuidanceAssumption DEF Steering
<1>3. t \in Steering
  BY <1>1, SteeredType
<1>4. g = [p EXCEPT !.steering = IF IsComplete(p, near, slow) THEN 0 ELSE t]
  BY DEF Guided
<1>5. o = IF IsComplete(p, near, slow)
            THEN Still("Complete")
            ELSE [kind |-> "Drive", steering |-> t,
                  target |-> IF Halted(p, near, slow) THEN "Zero" ELSE aim]
  BY DEF CommandOf
<1>6. /\ g \in ControllerRecord
      /\ g.count = p.count /\ g.active = p.active /\ g.latched = p.latched
  <2> HIDE DEF p, t
  <2> QED
    BY <1>1, <1>2, <1>3, <1>4 DEF ControllerRecord
<1>7. /\ o \in Command
      /\ o.kind \in {"Drive", "Complete"}
      /\ Halted(p, near, slow) => o.target = "Zero"
  <2> HIDE DEF p, t
  <2> QED
    BY <1>2, <1>3, <1>5 DEF Command, Still
<1>8. next = c.count /\ g.latched => Halted(p, near, slow)
  BY <1>1, <1>6 DEF Halted
<1> QED
  BY <1>1, <1>6, <1>7, <1>8

(* Any command that goes out keeps the order of the waypoints and the      *)
(* final stop, and no command touches the silences.                        *)
LEMMA OutputKeeps ==
  ASSUME TypeOK, WaypointsInOrder, StopKept,
         NEW e, NEW r, NEW s \in Observed,
         s.entered = seen.entered, s.arrived = seen.arrived,
         Decide(r, ModeOf(e), e.healthy, control.count # 0)
           \in Decision,
         Output(e, r, s)
  PROVE  /\ control' \in ControllerRecord
         /\ control'.count = control.count
         /\ control'.active <= control'.count \/ control'.count = 0
         /\ command' \in Command
         /\ DecisionOf(command'.kind)
              = Decide(r, ModeOf(e), e.healthy, control.count # 0)
         /\ seen' \in Observed
         /\ seen'.quiet = s.quiet
         /\ WaypointsInOrder'
         /\ StopKept'
<1> DEFINE decision == Decide(r, ModeOf(e), e.healthy, control.count # 0)
<1>1. CASE decision = "Control" /\ Drive(s)
  <2>1. PICK near \in SUBSET (1 .. control.count), slow \in BOOLEAN,
             next \in 1 .. control.count, desired \in Steering,
             aim \in {"Zero", "Moving"} :
          /\ Reaches(control, near, next)
          /\ control' = Guided(control, near, slow, next, desired)
          /\ command' = CommandOf(control, near, slow, next, desired, aim)
          /\ seen' = [s EXCEPT !.entered = @ \cup near,
                               !.arrived = @ \/ (next = control.count
                                                   /\ next \in near),
                               !.refused = FALSE]
    BY <1>1 DEF Drive
  <2>2. control.count # 0 /\ control.active <= control.count
    BY GuidanceAssumption DEF TypeOK, ControllerRecord
  <2>3. /\ control' \in ControllerRecord
        /\ control'.count = control.count /\ control'.active = next
        /\ control'.latched = (control.latched \/ (next = control.count
                                                     /\ next \in near))
        /\ command' \in Command
        /\ command'.kind \in {"Drive", "Complete"}
        /\ next = control.count /\ control'.latched => command'.target = "Zero"
    BY <2>1, <2>2, GuidedKeeps DEF TypeOK
  <2>4. /\ seen' \in Observed
        /\ seen'.quiet = s.quiet
        /\ seen'.entered = seen.entered \cup near
        /\ seen'.arrived = (seen.arrived \/ (next = control.count
                                               /\ next \in near))
    <3>1. near \subseteq 1 .. MaxWaypoints
      BY GuidanceAssumption DEF TypeOK, ControllerRecord
    <3>2. (s.arrived \/ (next = control.count /\ next \in near)) \in BOOLEAN
      BY DEF Observed
    <3> QED
      BY <2>1, <3>1, <3>2 DEF Observed
  <2>5. WaypointsInOrder'
    <3>1. next \in control.active .. control.count
          /\ \A i \in control.active .. (next - 1) : i \in near
      BY <2>1 DEF Reaches
    <3>2. control.active \in Nat /\ next \in Nat
      BY DEF TypeOK, ControllerRecord
    <3> QED
      BY <2>3, <2>4, <3>1, <3>2 DEF WaypointsInOrder
  <2>6. StopKept'
    <3>1. seen.arrived => next = control.count
      BY <2>1 DEF StopKept, Reaches, TypeOK, ControllerRecord
    <3> QED
      BY <2>2, <2>3, <2>4, <3>1 DEF StopKept
  <2> QED
    BY <1>1, <2>2, <2>3, <2>4, <2>5, <2>6 DEF DecisionOf
<1>2. CASE decision # "Control" /\ Hold(decision, s)
  <2>1. /\ command' = Still(decision) /\ control' = control
        /\ seen' = [s EXCEPT !.refused = FALSE]
    BY <1>2 DEF Hold
  <2>2. decision \in {"None", "Neutral", "SafeStop"}
    BY <1>2 DEF Decision
  <2>3. 0 \in Steering
    BY GuidanceAssumption DEF Steering
  <2>4. /\ command' \in Command /\ command'.kind = decision
        /\ command'.target = "Zero"
    BY <2>1, <2>2, <2>3 DEF Still, Command
  <2>5. /\ seen' \in Observed
        /\ seen'.quiet = s.quiet /\ seen'.entered = seen.entered
        /\ seen'.arrived = seen.arrived
    BY <2>1 DEF Observed
  <2> QED
    BY <2>1, <2>2, <2>4, <2>5
    DEF WaypointsInOrder, StopKept, DecisionOf, TypeOK
<1> QED
  BY <1>1, <1>2 DEF Output

(* A step, whatever the input was.                                         *)
LEMMA ConcludeKeeps ==
  ASSUME TypeOK, WaypointsInOrder, StopKept,
         NEW e, Sound(e), NEW r \in RuntimeRecord,
         NEW s \in Observed, Tells(e, s),
         s.entered = seen.entered, s.arrived = seen.arrived,
         Conclude(e, r, s)
  PROVE  IInv'
<1> DEFINE ready == control.count # 0
           next == Ticked(r, ModeOf(e), e.healthy, ready)
<1>1. est' = e /\ rt' = next /\ Output(e, next, s)
  BY DEF Conclude
<1>2. ready \in BOOLEAN /\ e.healthy \in BOOLEAN /\ ModeOf(e) \in NavigationMode
  BY ModeKnown DEF Sound, EstimatorRecord
<1>3. next \in RuntimeRecord
  BY <1>2, TickedType
<1>4. Decide(next, ModeOf(e), e.healthy, ready) \in Decision
  BY <1>2, <1>3, DecideMatches
<1> HIDE DEF next
<1>5. /\ control' \in ControllerRecord
      /\ control'.active <= control'.count \/ control'.count = 0
      /\ command' \in Command
      /\ seen' \in Observed
      /\ seen'.quiet = s.quiet
      /\ WaypointsInOrder'
      /\ StopKept'
  BY <1>1, <1>4, OutputKeeps
<1>6. TypeOK'
  BY <1>1, <1>3, <1>5 DEF TypeOK, Sound
<1>7. Sound(est') /\ Tells(est', seen')
  BY <1>1, <1>5 DEF Tells
<1> QED
  BY <1>5, <1>6, <1>7 DEF IInv, Sound, Tells

-----------------------------------------------------------------------------
(* The invariant.                                                          *)

LEMMA InitInvariant == Init => IInv
<1> SUFFICES ASSUME Init PROVE IInv
  OBVIOUS
<1>1. est \in EstimatorRecord /\ Sound(est)
  <2>1. Sound(est)
    BY BlankSound DEF Init
  <2> QED
    BY <2>1 DEF Sound
<1>2. rt \in RuntimeRecord
  <2>1. Begun \in RuntimeRecord
    BY ZeroIsAge, RuntimeConfigAssumption
    DEF Begun, RuntimeRecord, SafetyState
  <2> QED
    BY <2>1, TransitionType DEF Init, SafetyState
<1>3. /\ control \in ControllerRecord /\ control.count = 0
      /\ control.active = 1
  BY GuidanceAssumption DEF Init, NoController, ControllerRecord, Steering
<1>4. command \in Command
  BY GuidanceAssumption DEF Init, Still, Command, Steering
<1>5. /\ seen \in Observed
      /\ seen.arrived = FALSE
  BY DEF Init, Unseen, Observed, Quiet
<1>6. est.seen = {}
  BY DEF Init, Blank
<1>7. WaypointsInOrder
  BY <1>3 DEF WaypointsInOrder
<1> QED
  BY <1>1, <1>2, <1>3, <1>4, <1>5, <1>6, <1>7
  DEF IInv, TypeOK, Tells, StopKept

(* The silences grow by the time that passes; so do the ages, which do not *)
(* wrap before the longest silence is over.                                *)
LEMMA AdvanceKeeps ==
  ASSUME IInv, NEW d \in 1 .. ClockSize - 1, Advance(d)
  PROVE  IInv'
<1> DEFINE quiet == [k \in Source |-> Longer(seen.quiet[k], d)]
           age == [k \in Source |->
                     IF k \in est.seen THEN Older(est.age[k], d) ELSE 0]
<1>1. /\ est \in EstimatorRecord /\ rt \in RuntimeRecord
      /\ seen \in Observed /\ Sound(est) /\ Tells(est, seen)
      /\ d \in Nat /\ MaxQuiet \in Nat /\ ClockSize \in Nat
  BY ClockAssumption, CoreAssumption DEF IInv, TypeOK
<1>2. /\ \A k \in Source : quiet[k] <= MaxQuiet
      /\ est' = [est EXCEPT !.age = age]
      /\ rt' = ReadAgesAged(rt, d)
      /\ seen' = [seen EXCEPT !.quiet = quiet]
      /\ control' = control /\ command' = command
  BY <1>1 DEF Advance, EstimatorAged, Observed, EstimatorRecord
<1>3. age \in [Source -> Age]
  BY <1>1, OlderIsAge, ZeroIsAge DEF EstimatorRecord
<1>4. quiet \in [Source -> Quiet]
  <2>1. ASSUME NEW q \in Quiet
        PROVE  /\ Longer(q, d) \in Int
               /\ Longer(q, d) >= 0 \/ Longer(q, d) = Never
    BY <1>1 DEF Longer, Quiet, Never
  <2>2. \A k \in Source : seen.quiet[k] \in Quiet
    BY <1>1 DEF Observed
  <2>3. ASSUME NEW k \in Source
        PROVE  quiet[k] \in Quiet
    <3>1. quiet[k] = Longer(seen.quiet[k], d) /\ quiet[k] <= MaxQuiet
      BY <1>2
    <3>2. seen.quiet[k] \in Quiet
      BY <2>2
    <3>3. \/ Longer(seen.quiet[k], d) = Never
          \/ Longer(seen.quiet[k], d) \in Int /\ Longer(seen.quiet[k], d) >= 0
      BY <2>1, <3>2
    <3> HIDE DEF quiet
    <3> QED
      BY <1>1, <3>1, <3>3 DEF Quiet
  <2> QED
    BY <2>3
<1>5. ASSUME NEW k \in est.seen
      PROVE  quiet[k] \in 0 .. MaxQuiet /\ age[k] = quiet[k]
  <2>1. k \in Source /\ est.age[k] \in Age
    BY <1>1 DEF EstimatorRecord
  <2>2. est.age[k] = seen.quiet[k] /\ seen.quiet[k] \in 0 .. MaxQuiet
    BY <1>1 DEF Tells
  <2>3. quiet[k] = seen.quiet[k] + d /\ quiet[k] <= MaxQuiet
    BY <1>2, <2>1, <2>2 DEF Longer, Never
  <2>4. age[k] = est.age[k] + d
    BY <1>1, <2>1, <2>2, <2>3, OlderIsExact, QuietAssumption
  <2> QED
    BY <1>1, <2>2, <2>3, <2>4
<1> HIDE DEF quiet, age
<1>6. /\ Sound(est') /\ est'.seen = est.seen /\ est'.age = age
      /\ est' \in EstimatorRecord
  BY <1>1, <1>2, <1>3 DEF Sound, EstimatorRecord
<1>7. /\ seen' \in Observed /\ seen'.quiet = quiet
      /\ seen'.entered = seen.entered /\ seen'.arrived = seen.arrived
  BY <1>1, <1>2, <1>4 DEF Observed
<1>8. rt' \in RuntimeRecord
  BY <1>1, <1>2, OlderIsAge, ZeroIsAge DEF ReadAgesAged, RuntimeRecord
<1>9. Tells(est', seen')
  BY <1>5, <1>6, <1>7 DEF Tells
<1> QED
  BY <1>2, <1>6, <1>7, <1>8, <1>9
  DEF IInv, TypeOK, WaypointsInOrder, StopKept

LEMMA StepKeeps ==
  ASSUME IInv, NEW manual \in BOOLEAN, Step(manual)
  PROVE  IInv'
<1>1. StoppedIf(manual, rt) \in RuntimeRecord
  BY TransitionType
  DEF IInv, TypeOK, StoppedIf, RequestSafeStop, StopUnlessFaulted, SafetyState
<1> QED
  BY <1>1, ConcludeKeeps DEF IInv, TypeOK, Step

LEMMA HeardType ==
  ASSUME NEW r \in RuntimeRecord,
         NEW result \in {"Accepted", "Rejected", "Numerical"}
  PROVE  Heard(r, result) \in RuntimeRecord
BY HandshakeType, TransitionType
DEF Heard, AcceptInput, ReportNumericalFault, SafetyState

LEMMA FrameKeeps ==
  ASSUME IInv, NEW updates \in Updates, StepWithFrame(updates)
  PROVE  IInv'
<1> DEFINE e == Fused(est, updates)
           r == Heard(rt, ResultOf(est, updates))
           s == Witnessed(seen, est, updates)
<1>1. /\ TypeOK /\ WaypointsInOrder /\ StopKept
      /\ Sound(est) /\ Tells(est, seen)
      /\ rt \in RuntimeRecord /\ seen \in Observed
  BY DEF IInv, TypeOK
<1>2. Sound(e) /\ Tells(e, s)
  BY <1>1, FusedKeeps
<1>3. s \in Observed /\ s.entered = seen.entered /\ s.arrived = seen.arrived
  BY <1>1, WitnessedKeeps
<1>4. ResultOf(est, updates) \in {"Accepted", "Rejected", "Numerical"}
  BY <1>1, FusedCases
<1>5. r \in RuntimeRecord
  BY <1>1, <1>4, HeardType
<1>6. Conclude(e, r, s)
  BY DEF StepWithFrame
<1> HIDE DEF e, r, s
<1> QED
  BY <1>1, <1>2, <1>3, <1>5, <1>6, ConcludeKeeps

LEMMA NextInvariant == IInv /\ [Next]_vars => IInv'
<1> SUFFICES ASSUME IInv, [Next]_vars PROVE IInv'
  OBVIOUS
<1>1. CASE SomeAdvance
  BY <1>1, AdvanceKeeps DEF SomeAdvance
<1>2. CASE Handshake
  BY <1>2, HandshakeType
  DEF IInv, TypeOK, Handshake, Tells, WaypointsInOrder, StopKept
<1>3. CASE Overflow
  BY <1>3, OverflowType
  DEF IInv, TypeOK, Overflow, Tells, WaypointsInOrder, StopKept
<1>4. CASE SomeRoute
  <2>1. PICK n \in 1 .. MaxWaypoints : SetRoute(n)
    BY <1>4 DEF SomeRoute
  <2>2. /\ control' \in ControllerRecord /\ control'.active = 1
        /\ control'.count = n
    BY <2>1, GuidanceAssumption
    DEF SetRoute, RouteSet, ControllerRecord, Steering
  <2>3. /\ seen' \in Observed /\ seen'.quiet = seen.quiet
        /\ seen'.arrived = FALSE
    BY <2>1 DEF SetRoute, IInv, TypeOK, Observed
  <2>4. WaypointsInOrder'
    BY <2>2 DEF WaypointsInOrder
  <2>5. UNCHANGED <<est, rt, command>>
    BY <2>1 DEF SetRoute
  <2> QED
    BY <2>2, <2>3, <2>4, <2>5 DEF IInv, TypeOK, Tells, StopKept
<1>5. CASE RefuseRoute
  <2>1. /\ control' \in ControllerRecord
        /\ control'.active = control.active /\ control'.count = control.count
        /\ control'.latched = control.latched
    BY <1>5, GuidanceAssumption
    DEF RefuseRoute, RouteRefused, IInv, TypeOK, ControllerRecord, Steering
  <2>2. /\ seen' \in Observed /\ seen'.quiet = seen.quiet
        /\ seen'.entered = seen.entered /\ seen'.arrived = seen.arrived
    BY <1>5 DEF RefuseRoute, IInv, TypeOK, Observed
  <2>3. UNCHANGED <<est, rt, command>>
    BY <1>5 DEF RefuseRoute
  <2> QED
    BY <2>1, <2>2, <2>3 DEF IInv, TypeOK, Tells, WaypointsInOrder, StopKept
<1>6. CASE SomeStep
  BY <1>6, StepKeeps DEF SomeStep
<1>7. CASE SomeFrame
  BY <1>7, FrameKeeps, CoreAssumption DEF SomeFrame
<1>8. CASE UNCHANGED vars
  BY <1>8 DEF vars, IInv, TypeOK, Tells, WaypointsInOrder, StopKept
<1> QED
  BY <1>1, <1>2, <1>3, <1>4, <1>5, <1>6, <1>7, <1>8 DEF Next

(* What is observed agrees with what the estimator and the controller keep *)
(* of it, in every state the core can reach (runtime.cpp, ekf.cpp,         *)
(* control.cpp).                                                           *)
THEOREM CoreInvariant == Spec => []IInv
BY InitInvariant, NextInvariant, PTL DEF Spec

-----------------------------------------------------------------------------
(* What the invariant is for.                                              *)

LEMMA FreshIsRecent ==
  ASSUME IInv, NEW k \in Source, Fresh(est, k)
  PROVE  Recent(k)
BY EstimatorConfigAssumption, CoreAssumption DEF IInv, Tells, Fresh, Recent

(* The states of the core stay well-formed, whatever the order of the      *)
(* calls: no index of a waypoint leaves the route, no steering the range.  *)
THEOREM CoreTypeCorrect == Spec => []TypeOK
BY CoreInvariant, PTL DEF IInv

(* The navigation mode is never better than what was really fused.         *)
THEOREM ModeFresh == Spec => []ModeIsFresh
<1>1. IInv => ModeIsFresh
  <2>1. {"Imu", "Wheel", "Gnss", "Landmark"} \subseteq Source
    BY DEF Source
  <2> QED
    BY <2>1, ModeSays, FreshIsRecent DEF IInv, ModeIsFresh
<1> QED
  BY <1>1, CoreInvariant, PTL

(* No waypoint is skipped, for routes of any length.                       *)
THEOREM InOrder == Spec => []WaypointsInOrder
<1>1. IInv => WaypointsInOrder
  BY DEF IInv
<1> QED
  BY <1>1, CoreInvariant, PTL

(* The final stop holds until the next route.                              *)
THEOREM StopHolds == Spec => []FinalStopHolds
<1>1. IInv => FinalStopHolds
  BY DEF IInv, StopKept, FinalStopHolds
<1> QED
  BY <1>1, CoreInvariant, PTL

-----------------------------------------------------------------------------
(* The core as the session knows it.                                       *)

LEMMA CoreStepFields ==
  ASSUME NEW r, NEW i \in BOOLEAN, NEW route, NEW old, NEW drives,
         NEW c, c = [rt |-> r, initialized |-> i, route |-> route,
                     command |-> old, drives |-> drives],
         NEW mode, ~i => mode = "Unavailable",
         NEW next, next = Ticked(r, mode, i, route # <<>>)
  PROVE  /\ CoreStep(c, mode).rt = next
         /\ CoreStep(c, mode).initialized = i
         /\ CoreStep(c, mode).route = route
         /\ CoreStep(c, mode).command = Decide(next, mode, i, route # <<>>)
<1>1. c.rt = r /\ c.initialized = i /\ c.route = route
  OBVIOUS
<1>2. \A n, q, m :
        LET t == [c EXCEPT !.rt = n, !.command = q, !.drives = m]
        IN  t.rt = n /\ t.initialized = i /\ t.route = route /\ t.command = q
  OBVIOUS
<1>3. CASE i
  BY <1>1, <1>2, <1>3 DEF CoreStep
<1>4. CASE ~i
  BY <1>1, <1>2, <1>4 DEF CoreStep
<1> QED
  BY <1>3, <1>4

LEMMA ConcludeAsCore ==
  ASSUME IInv, NEW e, Sound(e), NEW r \in RuntimeRecord,
         NEW s \in Observed,
         s.entered = seen.entered, s.arrived = seen.arrived,
         Conclude(e, r, s),
         NEW c, c = [rt |-> r, initialized |-> e.initialized,
                     route |-> AsCore.route, command |-> AsCore.command,
                     drives |-> 0]
  PROVE  Same(AsCore', CoreStep(c, ModeOf(est')))
<1> DEFINE mode == ModeOf(e)
           ready == control.count # 0
           next == Ticked(r, mode, e.healthy, ready)
           decision == Decide(next, mode, e.healthy, ready)
<1>1. est' = e /\ rt' = next /\ Output(e, next, s)
  BY DEF Conclude
<1>2. /\ ready \in BOOLEAN /\ e.healthy = e.initialized
      /\ e.initialized \in BOOLEAN /\ mode \in NavigationMode
      /\ ~e.initialized => mode = "Unavailable"
  BY ModeKnown DEF Sound, EstimatorRecord
<1>3. next \in RuntimeRecord
  BY <1>2, TickedType
<1>4. decision \in Decision
  BY <1>2, <1>3, DecideMatches
<1>5. DecisionOf(command'.kind) = decision /\ control'.count = control.count
  BY <1>1, <1>4, OutputKeeps DEF IInv
<1>6. (AsCore.route # <<>>) = ready
  BY DEF AsCore
<1>7. /\ AsCore'.rt = next /\ AsCore'.initialized = e.initialized
      /\ AsCore'.route = AsCore.route /\ AsCore'.command = decision
  BY <1>1, <1>5 DEF AsCore
<1>8. /\ CoreStep(c, mode).rt = next
      /\ CoreStep(c, mode).initialized = e.initialized
      /\ CoreStep(c, mode).route = AsCore.route
      /\ CoreStep(c, mode).command = decision
  BY <1>2, <1>6, CoreStepFields
<1> HIDE DEF next, decision
<1> QED
  BY <1>1, <1>7, <1>8 DEF Same

LEMMA StepAsCore ==
  ASSUME IInv, NEW manual \in BOOLEAN, Step(manual)
  PROVE  Same(AsCore', CoreStep([AsCore EXCEPT !.rt = StoppedIf(manual, @)],
                                ModeOf(est')))
<1> DEFINE r == StoppedIf(manual, rt)
<1>1. r \in RuntimeRecord
  BY TransitionType
  DEF IInv, TypeOK, StoppedIf, RequestSafeStop, StopUnlessFaulted, SafetyState
<1>2. Conclude(est, r, seen)
  BY DEF Step
<1>3. [AsCore EXCEPT !.rt = StoppedIf(manual, @)]
        = [rt |-> r, initialized |-> est.initialized, route |-> AsCore.route,
           command |-> AsCore.command, drives |-> 0]
  BY DEF AsCore
<1> HIDE DEF r
<1> QED
  BY <1>1, <1>2, <1>3, ConcludeAsCore DEF IInv, TypeOK

(* Each outcome of a frame is one that the session's core has for it.      *)
LEMMA FrameAsCore ==
  ASSUME IInv, NEW updates \in Updates, StepWithFrame(updates),
         NEW frame, frame = FrameOf(DOMAIN updates),
         NEW result, result = ResultOf(est, updates)
  PROVE  /\ DOMAIN updates \in SUBSET Source
         /\ result \in ResultsOf(AsCore, frame)
         /\ Same(AsCore', CoreStep(Process(AsCore, frame, result),
                                   ModeOf(est')))
<1> DEFINE e == Fused(est, updates)
           r == Heard(rt, result)
           s == Witnessed(seen, est, updates)
<1>1. /\ Sound(est) /\ Tells(est, seen) /\ rt \in RuntimeRecord
      /\ seen \in Observed
  BY DEF IInv, TypeOK
<1>2. Sound(e)
  BY <1>1, FusedKeeps
<1>3. s \in Observed /\ s.entered = seen.entered /\ s.arrived = seen.arrived
  BY <1>1, WitnessedKeeps
<1>4. result \in {"Accepted", "Rejected", "Numerical"}
  BY <1>1, FusedCases
<1>5. r \in RuntimeRecord
  BY <1>1, <1>4, HeardType
<1>6. Conclude(e, r, s)
  BY DEF StepWithFrame
<1>7. DOMAIN updates \subseteq Source /\ DOMAIN frame = DOMAIN updates
  BY UpdatesDomain DEF FrameOf
<1>8. AsCore.initialized = est.initialized /\ est.initialized \in BOOLEAN
  BY <1>1 DEF AsCore, Sound, EstimatorRecord
<1>9. Judges(est, updates)
        <=> est.initialized \/ "Gnss" \in DOMAIN frame
  BY <1>7, <1>8 DEF Judges, Begins
<1>10. result \in ResultsOf(AsCore, frame)
  BY <1>1, <1>4, <1>8, <1>9, FusedCases DEF ResultsOf, Result
<1>11. e.initialized = (est.initialized \/ (result = "Accepted"
                                              /\ "Gnss" \in DOMAIN frame))
  <2>1. CASE ~Judges(est, updates)
    <3>1. e = est
      BY <1>1, <2>1, FusedCases
    <3> QED
      BY <1>8, <1>9, <2>1, <3>1
  <2>2. CASE Judges(est, updates) /\ result = "Accepted"
    <3>1. e = Candidate(est, updates) /\ ~Some(updates, "Numerical")
      BY <1>1, <2>2, FusedCases
    <3>2. e.initialized
      BY <1>1, <2>2, <3>1, CandidateKeeps
    <3>3. e.initialized \in BOOLEAN
      BY <1>2 DEF Sound, EstimatorRecord
    <3> HIDE DEF e
    <3> QED
      BY <1>8, <1>9, <2>2, <3>2, <3>3
  <2>3. CASE Judges(est, updates) /\ result # "Accepted"
    <3>1. e = est
      BY <1>1, <2>3, FusedCases
    <3> QED
      BY <1>8, <2>3, <3>1
  <2> QED
    BY <2>1, <2>2, <2>3
<1>12. Process(AsCore, frame, result)
         = [rt |-> r, initialized |-> e.initialized, route |-> AsCore.route,
            command |-> AsCore.command, drives |-> 0]
  <2> HIDE DEF e
  <2>1. CASE result = "Accepted"
    <3>1. r = AcceptInput(rt)
      BY <2>1 DEF Heard
    <3>2. Process(AsCore, frame, result)
            = [[AsCore EXCEPT !.initialized = @ \/ "Gnss" \in DOMAIN frame]
                 EXCEPT !.rt = AcceptInput(@)]
      BY <2>1 DEF Process
    <3> HIDE DEF r
    <3> QED
      BY <1>8, <1>11, <2>1, <3>1, <3>2 DEF AsCore
  <2>2. CASE result = "Rejected"
    <3>1. r = rt /\ Process(AsCore, frame, result) = AsCore
      BY <2>2 DEF Heard, Process
    <3> HIDE DEF r
    <3> QED
      BY <1>8, <1>11, <2>2, <3>1 DEF AsCore
  <2>3. CASE result = "Numerical"
    <3>1. /\ r = ReportNumericalFault(rt)
          /\ Process(AsCore, frame, result)
               = [AsCore EXCEPT !.rt = ReportNumericalFault(@)]
      BY <2>3 DEF Heard, Process
    <3> HIDE DEF r
    <3> QED
      BY <1>8, <1>11, <2>3, <3>1 DEF AsCore
  <2> QED
    BY <1>4, <2>1, <2>2, <2>3
<1> HIDE DEF e, r, s
<1>13. Same(AsCore', CoreStep(Process(AsCore, frame, result), ModeOf(est')))
  BY <1>2, <1>3, <1>5, <1>6, <1>12, ConcludeAsCore
<1> QED
  BY <1>7, <1>10, <1>13

LEMMA NextImplements ==
  ASSUME IInv, [Next]_vars
  PROVE  \/ CoreAllows(AsCore, AsCore', ModeOf(est'))
         \/ AsCore' = AsCore
<1> DEFINE C(r, route) ==
      [rt |-> r, initialized |-> est.initialized, route |-> route,
       command |-> AsCore.command, drives |-> 0]
<1>1. \A r : [AsCore EXCEPT !.rt = r] = C(r, AsCore.route)
  BY DEF AsCore
<1>2. \A route : [AsCore EXCEPT !.route = route] = C(rt, route)
  BY DEF AsCore
<1>3. AsCore.rt = rt
  BY DEF AsCore
<1>4. CASE SomeAdvance
  <2>1. PICK d \in 1 .. ClockSize - 1 : Advance(d)
    BY <1>4 DEF SomeAdvance
  <2>2. d \in Age
    BY ClockAssumption DEF Age
  <2>3. /\ rt' = ReadAgesAged(rt, d) /\ control' = control
        /\ command' = command /\ est'.initialized = est.initialized
    BY <2>1 DEF Advance, EstimatorAged, IInv, TypeOK, EstimatorRecord
  <2>4. Same(AsCore', [AsCore EXCEPT !.rt = ReadAgesAged(@, d)])
    BY <1>3, <2>3 DEF AsCore, Same
  <2> QED
    BY <2>2, <2>4 DEF CoreAllows
<1>5. CASE Handshake
  <2>1. Same(AsCore', [AsCore EXCEPT !.rt = NotifyHandshake(@)])
    BY <1>5 DEF Handshake, AsCore, Same
  <2> QED
    BY <2>1 DEF CoreAllows
<1>6. CASE Overflow
  <2>1. Same(AsCore', [AsCore EXCEPT !.rt = RecordQueueOverflow(@)])
    BY <1>6 DEF Overflow, AsCore, Same
  <2> QED
    BY <2>1 DEF CoreAllows
<1>7. CASE SomeRoute
  <2>1. /\ UNCHANGED <<est, rt, command>>
        /\ control'.count # 0
    BY <1>7, GuidanceAssumption DEF SomeRoute, SetRoute, RouteSet
  <2>2. Same(AsCore', [AsCore EXCEPT !.route = <<"set">>])
    BY <2>1 DEF AsCore, Same
  <2> QED
    BY <2>2 DEF CoreAllows
<1>8. CASE RefuseRoute
  <2>1. UNCHANGED <<est, rt, command>> /\ control'.count = control.count
    BY <1>8 DEF RefuseRoute, RouteRefused, IInv, TypeOK, ControllerRecord
  <2> QED
    BY <2>1 DEF AsCore
<1>9. CASE SomeStep
  <2>1. PICK manual \in BOOLEAN : Step(manual)
    BY <1>9 DEF SomeStep
  <2> QED
    BY <2>1, StepAsCore DEF CoreAllows
<1>10. CASE SomeFrame
  <2>1. PICK updates \in Updates : StepWithFrame(updates)
    BY <1>10, CoreAssumption DEF SomeFrame
  <2>2. /\ DOMAIN updates \in SUBSET Source
        /\ ResultOf(est, updates) \in ResultsOf(AsCore, FrameOf(DOMAIN updates))
        /\ Same(AsCore', CoreStep(Process(AsCore, FrameOf(DOMAIN updates),
                                          ResultOf(est, updates)),
                                  ModeOf(est')))
    BY <2>1, FrameAsCore
  <2> QED
    BY <2>2 DEF CoreAllows
<1>11. CASE UNCHANGED vars
  BY <1>11 DEF vars, AsCore
<1> QED
  BY <1>4, <1>5, <1>6, <1>7, <1>8, <1>9, <1>10, <1>11 DEF Next

(* The core does nothing that the session's operators do not allow.        *)
THEOREM CoreImplements == Spec => ImplementsCore
<1>1. IInv /\ [Next]_vars
        => [CoreAllows(AsCore, AsCore', ModeOf(est'))]_AsCore
  BY NextImplements
<1> QED
  BY <1>1, CoreInvariant, PTL DEF Spec, ImplementsCore
=============================================================================

-------------------------- MODULE FirmwareSession --------------------------
(***************************************************************************)
(* FirmwareSession (src/src/firmware_session.cpp) with the EmbeddedCon-    *)
(* trollerCore it owns: what one call of feed, tick and pop_frame does to  *)
(* the session, the queues, the route, the runtime and the scheduler.  The *)
(* calls come in any order and number, at any pace the loop of main.cpp or *)
(* of the native library may set.                                          *)
(*                                                                         *)
(* A handler calls others that change the same fields, so the fields are   *)
(* one record, fw, and a handler is an operator from record to record.     *)
(*                                                                         *)
(* Abstract here: the contents of a sensor sample (what the estimator      *)
(* makes of it is a choice), the numbers of a command or an estimate (only *)
(* the mode matters), statistics, and the time steps given to the          *)
(* controller.  The age of a timestamp that nothing reads any more does    *)
(* not advance.                                                            *)
(***************************************************************************)
EXTENDS Core, Scheduling, Sequence, Sequences, FiniteSets

CONSTANTS
  TxCapacity,       \* kTxQueueCapacity (8)
  SensorCapacity,   \* kSensorQueueCapacity (4)
  HealthPeriod,     \* FirmwareSessionConfig.health_period_ms (100)
  HeartbeatPeriod,  \* FirmwareSessionConfig.heartbeat_period_ms (1000)
  Sensor,           \* the kinds of sample a frame may carry, "Gnss" among them
  Mode,             \* the navigation modes the estimator may report
  Packet,           \* the packets the host, or the link, may deliver
  MaxGap,           \* the longest time between two ticks of an open session
  MaxIdle           \* the longest time before the session is opened

(* valid_config, and a queue that holds one whole bundle.                  *)
ASSUME SessionConfigAssumption ==
  /\ TxCapacity \in Nat /\ TxCapacity >= 4
  /\ SensorCapacity \in Nat \ {0}
  /\ HealthPeriod \in Nat \ {0} /\ HeartbeatPeriod \in Nat
  /\ HealthPeriod <= HeartbeatPeriod
  /\ {"Control", "Health", "Telemetry"} \subseteq Task
  /\ MaxGap \in Nat /\ MaxIdle \in Nat
  /\ Mode \subseteq NavigationMode /\ "Unavailable" \in Mode

(* What a decoded packet holds (wire::Packet): a sensor frame carries a     *)
(* step for each of its samples, a chunk of a route its extent.            *)
ASSUME PacketAssumption ==
  \A p \in Packet :
    /\ p.type \in {"Hello", "Route", "Sensor", "SafeStop", "Heartbeat",
                   "Other"}
    /\ p.seq \in Seq32 /\ p.step \in Seq32
    /\ p.type = "Sensor" =>
         /\ DOMAIN p.samples \subseteq Sensor
         /\ p.samples \in [DOMAIN p.samples -> Seq32]
    /\ p.type = "Route" =>
         p.start \in Nat /\ p.count \in Nat /\ p.total \in Nat

VARIABLES
  fw,        \* the fields of FirmwareSession, its core included
  gap,       \* time since the last tick of an open session
  idle,      \* time from boot to the session
  silence,   \* time since the host was last heard: since a HELLO or a
             \* heartbeat was accepted or a sensor frame queued
  fused      \* per sensor, the step of the last sample given to the core;
             \* its turn flips with every sample given, of whatever step

vars == <<fw, gap, idle, silence, fused>>

-----------------------------------------------------------------------------
(* Frames the controller sends, sensor frames it holds.                    *)

ActuatorMode == {"Neutral", "Tracking", "SafeStop"}   \* wire::ControlMode

CommandFrame(mode) == [type |-> "Command", mode |-> mode]
HealthFrame(state) == [type |-> "Health", state |-> state]
Estimate  == [type |-> "Estimate"]
Heartbeat == [type |-> "Heartbeat"]
ErrorSent == [type |-> "Error"]
HelloAck(ok) == [type |-> "HelloAck", ok |-> ok]

Frame ==
  {CommandFrame(mode) : mode \in ActuatorMode}
    \cup {HealthFrame(state) : state \in SafetyState}
    \cup {HelloAck(ok) : ok \in BOOLEAN}
    \cup {Estimate, Heartbeat, ErrorSent}

(* The step of the last queued sample of a sensor, and none yet.           *)
NoStep == -1
Samples == UNION {[kinds -> Seq32] : kinds \in SUBSET Sensor}
Overlaid(new, old) ==
  [k \in Sensor |-> IF k \in DOMAIN new THEN new[k] ELSE old[k]]

(* Route assembly: the id and length announced, how many points are in,    *)
(* and the buffer, whose points carry where they come from.                *)
NoRoute == [id |-> "none", expected |-> 0, received |-> 0]

(* reset, the firmware at boot: the self-test has passed.                  *)
Booted ==
  [rt          |-> Transition(Begun, "Ready"),
   lead        |-> Released,
   active      |-> FALSE,              \* session_active_
   tx          |-> <<>>,               \* tx_queue_
   sensors     |-> <<>>,               \* sensor_queue_
   tracker     |-> Untracked,          \* sequence_
   samples     |-> [k \in Sensor |-> NoStep],   \* imu_step_, wheel_step_ ...
   assembly    |-> NoRoute,            \* route_id_, _expected_, _received_
   points      |-> <<>>,               \* route_, the assembly buffer
   route       |-> <<>>,               \* the route of the controller
   initialized |-> FALSE,              \* the estimator is, and is healthy
   command     |-> "None",             \* what this call's core step decided
   drives      |-> 0,                  \* observed: how often the controller
                                       \* has stepped in this millisecond
   stepped     |-> TRUE,               \* last_core_step_ms_ is now
   healthAge   |-> 0,                  \* since last_health_ms_
   beatAge     |-> 0,                  \* since last_heartbeat_ms_
   emitted     |-> "Startup"]          \* last_emitted_state_

-----------------------------------------------------------------------------
(* enqueue: a full queue is a queue overflow, and drops what it held.      *)
Send(s, frame) ==
  IF Len(s.tx) < TxCapacity
    THEN [s EXCEPT !.tx = Append(@, frame)]
    ELSE [s EXCEPT !.tx = <<frame>>, !.rt = RecordQueueOverflow(@)]

SendError(s) == Send(s, ErrorSent)

-----------------------------------------------------------------------------
(* emit_controller_output: a command, its estimate, and when they are due  *)
(* the health and the heartbeat.  If they do not all fit, the queue        *)
(* overflows and the core decides again, before anything is sent.          *)
WireMode(decision) == IF decision = "Control" THEN "Tracking" ELSE decision

HeartbeatDue(s) == s.beatAge >= HeartbeatPeriod

HealthDue(s, forced) ==
  forced \/ s.rt.state # s.emitted \/ s.healthAge >= HealthPeriod

BundleSize(s, forced) ==
  2 + (IF HealthDue(s, forced) THEN 1 ELSE 0)
    + (IF HeartbeatDue(s) THEN 1 ELSE 0)

Slip_RoomForPair(s, forced) == 2 <= TxCapacity - Len(s.tx)
Room(s, forced) == BundleSize(s, forced) <= TxCapacity - Len(s.tx)

Slip_DecideOnce(s, mode) ==
  [s EXCEPT !.tx = <<>>, !.rt = RecordQueueOverflow(@)]
DecideAgain(s, mode) ==
  CoreStep([s EXCEPT !.tx = <<>>, !.rt = RecordQueueOverflow(@)], mode)

SendPair(s) == Send(Send(s, CommandFrame(WireMode(s.command))), Estimate)

SendHealth(s) ==
  [Send(s, HealthFrame(s.rt.state)) EXCEPT !.healthAge = 0,
                                           !.emitted = s.rt.state]

SendHeartbeat(s) == [Send(s, Heartbeat) EXCEPT !.beatAge = 0]

EmitOutput(s, forced, mode) ==
  LET fits    == Room(s, forced)
      decided == IF fits THEN s ELSE DecideAgain(s, mode)
      paired  == SendPair(decided)
      told    == IF HealthDue(s, forced) \/ ~fits THEN SendHealth(paired)
                                                  ELSE paired
  IN  IF HeartbeatDue(s) THEN SendHeartbeat(told) ELSE told

-----------------------------------------------------------------------------
(* tick                                                                    *)

(* The core step of a control release, with the next queued sensor frame.  *)
Consumed(s, mode, result) ==
  LET taken == [s EXCEPT !.sensors = Tail(@)]
      fed   == IF s.sensors = <<>> THEN s
               ELSE Process(taken, Head(s.sensors), result)
  IN  [CoreStep(fed, mode) EXCEPT !.stepped = TRUE]

(* The release reaches the core: once a millisecond, in an open session.   *)
Slip_ReleasesUntilStopped(s) ==
  /\ s.active /\ "Control" \in Due(s.lead) /\ ~s.stepped
  /\ s.rt.state \notin Latched
Releases(s) == s.active /\ "Control" \in Due(s.lead) /\ ~s.stepped

Tick(s, mode, result) ==
  LET due    == Due(s.lead)
      polled == [s EXCEPT !.lead = Polled(@)]
      out    == Consumed(polled, mode, result)
      reports == \/ s.sensors # <<>>
                 \/ {"Health", "Telemetry"} \cap due # {}
                 \/ out.rt.state # s.emitted
                 \/ HeartbeatDue(s)
  IN  CASE ~s.active                  -> s
        [] s.active /\ ~Releases(s)   -> polled
        [] Releases(s) /\ ~reports    -> out
        [] Releases(s) /\ reports     ->
             EmitOutput(out, "Health" \in due, mode)

-----------------------------------------------------------------------------
(* handle_hello: a new session.  The safety state and the steps of the     *)
(* samples already seen outlive it.                                        *)
Slip_OpenForgetsSamples(s, p) ==
  [s EXCEPT !.tx = <<>>, !.sensors = <<>>, !.active = TRUE,
            !.tracker = Observed(Untracked, p.seq, FALSE, 0),
            !.samples = [k \in Sensor |-> NoStep],
            !.assembly = NoRoute, !.rt = NotifyHandshake(@)]
Slip_OpenClearsStop(s, p) ==
  [s EXCEPT !.tx = <<>>, !.sensors = <<>>, !.active = TRUE,
            !.tracker = Observed(Untracked, p.seq, FALSE, 0),
            !.assembly = NoRoute, !.rt = NotifyHandshake(Booted.rt)]
OpenSession(s, p) ==
  [s EXCEPT !.tx = <<>>, !.sensors = <<>>, !.active = TRUE,
            !.tracker = Observed(Untracked, p.seq, FALSE, 0),
            !.assembly = NoRoute, !.rt = NotifyHandshake(@)]

HandleHello(s, p) ==
  IF p.ok THEN Send(OpenSession(s, p), HelloAck(TRUE))
          ELSE Send(s, HelloAck(FALSE))

-----------------------------------------------------------------------------
(* handle_route.  A chunk of a route carries its id, its position and      *)
(* length, the length announced, and its flags; "bad" marks waypoints that *)
(* RouteManager::set_route refuses.                                        *)
WellFormed(p) == p.ok /\ p.count > 0 /\ p.start + p.count <= p.total

Announced(s, p) ==
  IF p.clear
    THEN [s EXCEPT !.assembly =
            [id |-> p.id, expected |-> p.total, received |-> 0]]
    ELSE s

Slip_ContinuesAnyRoute(s, p) ==
  /\ p.total = s.assembly.expected
  /\ p.start = s.assembly.received
Continues(s, p) ==
  /\ p.id = s.assembly.id
  /\ p.total = s.assembly.expected
  /\ p.start = s.assembly.received

(* The points of a chunk overwrite the buffer from where the chunk begins. *)
PointsOf(p) == [i \in 1 .. p.count |-> [id |-> p.id, at |-> p.start + i]]
Stored(s, p) ==
  LET kept == SubSeq(s.points, 1, p.start)
      rest == SubSeq(s.points, p.start + p.count + 1, Len(s.points))
  IN  [s EXCEPT !.points = kept \o PointsOf(p) \o rest,
                !.assembly.received = @ + p.count]

(* The final chunk hands a complete route to the controller, all or none.  *)
Complete(s) == s.assembly.received = s.assembly.expected

Installed(s, p) ==
  CASE ~p.final -> s
    [] p.final /\ Complete(s) /\ ~p.bad ->
         [s EXCEPT !.route = SubSeq(s.points, 1, s.assembly.received)]
    [] p.final /\ (~Complete(s) \/ p.bad) -> SendError(s)

HandleRoute(s, p) ==
  LET begun == Announced(s, p)
  IN  CASE ~WellFormed(p) -> SendError(s)
        [] WellFormed(p) /\ ~Continues(begun, p) -> SendError(begun)
        [] WellFormed(p) /\ Continues(begun, p) ->
             Installed(Stored(begun, p), p)

-----------------------------------------------------------------------------
(* handle_sensor: every sample fresh, and newer than its predecessor; the  *)
(* frame waits for a control release.                                      *)
SamplesValid(s, p) ==
  \A k \in DOMAIN p.samples :
    /\ SampleIsFresh(p.samples[k], p.step)
    /\ s.samples[k] = NoStep \/ StepIsNewer(p.samples[k], s.samples[k])

Admissible(s, p) == p.ok /\ DOMAIN p.samples # {} /\ SamplesValid(s, p)

Enqueued(s, p) ==
  [s EXCEPT !.sensors = Append(@, p.samples),
            !.samples = Overlaid(p.samples, @)]

HandleSensor(s, p) ==
  CASE ~Admissible(s, p) -> SendError(s)
    [] Admissible(s, p) /\ Len(s.sensors) = SensorCapacity ->
         SendError([s EXCEPT !.rt = RecordQueueOverflow(@)])
    [] Admissible(s, p) /\ Len(s.sensors) < SensorCapacity -> Enqueued(s, p)

-----------------------------------------------------------------------------
(* handle_safe_stop: the stop is decided and reported at once.             *)
HandleSafeStop(s, p, mode) ==
  IF p.ok
    THEN EmitOutput(
           [CoreStep([s EXCEPT !.rt = RequestSafeStop(@)], mode)
              EXCEPT !.stepped = TRUE],
           TRUE, mode)
    ELSE SendError(s)

HandleHeartbeat(s, p) ==
  IF p.ok THEN [s EXCEPT !.rt = NotifyHandshake(@)] ELSE SendError(s)

(* handle_packet                                                           *)
Tracked(s, p) ==
  [s EXCEPT !.tracker = Observed(@, p.seq, p.type = "Sensor", p.step)]

Admitted(s, p) ==
  Verdict(s.tracker, p.seq, p.type = "Sensor", p.step) \in Taken

Dispatch(s, p, mode) ==
  CASE p.type = "Route"     -> HandleRoute(s, p)
    [] p.type = "Sensor"    -> HandleSensor(s, p)
    [] p.type = "SafeStop"  -> HandleSafeStop(s, p, mode)
    [] p.type = "Heartbeat" -> HandleHeartbeat(s, p)
    [] p.type = "Other"     -> SendError(s)

HandlePacket(s, p, mode) ==
  CASE p.type = "Hello" -> HandleHello(s, p)
    [] p.type # "Hello" /\ ~s.active /\ p.type # "SafeStop" -> SendError(s)
    [] p.type # "Hello" /\ (s.active \/ p.type = "SafeStop") ->
         IF Admitted(s, p) THEN Dispatch(Tracked(s, p), p, mode) ELSE s

-----------------------------------------------------------------------------
(* The calls.                                                              *)

Init ==
  /\ fw = Booted
  /\ gap = 0
  /\ idle = 0
  /\ silence = 0
  /\ fused = [k \in Sensor |-> [step |-> NoStep, turn |-> 0]]

(* A call begins without a decision.                                       *)
Called == [fw EXCEPT !.command = "None"]

AtMost(n, cap) == IF n < cap THEN n ELSE cap

AgedWhileRead(r, d) ==
  [r EXCEPT
     !.validAge = IF r.state \in Live /\ r.hostSeen THEN Older(@, d) ELSE 0,
     !.blindAge = IF r.state \in Driving /\ r.blind THEN Older(@, d) ELSE 0]

(* The longest time between two steps of the core in an open session: its  *)
(* release is due within a period, and the tick that sees it due is at     *)
(* most a gap after one that does not.                                     *)
StepGap == Period["Control"] + MaxGap - 1

(* A full queue, then the timeout, then the step that notices.             *)
SilenceBound == HostTimeout + (SensorCapacity + 1) * StepGap

Waited(s, d) ==
  [s EXCEPT !.rt = AgedWhileRead(@, d),
            !.lead = Nearer(@, d),
            !.stepped = FALSE,
            !.healthAge = AtMost(@ + d, HealthPeriod),
            !.beatAge = AtMost(@ + d, HeartbeatPeriod),
            !.drives = 0]

Advance(d) ==
  /\ IF fw.active THEN gap + d <= MaxGap ELSE idle + d <= MaxIdle
  /\ fw' = Waited(Called, d)
  /\ gap' = IF fw.active THEN gap + d ELSE 0
  /\ idle' = IF fw.active THEN idle ELSE idle + d
  /\ silence' = IF fw.rt.state \in Live
                  THEN AtMost(silence + d, SilenceBound + 1) ELSE 0
  /\ UNCHANGED fused

(* feed: a whole packet arrives, or bytes that the parser refuses.         *)
Hears(p) ==
  \/ p.type = "Hello" /\ p.ok
  \/ /\ fw.active /\ Admitted(fw, p)
     /\ \/ p.type = "Heartbeat" /\ p.ok
        \/ /\ p.type = "Sensor" /\ Admissible(fw, p)
           /\ Len(fw.sensors) < SensorCapacity

Feed(p, mode) ==
  /\ fw' = HandlePacket(Called, p, mode)
  /\ silence' = IF Hears(p) THEN 0 ELSE silence
  /\ UNCHANGED <<gap, idle, fused>>

FeedCorrupt ==
  /\ fw' = SendError(Called)
  /\ UNCHANGED <<gap, idle, silence, fused>>

(* The samples of a frame are given to the core.                           *)
FusedWith(frame, old) ==
  [k \in Sensor |-> IF k \in DOMAIN frame
                      THEN [step |-> frame[k], turn |-> 1 - old[k].turn]
                      ELSE old[k]]

(* A step that asks the estimator nothing leaves it no choice.             *)
TickCall(mode, result) ==
  LET consumes == Releases(fw) /\ fw.sensors # <<>>
  IN  /\ Releases(fw) \/ mode = "Unavailable"
      /\ result \in IF consumes THEN ResultsOf(fw, Head(fw.sensors))
                               ELSE {"Accepted"}
      /\ fw' = Tick(Called, mode, result)
      /\ gap' = 0
      /\ fused' = IF consumes THEN FusedWith(Head(fw.sensors), fused)
                              ELSE fused
      /\ UNCHANGED <<idle, silence>>

PopFrame ==
  /\ fw.tx # <<>>
  /\ fw' = [Called EXCEPT !.tx = Tail(@)]
  /\ UNCHANGED <<gap, idle, silence, fused>>

SomeAdvance == \E d \in 1 .. MaxGap : Advance(d)
SomeFeed ==
  \E p \in Packet, mode \in Mode :
    /\ p.type = "SafeStop" \/ mode = "Unavailable"   \* as in TickCall
    /\ Feed(p, mode)
SomeTick ==
  \E mode \in Mode, result \in Result : TickCall(mode, result)

Next ==
  \/ SomeAdvance
  \/ SomeFeed
  \/ FeedCorrupt
  \/ SomeTick
  \/ PopFrame

Spec == Init /\ [][Next]_vars

(* Time passes without end, with a tick of an open session every MaxGap,   *)
(* and the loop keeps sending.                                             *)
FairSpec == Spec /\ []<><<SomeAdvance>>_vars /\ WF_vars(PopFrame)

-----------------------------------------------------------------------------
(* Types.                                                                  *)
TypeOK ==
  /\ fw.rt \in RuntimeRecord
  /\ fw.lead \in [Task -> Age]
  /\ fw.tracker \in TrackerRecord
  /\ fw.samples \in [Sensor -> Seq32 \cup {NoStep}]
  /\ Len(fw.tx) <= TxCapacity /\ \A i \in DOMAIN fw.tx : fw.tx[i] \in Frame
  /\ Len(fw.sensors) <= SensorCapacity
  /\ \A i \in DOMAIN fw.sensors : fw.sensors[i] \in Samples
  /\ fw.command \in Decision
  /\ fw.healthAge \in 0 .. HealthPeriod
  /\ fw.beatAge \in 0 .. HeartbeatPeriod
  /\ fw.emitted \in SafetyState
  /\ gap \in 0 .. MaxGap /\ idle \in 0 .. MaxIdle

(* The host can pair a command with the estimate it was computed from, and *)
(* a health record with both: an overflow drops bundles whole, and only    *)
(* the sending of its first part separates one (emit_controller_output).   *)
Orphans(tx) ==
  {i \in DOMAIN tx :
     \/ tx[i].type = "Command" /\ (i = Len(tx) \/ tx[i + 1] # Estimate)
     \/ tx[i] = Estimate /\ (i = 1 \/ tx[i - 1].type # "Command")
     \/ tx[i].type = "Health" /\ (i = 1 \/ tx[i - 1] # Estimate)}
BundlesWhole ==
  [][Cardinality(Orphans(fw'.tx)) > Cardinality(Orphans(fw.tx))
       => PopFrame]_vars

(* The speed integrator and the steering limiter advance at most once at   *)
(* any instant, however often the loop polls and whatever overflows.       *)
DrivesOnce == fw.drives <= 1

(* A bound on driving without a host, end to end: the watchdog counts from *)
(* the moment a queued frame is processed, so the queue adds to it.        *)
HostSilenceBounded ==
  (fw.active /\ fw.rt.state \in Live) => silence <= SilenceBound

(* No sample is given to the estimator twice or after a later one, across  *)
(* reconnects of the host, replays, reordering and the wrap of the counter *)
(* of steps: each time one is given, it is newer than the last of its      *)
(* sensor.  The turn tells a step given again from none given.             *)
FusedInOrder ==
  [][\A k \in Sensor : fused'[k] # fused[k] =>
       \/ fused[k].step = NoStep
       \/ StepIsNewer(fused'[k].step, fused[k].step)]_vars

(* Once a stop is latched no command to drive is queued any more.          *)
Tracks(tx) == Cardinality({i \in DOMAIN tx : tx[i] = CommandFrame("Tracking")})
NoDriveOnceStopped ==
  [][fw'.rt.state \in Latched => Tracks(fw'.tx) <= Tracks(fw.tx)]_vars

(* What the session decides implements the safety state machine.           *)
Fsm == INSTANCE SafetyFsm WITH Boot <- "Ready", state <- fw.rt.state,
                               output <- fw.command
ImplementsFsm == Fsm!Spec

(* A stop is reported again and again until the next boot, even if the one *)
(* that announced it was lost to an overflow: once the host falls silent,  *)
(* a latched controller keeps sending SAFE_STOP commands.                  *)
SendStop == PopFrame /\ Head(fw.tx) = CommandFrame("SafeStop")
StopKeepsBeingReported ==
  (/\ <>[][SomeAdvance \/ SomeTick \/ PopFrame]_vars
   /\ <>(fw.active /\ fw.rt.state \in Latched)) => []<><<SendStop>>_vars

(* What PROTOCOL_V1.md says of corrupt input: it does not change the       *)
(* safety state.                                                           *)
CorruptInputHarmless == [][FeedCorrupt => fw'.rt = fw.rt]_vars

(* The controller's route is one route that the host sent, whole and in    *)
(* order, never parts of two.                                              *)
RouteWhole ==
  fw.route # <<>> =>
    \E p \in Packet :
      /\ p.type = "Route" /\ p.total = Len(fw.route)
      /\ fw.route = [i \in 1 .. p.total |-> [id |-> p.id, at |-> i]]
=============================================================================

# A TLA+ model of NavBench

NavBench tests a navigation controller in the loop: a C++ controller
(`src/src`, running on an Arduino UNO R4 or as a native process) drives a
simulated vehicle that a Python host (`src/host/src/navbench`) computes. The
two exchange Protocol v1 packets over a byte link, real or deliberately faulty.
This directory holds a formal model of both sides and of what lies between
them: TLA+ modules translated from the code, the configurations under which TLC
checks them, and proofs checked by TLAPS.

Run, in this directory,

    tlc -workers 2 -config MCRuntimeCore.cfg MCRuntimeCore.tla
    tlapm RuntimeCore_proofs.tla
    tlapm FirmwareSession_proofs.tla
    tlapm Timing_proofs.tla
    tlapm Campaign_proofs.tla
    tlapm Scheduler_proofs.tla
    tlapm EmbeddedCore_proofs.tla
    tlapm Wire_proofs.tla
    tlapm ClosedLoop_proofs.tla

and likewise for the other configurations named below.

## 1. Inventory of the system

| part | source | state it keeps | operations | what is hard | what makes it correct |
|---|---|---|---|---|---|
| Safety state machine | `runtime.cpp` RuntimeCore | safety state, host seen, timestamps of the last input and of lost navigation, overflow count | begin, self-test, handshake, accept, overflow, stop, fault, tick | wrapping timestamps, alternating modes, any call order | stops when the host or navigation is gone; a stop stays latched |
| Cooperative scheduler | `runtime.cpp` CooperativeScheduler | next release per task | reset, poll, record execution | late polls, wrap, first poll long after reset | every release in time, on the grid |
| Controller core | `runtime.cpp` EmbeddedControllerCore | estimator, controller, runtime | step | a candidate estimator that is committed or dropped | a bad frame changes nothing |
| Firmware session | `firmware_session.cpp` | parser, tracker, two queues, route assembly, timers, core | feed, tick, pop_frame | packets, ticks and sends in any order; queues at their limit | see section 3 |
| Parser, codec, sequence tracker | `protocol.cpp`, `protocol.py` | partial frame, last sequence and step | feed, observe | oversize, corruption, wrap | resynchronises; takes nothing twice |
| Route and control | `control.cpp` | route, active waypoint, latch, integral, last steering | set_route, step | refused routes, saturation | progress is monotonic; the final stop holds |
| Estimator | `ekf.cpp`, `reference.py` | state, covariance, ages of samples, NIS counters | predict, updates, navigation mode | wrap of ages, rejected updates | mode reflects what is fresh |
| Serial staging, HMI | `serial_io.cpp`, `main.cpp`, `hmi.cpp`, `arduino_hmi.cpp` | frame being written, report cursor, blink and refresh timers | stage, acknowledge, update | partial writes | frames leave whole, the servo moves only while running |
| Host session | `session.py` | session state, tracker, transmit buffer, last reception | start, reconnect, send, poll, close | delayed frames of the old session, late answers, timeouts | reconnects; never mixes sessions |
| Link | `transport.py`, `native.py` | partial frames, delayed frames, previous frame | configure, write, read | loss, delay, replay, corruption, disconnection | faults hit whole frames |
| Closed loop | `cil.py` | step, last command and its step, guard | one iteration | stale commands, reconnection, duplicate ticks | a stale command never moves the plant |
| Run log, campaign | `runlog.py`, `campaign.py` | files, manifest, marker | record, finalize, abandon, replay, inspect | a crash between two writes | complete means complete |
| Sensor simulation | `sensors.py` | pending samples | step, drain | delivery out of sampling order | each sample delivered once |
| Physical validation | `hardware.py` | phase, answers seen, evidence | handshake, exchange, quiet period | late boots, late frames, half-written frames | certifies only a controller that stopped; what certifying says of the cause is in section 4 |
| Scenarios, vehicle, metrics, CLI | `scenario.py`, `simulator.py`, `metrics.py`, `__main__.py` | none that is concurrent or durable | | | |

How they interact. `main.cpp` calls, in each iteration of its loop and with one
reading of the clock, `feed` with at most 64 received bytes, `tick`, and
`pop_frame` for what it can transmit; the native process does the same for each
line it reads. `feed` calls the parser, which calls back for each packet and
for each refused frame; packet handlers change the route, the sensor queue, the
runtime and the transmit queue. `tick` polls the scheduler and, on a control
release, takes one sensor frame and steps the core, which ticks the runtime and
yields the output that is queued for the host. The host session sends over a
transport that may be a fault-injecting one; the closed loop drives session,
clock, sensors and plant in lockstep and logs all of it.

The whole list of hazards, with the line where each bites and the property
that watches it, is in `PROJECT.json`.

## 2. Structure

Each module is a component, or composes components:

    Clock <- Runtime <- RuntimeCore          (implements SafetyFsm)
    Clock <- Scheduling <- Scheduler
    Runtime <- Core                          (the core as the session sees it)
    Core, Estimator, Guidance <- EmbeddedCore          (implements Core)
    Core, Scheduling, Sequence <- FirmwareSession      (implements SafetyFsm)
    Frames <- HostSession, Controller
    FirmwareSession <- Controller            (a controller with numbered answers)
    HostSession, FaultLink, SensorPipeline, Controller <- ClosedLoop
    HostSession, Controller <- Bench
    Payload <- Wire
    Wire, Checksum <- MCWire                 (a CRC of twelve bits for Crc)
    RunLog <- Campaign
    Clock <- Board

`RuntimeCore` and `Scheduler` take one class under every order of calls.
`EmbeddedCore` opens what the core owns besides the runtime, the estimator and
the controller. `FirmwareSession` puts runtime and scheduler, with the queues and
packet handlers, behind an arbitrary host; of the core it knows the operators of
`Core`, in which the navigation mode and the outcome of a frame are choices, and
`EmbeddedCore` is shown to do nothing that these do not allow. `ClosedLoop` and `Bench` put the same firmware session, through
`Controller`, in front of the real host code: once over the fault-injecting
link of the experiments, in lockstep, and once over a serial line that is
merely slow and imperfect, with nothing in step. `Wire` looks below packets at bytes, `Board` at the loop that moves them through the
port, `Campaign` above runs at files.

The order in which they were written is the order of their weight: the
controller's safety core and its proofs; the session around it; host, link and
closed loop; durable artefacts and their proofs; the wire; the bench; the inside of
the core and its proofs; the board's port. What comes
next, were the project to grow, is listed in section 6.

## 3. Modules

| module | models | state and actions |
|---|---|---|
| `Clock` | `elapsed_ms` | A timestamp is kept as its age modulo `ClockSize`; time passes by adding to ages. Deadlines are kept as the difference to now. All the code ever does with timestamps is such differences, so nothing is lost, and the state space is finite. |
| `Runtime` | the member functions of RuntimeCore | Operators from a record of its fields to the next. `tick` is split by its paragraphs: watchdog, estimator health, navigation, decision. |
| `RuntimeCore` | RuntimeCore alone | One action per member function, in any order, and `Advance` for time. `silence` and `blindFor` observe true times the code does not have. |
| `SafetyFsm` | what RuntimeCore promises | The reachable states of one step and what may be issued in each. |
| `Scheduling`, `Scheduler` | CooperativeScheduler | Leads per task; `Poll`, `Open` (HELLO), `Advance`. |
| `Sequence` | SequenceTracker, `step_is_newer`, `sample_step_is_fresh` | Operators on a tracker record. |
| `Core` | EmbeddedControllerCore seen by the session | Operators `CoreStep`, `Process` on the session's record. |
| `Estimator` | what `ekf.cpp` keeps besides numbers | Operators on a record: `Initialize`, `Updated`, `ModeOf`. |
| `Guidance` | ControlSystem, RouteManager | Operators on a record: `RouteSet`, `RouteRefused`, `Progressed`, `Guided`, `CommandOf`. |
| `EmbeddedCore` | EmbeddedControllerCore with all it owns | `Handshake`, `Overflow`, `SetRoute`, `RefuseRoute`, `Step`, `StepWithFrame`, `Advance`. |
| `FirmwareSession` | FirmwareSession with its core | `Feed` (a packet), `FeedCorrupt` (a frame the parser refuses), `TickCall`, `PopFrame`, `Advance`. |
| `Frames` | `encode_packet` of both sides, as far as the models need it | `Stamped`: a message keeps its fields and takes those of its header. |
| `Controller` | the controller process seen from its host (`native.py`, `main.cpp`) | Operators `FeedCall` and `Ticked` from a controller to the next and the numbered frames it answers. |
| `HostSession` | `session.py` and the tracker of `protocol.py` | Operators from a session to the next: `Started`, `SentRoute`, `StopRequested`, `Polled`, ... |
| `FaultLink` | `DeterministicFaultTransport` | Operators on one direction: `Shaped` (loss, corruption, delay, replay), `Released`, `Configured`. |
| `SensorPipeline` | `sensors.py`, `_sensor_payload` | `Stepped`, `Drained`, `SensorPayload` on the heap of pending samples. |
| `ClosedLoop` | `run_closed_loop` | One action `Step` per iteration, `Finish` for its end; a scenario chosen in `Init`. |
| `Payload`, `Wire`, `Checksum` | `protocol.py` | Payload classes, validity, layout and decoding of every message; COBS, packets, StreamParser; the CRC apart, as `Wire` takes any. Actions `Send`, `SendDamaged`, `Disturb`, `Read`, `Reset`. |
| `RunLog`, `Campaign` | `runlog.py`, `campaign.py` | One action per write; `BreakRun`, `Interrupt`, `Kill`, `LosePower`, `Damage`. |
| `Bench` | `validate_transport` | One action per period of 20 ms under a chosen weather, and `LineBreaks`. |
| `Board` | `loop` of `main.cpp`, SerialTxStager, DiagnosticScheduler | One action `Loop` per iteration, `Elapse` between two. |

In `FirmwareSession` the handlers of the code call each other and change the
same fields, some of them twice in one call (an error reply may overflow the
queue and thereby stop the runtime). The fields are therefore one record `fw`,
and every handler is an operator on it, composed as the calls are. `command`
in it is the decision of the core step that the current call made last, the
output of `SafetyFsm`. `drives` observes how often the controller was stepped
at the current instant; `silence` observes when the host was last
heard, and `fused` the step of the sample that the core was given last, with a turn that changes each
time one is given, so that the same step given again is seen.

What a step of the estimator yields is a choice: the navigation mode is any of
`Mode`, and a frame is accepted, rejected as invalid, or reported as a numerical
failure. An estimator that was never initialised knows no mode and is not
healthy; the first accepted frame with a GNSS sample initialises it. A
sample is its kind and its step.

Left out of `FirmwareSession`: the bytes (a packet arrives whole, or the parser
refuses it), statistics, the outgoing sequence number and the step id echoed in
an output, the time step given to the controller, and the effects of a route
inside the controller beyond the route itself. Ages that nothing reads until
they are set again are kept at zero, and the ages of health and heartbeat stop
at their periods.

**The core.** `EmbeddedCore` keeps of the estimator what the code keeps beside its
numbers: whether it is initialised and healthy, which sources it has seen, and the age of
each. What the filter says of each kind of observation in a frame (accepted, outside the gate,
out of range, broken) is a choice; several landmarks in a frame are one, since only the worst
answer and whether any was accepted are used. Of where the estimate is, the controller's model has the set
of waypoints whose acceptance region it lies in, any set at any step. Steering is counted in
steps, the desired angle is any. `seen` observes what the code has no record of: true
silences of the sources, the waypoints entered, arrival, and refused routes.

**The board.** Of the session, `Board` has the transmit queue and what may happen to it
in one call of `feed`; a frame is its size. Of what the diagnostics report it has
whether it changed since it was last reported, except for the last write: the
report itself changes that, so it is kept. It is the build of `platformio.ini`, with
`NAVBENCH_SERIAL_DIAGNOSTIC`, which does not call `tick`.

**The loop.** `ClosedLoop` is deterministic once its scenario (fault windows and
the step of a manual stop) is chosen, as the code is: `cil.py` is one thread and
the native controller answers each call before it returns. `run` is a record of
session, link and controller; each part of an iteration is an operator on it, in
the order of the code: clocks and link faults, reconnection, manual stop,
exchange, freshness of the answers, command guard. A step is one unit of time. A
send that raises ends the run (`failed`) before its step is recorded. The estimator stays
healthy there, so that only the link decides whether the vehicle may drive. Of
several landmark observations that are due in a step, `_sensor_payload` sends
one, at a place the step decides (PROTOCOL_V1.md:130-132 speaks of one packet
for each); the model does what the code does.

**The bench.** The line of `Bench` holds, in either direction, what it was given
(`out`, `in`); `torn` and `cut` say that the controller has half a frame. The
bench and the controller take turns once a period; in a period of trouble one of
six things is wrong (`Weather`).

**The files.** Every record is flushed, so killing the process loses nothing
written; a loss of power may leave of each name anything it has been since it was
last safe (`was`), because the code fsyncs files but not directories, and of
each record file any length from the fsynced one on, with whole rows, a part of one, or, in a table,
one that lacks the end of its last field and passes for a row (`tail`); somebody may later cut a file in the same ways (`damaged`). `Verdict` is what
`RunReplay` without `allow_incomplete` and `_run_artifact_status` make of a
directory, `Passed` what `inspect_campaign` makes of the campaign. What a run is
worth is a choice, and so is whether the comparison of the modes is favourable.

**The wire.** A field is one cell whatever its width, a cell a byte with
values up to `TopCell`, a CRC two of them; so COBS blocks, delimiters and CRC work as
in the code. As there (the code relies on fewer than 254 bytes), a packet always fits
one COBS block of the greatest length. `Wire` is about any checksum, a constant operator
`Crc`; `Checksum` is the code's, for bytes of `ByteBits` bits. It is bitwise, which the prover
has no theory of, and only `NoiseIsDetected` depends on it.

`MC...` modules fix constants. Definitions named `Slip_...` are not the code:
each is a plausible slip of the definition after it, and substituting it makes
the property it is listed with in `PROJECT.json` fail.

## 4. Runs

| run | configuration | states | shows |
|---|---|---|---|
| `runtime_core` | `MCRuntimeCore.cfg` | 138 thousand | `WatchdogHolds`, `BlindnessBounded`, `ImplementsFsm`, `SilentHostStops` |
| `scheduler` | `MCScheduler.cfg` | 2400 | `ReleasedInTime`, `OnGrid`, `Harmonic` |
| `session_output` | `MCFirmwareSession.cfg` | 422 thousand | `DrivesOnce`, `RouteWhole`, `BundlesWhole`, `NoDriveOnceStopped`, `ImplementsFsm`, `StopKeepsBeingReported` |
| `session_input` | `MCSessionInput.cfg` | 700 thousand | `HostSilenceBounded`, `FusedInOrder` |
| `session_corrupt` | `MCSessionCorrupt.cfg` | | violates `CorruptInputHarmless` |
| `closed_loop` | `MCClosedLoop.cfg` | 190 thousand | `StopReachesPlant`, `ManualStopHolds`, `CommandsInOrder`, `RunCompletes`, `SessionRecovers`, `SensorFaultContained`, `SamplesLogged` |
| `artifacts` | `MCCampaign.cfg` | 2.2 million | `VerdictSound`, `AcceptanceSound`, `SafeBeforeSealed`, `CampaignReports` |
| `wire` | `MCWire.cfg` | 25 thousand | `CleanFrameArrives`, `MessageSurvives`, `OneEncoding`, `NoiseIsDetected` |
| `bench` | `MCBench.cfg` | 565 thousand | `WatchdogCertified`, `GoodPasses`, `HandshakeRecovers` |
| `core` | `MCEmbeddedCore.cfg` | 118 thousand | `ModeIsFresh`, `WaypointsInOrder`, `FinalStopHolds`, `ImplementsCore` |
| `core_refused` | `MCCoreRefused.cfg` | | violates `RefusedRouteHarmless` |
| `board` | `MCBoard.cfg` | 206 thousand | `FramesWhole`, `BeaconReturns`, `StateReported` |

Types are not checked by runs: `TypeOK` of the five modules that state it is proved, and
that of `Wire` is stated and proved in `Wire_proofs` (section 5). The configurations of the controller and of the wire check for deadlock: time can
always pass, or the loop can always tick. An experiment, a campaign and a bench
end, so theirs do not.

**Bounds.** The clock of `runtime_core` has eight values, with timeouts of 3 and
2 and at most 2 between ticks: a tick can fall before, on and after each
deadline, and the counter wraps several times between any two events. An
overflow threshold of 2 lets one overflow pass. `scheduler` uses periods 3 and
6, the control and health periods in miniature, on a counter of 32 that
neither divides, polls up to more than two periods late, and a HELLO up to 8
after boot. In the session runs the clock is coarse: one tick of it is a control
period, health comes every second one, and the loop never misses one, since
lateness and wrapping are the business of the two runs above. `session_input` has no navigation, since frames and not driving are its subject, so that its bound
on the host's silence is met in READY only (`SilenceCorrect` proves it for every mode), and
a release every second tick only, so that frames wait for it in the queue and the
bound on the host's silence counts releases. The transmit
queue has 4 places, just what the largest bundle (command, estimate, health,
heartbeat) needs, so that every way to overflow it is a few steps long; the
code has 8. The sensor queue has one place, or two in `session_input`, the
least that shows frames waiting for each other. Sequence numbers and step
ids run modulo 3 (8 in `session_input`, whose steps 7, 0 and 1 lie within half of that range and straddle the wrap) with reorder window and lag 1, so that
forward, behind, stale and wrapped all occur. Each run feeds only the packets that bear on
its question, which `MCFirmwareSession.tla` lists; all of them open sessions
again at any time, in any state, and meet frames that the parser refuses. The
route of `session_output` has two chunks, so that each of them can be lost, repeated,
or followed by a chunk of another route; routes that the controller refuses, and
chunks that abandon the assembly, are left to the proof of `RouteWhole`, which is
about any packets.

`closed_loop` runs 40 steps with both timeouts of five steps, as at ten a second. A command may be
three steps old, as at thirty (`cil.py:168`), so that an older one can take over. There are windows of loss, corruption, replay,
disconnection and delay (shorter and longer than the timeouts and than the lag the
controller accepts), alone, in overlapping pairs, and together with late or missing
sensors, each with a manual stop early, late or never: all recoveries fit, and
every pair of causes can overlap. The four sensors are sampled every step (IMU), every second (wheel speed), third (GNSS) and
fourth (landmarks), and each of them may be late or missing: the IMU by as much as a sample may be (12 steps), by one more and by three
more. Fifty scenarios more (`Delayed`) hold packets of a session up beyond
its end: in some HELLO meets them and is not given up, in others an older command takes over. The transmit capacity is the code's 8, the
sensor queue's its 4. `artifacts` has two runs of two record files, one
record each, one of them a table and one JSON, and one loss of power or damage at any time: two runs are the least
in which one can fail and the next go on, two files the least that can differ in
what was lost; the proofs lift all these bounds. `wire` sends messages of all ten types,
zeros and the largest payload among them, in reads of five bytes
or all there are, and hits one byte. Its CRC of 12 bits detects every
single change of the kind; two and more are the business of the CRC's
distance, not of this code. `bench` allows seven periods of trouble of any kind at any
time and a controller that is up at once, after three periods or only after the
first timeout; timeouts are a fifth of the real ones, in the same order to each other.
Seven are longer than each of the timeouts: enough to lose a HELLO, its repetition and an answer; to hold a HELLO
until it is repeated, so that both are answered; and to keep the controller without its host before the exchange is judged.

`core` has every source, alone or with another, with every answer of the
filter, timeouts of one unit and silences of up to two, on a clock of four: fresh, just
late and longest silent all occur for each source, in every combination; and three
waypoints, the least with one in the middle. Steering, which only `core_refused` is
about, is held at zero. The proofs lift it to any size. `QuietAssumption` is the one restriction: no source that was seen is silent for the range of
the counter, 49.7 days. After that the age starts again from zero, and for one timeout
the source counts as fresh; the code has no defence, and none is claimed. `board` has a queue of one, replies of one
unit and reports of a chunk and a half, so that a frame takes one or two writes at
least and the queue overflows while a frame is under way; the port takes any part of
each write, or nothing. The two periods differ, and both are at least the longest loop.

**Fairness.** `RuntimeCore!FairSpec` says that time passes and that `tick` is
called for ever: `loop()` of `main.cpp` has no way out. `FirmwareSession!FairSpec`
says that time advances without end; since an open session is never left without
a tick for longer than `MaxGap`, this forces ticks; and weak fairness of
`PopFrame` says that the loop keeps transmitting. Neither promises a packet
from the host. `Campaign!FairSpec` says that a process that is not killed goes
on with its next step; recording is not part of it, since a run may at any
time have no more to record. `MaxGap` itself stands for the longest iteration of the loop,
which performs a bounded amount of work. `Board!FairSpec` says that `loop()` is called
for ever and that the clock runs. That nothing more comes in and that the port
takes what it is offered are hypotheses of `BeaconReturns` and `StateReported`, not fairness.

### What the two violations say

* `session_corrupt`: PROTOCOL_V1.md promises that corrupt input does not change
  the safety state. Each refused frame is answered with an error, error frames
  fill the transmit queue, and a full queue is a queue overflow, which latches
  SAFE_STOP. Nine two-byte frames in one read of 64 bytes suffice, even before
  HELLO. The effect is a stop, which is the safe side.
* `core_refused`: a route that is refused is to change nothing, but
  `ControlSystem::set_route` resets the steering reference and the speed integral
  before it asks whether the route is valid. The old route stays in force, and the next
  command steers within the rate limit of zero, not of the command before. The codec
  accepts what the route manager refuses (a target speed above the maximum), so such a route
  gets that far. `FinalStopHolds` shows that the final stop, at least, survives.
### Where the properties have conditions

The properties below are stated with a condition that the code makes necessary. The
conditions are no flaws of the model: each names something the code does.

* `ReleasedInTime` and `HostSilenceBounded` are about a HELLO within half the range of
  the counter. The scheduler is started at boot and polled from HELLO on; a
  HELLO more than 24.9 days after the first release was due meets deadlines that read as
  future. No control release happens then, sensor frames are not consumed and the
  watchdog is not evaluated until the counter comes round. `WatchdogHolds` is
  accordingly stated relative to ticks.
* `HandshakeRecovers` excepts a HELLO that is not given up in time
  (`HelloDeadline`). `session.py` says that the local timeout bounds the wait for the
  answer, but it is restarted by any packet that the new session's tracker
  accepts. If the HELLO reached the controller and the answer was lost, the
  controller's session is open and its health reports keep arriving, so HELLO is
  neither given up nor repeated. `HandshakeRecovers` shows that this is the only
  way for a handshake to fail on a line that has been calm long enough.
* `SessionRecovers` has the same exception in another guise (`Misled`). The loop connects again as soon
  as no fault is in force, when packets that a spike held back may still be under way. One
  that arrives between HELLO and its answer seeds the new tracker with a sequence number of the old session;
  the answer, number 0, is refused as older, and so is all that follows until the numbers catch
  up. If they do within the timeout, HELLO is never given up and never
  answered: a loss until step 7 and a spike of one step over steps 5 to 8 suffice. Without a delay
  the session always recovers, and so it does with one unless it is misled.
  Delays that last, together with windows that end late, may not come to rest within the 40 steps of the run: what
  recovers later than that is not judged.
* `SensorFaultContained` excepts an IMU that is later than a sample may be (`ImuInTime`: 12 steps). It is sampled at every
  step, so every frame carries one that is refused, no frame is accepted, and the watchdog stops the
  controller as it would for a silent host. The other sensors may be late by any number of steps, since enough frames go without them.
* `VerdictSound` and `AcceptanceSound` except a table cut inside the last field of its last row by somebody
  else (`LastFieldCut`). A strict reader counts rows (`runlog.py:674-690`), and a CSV row with a shorter number, or a
  shorter name, is still a row (`runlog.py:571-643`): the count is right, the run passes for
  complete, and a part of that field is gone. A cut that takes a field or more, or any part of a JSON line, is noticed. A loss of power
  cannot do it: the rows are safe before the manifest says complete (`SafeBeforeSealed`).
* `WatchdogCertified` says of the cause of a stop only what the evidence, a stop in a command or a health
  report, can tell. It carries no cause, although `hardware.py:791` reports "watchdog SAFE_STOP verified". A burst of held frames that
  overflows the controller's sensor queue stops it too, in the silence or so shortly before the
  judgement that the answers do not tell yet; so does the watchdog, if the host itself was held up for as long as the timeout
  before the silence began. Both happen in the run, and `WatchdogCertified` shows that nothing else does.
* `CommandsInOrder` lets an older command take over in a new session (`Superseded`). The new tracker knows no
  step, and a command that was delayed counts as fresh for `command_timeout_steps`: if a command of step 8
  was heard while the old session was already timed out, the delayed one of step 7 replaces it after
  HELLO. It stays below the command timeout, and no document says more.
* `ModeIsFresh` counts a source as fused that was only noted (`Noted`): `predict` notes
  the gyro as seen before its gate is asked, and an observation outside its gate does
  not make a frame fail. With wheel speeds, a gyro that is always rejected keeps the
  mode at dead reckoning, although MODEL_EKF.md speaks of accepted observations.
* `StateReported` is about a line that came to rest. The reports have a fixed order of
  priority and share one slot of 250 ms: while bytes keep coming, reception has changed
  whenever the slot is free, and no other category is reported.

### The properties

* `WatchdogHolds`, `HostSilenceBounded`: no driving without the host. The first
  is about the runtime alone, in true time against wrapped timestamps; the second
  is end to end. A queued sensor frame refreshes the watchdog when it is
  processed, so the bound is the timeout, plus the time a full queue takes to
  drain, plus one more step: the watchdog runs in steps of the core only, and the
  time between two of them is a control period and what the loop is late.
* `BlindnessBounded`: no driving without navigation for longer than the grace
  period, whatever the order of modes.
* `SilentHostStops`, `StopKeepsBeingReported`: a silent host is answered with a
  stop, and the stop is reported for ever, also if an overflow discarded its
  announcement.
* `ImplementsFsm`: `RuntimeCore`, and the session that drives it, implement
  `SafetyFsm`: latched stops survive overflows, faults, stop packets and HELLO.
* `NoDriveOnceStopped`: an output computed before an overflow is never sent
  after it. `BundlesWhole`: the host can pair each command with its estimate.
  `DrivesOnce`: the speed integrator advances once a millisecond at most.
* `FusedInOrder`: each sample given to the estimator is newer than the last of its
  sensor, so none is given twice or out of order, across sessions and across the wrap of the step counter.
* `RouteWhole`: the controller's route is one route, whole.
* `StopReachesPlant`, `ManualStopHolds`, `CommandsInOrder`: a stop that the
  controller latched, or that was asked for and lost on the way, keeps the plant
  from driving within a bound, whatever the link replays or delays; the plant
  never goes back to an older command of the same session, and to one of a session before only within
  the command timeout.
* `RunCompletes`, `SessionRecovers`: no fault of the link ends a run with an
  exception, and after the last one the session comes back, in step with the
  controller, unless a delayed packet took the place of the answer to HELLO.
* `SensorFaultContained`, `SamplesLogged`: samples that are late or missing never cost so many frames
  that the controller stops, as long as those of the IMU are no later than a sample may be; and every sample is accounted for.
* `VerdictSound`, `SafeBeforeSealed`, `AcceptanceSound`: complete means complete
  and accepted means accepted, after any crash, loss of power or failed write, and after
  later damage but for a table cut inside its last field. `CampaignReports`: a failing run does not end the campaign.
* `CleanFrameArrives`, `NoiseIsDetected`: the parser resynchronises at the next
  delimiter and takes nothing for a packet that was not sent.
  `MessageSurvives`, `OneEncoding`: encoder and decoder have the same idea of
  every message. A heartbeat is excepted: its reserved bytes are not looked at.
* `WatchdogCertified`: the bench certifies only a controller that has stopped, and, with the exceptions
  above, only one that stopped in the silence and because of it: a late frame, or the report of
  an earlier stop, is not taken for the reaction of the watchdog. `GoodPasses`, `HandshakeRecovers`: a
  good controller on a calm line passes, also when it boots late.
* `ModeIsFresh`: the navigation mode is read off wrapping ages of an estimator that is
  copied, tried and thrown away; it never claims a source that was not fused, in a frame
  taken as a whole, within its timeout.
* `ImplementsCore`: estimator, controller and runtime together do what `Core` lets the
  session expect; a failed update that left its trace in the estimator's health or
  initialisation would break it.
* `WaypointsInOrder`, `FinalStopHolds`: progress belongs to the route and not to the
  drive; stops, gaps of navigation and refused routes neither skip a waypoint nor
  take the final stop back.
* `FramesWhole`: frames leave the port whole, one after the other. `BeaconReturns`,
  `StateReported`: the reports come to rest, everything reported, and the beacon
  returns for a host that opens the port late, though each report changes what there
  is to report.
* `ReleasedInTime`, `OnGrid`, `Harmonic`: the scheduler's releases. The last
  matters because the session drops a health release that comes without
  a control release.

## 5. Proofs

`RuntimeCore_proofs.tla` proves, for every clock size, timeout, grace period,
threshold and gap that satisfy the named assumptions, that `Spec` implies
`[]TypeOK`, `[]WatchdogHolds`, `[]BlindnessBounded` and `ImplementsFsm`.

`WatchdogHolds` is not inductive: it says nothing about the wrapped age that the
watchdog really compares. The invariant `IInv` adds the relation between the two.
`SilenceMeasured` says that while the host counts as connected and no stop is
latched, the age in the record equals the true silence, which is at
most the timeout plus the time since the last tick, hence below the clock size;
`BlindnessMeasured` says the same of the navigation timer, and that in DEGRADED
it runs exactly during the runs of ticks without navigation; `Connected` says
that the machine never drives before the host was seen. `GapAssumption` (timeout plus gap below the
clock size) is where wrapping is excluded: a tick comes before the age can wrap.
Each action preserves each part, one step per action; the refinement follows
from type correctness and a case analysis of `Ticked`.

`FirmwareSession_proofs.tla` proves, for any packets that are well-typed
(`PacketAssumption`) and queues of any length that hold a bundle, that `Spec` implies
`[]TypeOK`, `[]RouteWhole`, `BundlesWhole`, `NoDriveOnceStopped` and
`ImplementsFsm`; and, if one overflow is a stop (`OverflowThreshold = 1`, as
`RuntimeConfig::defaults` has it), `[]DrivesOnce`. The hypothesis is needed: with a greater
threshold the output that is decided again after an overflow may step the
controller a second time. Of these only `TypeOK` and what `Session` says of the fields
is inductive. `RouteOK` adds that the buffer holds the route under assembly from its first
waypoint up to what was received, whatever else it holds from routes before;
`DrivesOK` that a controller that was stepped has left its mark (`stepped`).
A handler is a chain of operators on the record, an error reply in the middle
of it may drop the queue and latch a stop, and so each operator has a
lemma that says how it relates the session before to the one after: `Quietly`, if
it leaves route and decision alone, `Orderly`, if it may change the route, `Stepped`,
for a whole call. The three compose. `NoDriveAdded` and `NoOrphanAdded`, part of all
three, are what `NoDriveOnceStopped` and `BundlesWhole` follow from, since a
set of places in the queue that does not grow has no more elements.
`Sent` follows the frames of one bundle: `Room` was asked before the first, so none
of them overflows. The lemmas on the functions of the runtime are in
`Timing_proofs.tla`, which all modules of proofs about the firmware share.

`Campaign_proofs.tla` proves, for any number of runs, record files, records and
losses, that `Spec` implies `[]TypeOK`, `[]VerdictSound`, `[]AcceptanceSound` and
`[]SafeBeforeSealed`. `VerdictSound` is not inductive, for a loss of power may bring
back any manifest a name ever had. `DirectoryOK` is about one directory: every
manifest in `was` that says "complete" carries the counts of all records
taken, exists only from the stage on where no record follows, and only when every
file is fsynced as far as it goes; no file holds more than was recorded. A torn row is only where a row is missing, and one that passes for whole in a table whose
manifest says complete is the work of somebody else.
So a file that matches its count is whole, or lacks the end of its last field and is a damaged table
(`CountsKeep`), and what power leaves of it is no shorter.
There is a lemma for each operation of `RunLog`, for what power may leave
(`LeftOK`) and for damage, which takes records away but gives none back (`DamagedOK`).
`CampaignOK` says the same of the campaign's own summary: it says "passed", now or
after a loss, only if every run was noted complete and a success, and the notes
are final by then. Each action of `Campaign` then chooses one operation and
one run. The constants are assumed to be natural numbers, with at least one run.

`Scheduler_proofs.tla` proves, for any tasks, periods and clock, that
`[]TypeOK`, `[]ReleasedInTime`, `[]Harmonic` and `OnGrid` hold if the scheduler is
`Punctual`: the longest wait for HELLO and the longest gap between two polls are
together less than half the counter. The condition is a hypothesis of each
theorem and no assumption of the module, since without it `ReleasedInTime` is false:
an overdue lead reads as one to come. None of the properties is inductive, because a
lead is only a residue. The proof reads each lead back as the signed lateness
the scheduler takes it for (`Late`), and the invariant says that this is the
true one: the time since the last point of the grid plus a whole number of periods,
at least minus one (`OnTrack`); never less than the time a task has waited
beyond its period (`Waits`); and, when one period divides another, never greater
for the multiple (`InStep`), which is what `Harmonic` rests on. `Punctual` enters in
`NeverHalfway`, and the lemmas of `Timing_proofs.tla`, on
division and on what a lead, time and a poll do, carry the arithmetic.

`FirmwareSession_proofs` goes on to prove `[]HostSilenceBounded` from both: the invariant of the
session and the same lemmas of `Timing_proofs`. The hypothesis `Timely` is that HELLO and the
loop come within half of the counter, as above, and that the timeout and the time
between two steps of the core fit into it. The bound is not inductive, for it does not say
how much of the allowed time is already used up. Two parts make it so. `OnTime`
is about the scheduler inside the session: the lead of the control release, read as
signed lateness, is the true one, so that `ToStep`, the longest the next
step may still take, is a number the next advance and the next poll cannot exceed.
`Measured` follows the silence through the queue: with `k` frames waiting, the time since the host was
heard and `ToStep` together fit into `SensorCapacity - k + 1` steps; once the queue is empty, the age that the watchdog
compares is at most a full queue behind the true silence, and it is within the timeout
unless a step is due. Each operator of the session is given its effect on this: `Waiting`
leaves the clocks alone, `Stopping` latches a stop, `Refreshed` hears the host, and `Serviced`
takes one frame, or finds the queue empty and asks the watchdog.

The last part of `FirmwareSession_proofs` is `FusedInOrder`, for steps that lie within some half
of their range, wherever it begins and whether or not the counter wraps in it (`WithinHalf`): the signed comparison of step ids is no order beyond
that, so nothing is claimed there, and the run takes its steps from such a half too. Within it "newer" is the
order of the distances from where the half begins (`NewerIsAfter`). A frame is admitted if its samples are newer than
the last ones queued, and those may be gone with their session; so `Ordered`
relates three things: what was fused last is not newer than what was queued last, what
waits lies between the two, and the queue is in order, sensor by sensor. A frame that is taken from the queue
is then strictly after what was fused, also when the same step comes again.

`EmbeddedCore_proofs.tla` proves, for frames of any kind, routes of any length and any limits
of the steering, that `Spec` implies `[]TypeOK`, `[]ModeIsFresh`, `[]WaypointsInOrder`,
`[]FinalStopHolds` and `ImplementsCore`. Neither of the first two is inductive: `Sound`
adds that an estimator is healthy exactly when it is initialised, which is what `Core`
takes for granted and holds because a candidate that breaks is not kept; `Tells` that
the age of a source that was seen is its true silence, where `QuietAssumption`
comes in; `StopKept` that arrival is remembered as the latch, with the last waypoint
active and the target zero. Each of the two ways of fusing a frame (`FusedCases`) and the
controller's step has its lemma. The refinement is a case
analysis of the actions: each of them is one of the disjuncts of `CoreAllows`.

`Wire_proofs.tla` proves, for bytes of any width, payloads of any limit, any messages, any noise
and reads of any size, `[]CleanFrameArrives`, `[]MessageSurvives` and `[]OneEncoding`. The one
hypothesis is `CrcFits`: the checksum of any bytes fits in two bytes, as 16 bits do.
Three facts about operators carry it, each a theorem. `MessageRestored`: every message of
the ten payload classes that the encoder accepts is decoded to itself, field by field. `PayloadHasOneMeaning`:
what is decoded is encoded to the same bytes again. Both rest on a few lemmas about joining
and cutting sequences of cells (`Joined`, `Part`, `PartIs`, `Rejoined`) and, for route chunks and
health, on what `FlattenSeq` does to groups of four. `FrameHolds`: COBS undone gives
the bytes back and their packet alone. COBS and the parser are folds,
and a fold is induction over data; it is done here on a set of numbers (`SetInduction`), and
`CobsSteps`, `UncobsSteps` and `FedSteps` turn each fold into the states it passes through. `Encoding`
then says what the encoder knows after `i` bytes (the codes behind it are right, the block
it is in has no zero yet), `Decoding` what the decoder does, which is one byte behind.

None of the three invariants is inductive. `Underway` adds where an untouched frame is: some
`k` bytes of it are in the parser and the rest is in flight, or all of it was read and the
packet is received. `Parted`, that after a delimiter the parser holds nothing, is why noise
does no harm to the next frame; `Said` relates the packet under way to the message; and
`Heard`, in `TypeOK`, says that a received packet is one some encoded bytes hold.
TLC has checked `Underway`, `Parted` and `Said` on the `wire` run.

`ClosedLoop_proofs.tla` proves, for any faults of the link and the sensors, any timeouts, route,
queues and sensors, `[]StopReachesPlant` and `[]SamplesLogged`; and, if half of the step ids suffice for the
run (`2 * StepCount < SeqSize`, 2^31 steps), `CommandsInOrder`: beyond that the signed comparison of step ids is no
order. If the route fits the transmit buffer and the run stays within half of the sequence numbers, it proves
`[]RunCompletes` (below). What it takes for granted of the constants
is a configuration the controller has accepted (`ControllerAssumption`).

`StopReachesPlant` says nothing of where commands may be: in the link, delayed or kept for a replay;
answered and not yet read; ready for the host; or with the host already. `StopInvariant` is about all of
them: once the controller has been stopped for `a` steps, every drive command that is under way is for a step
more than `a` before the next one (`Bygone`), and so is the one the host holds (`Behind`). One iteration
falls into two halves. Until the exchange (`Early`), nothing that reaches the
controller can make it drive with the step `k` of this iteration (`Fits`): it is no sensor frame of step `k`,
or the release of the controller has been used up (`Idle`), because `Drained` frames and
ticks carry the step of what they were called with. In the exchange (`Late`), a drive of step `k` is there
only if the controller was not stopped before, and none comes after its stop (`Lawful`).
The session is followed through its handlers as in `FirmwareSession_proofs`, but with its answers; the link,
the polls of the host, the chunks of a route and the folds over them all are one pattern, a fold whose partial results
keep a predicate, which `SetInduction` turns into a fact about the whole (`DeliveredRuns`,
`ShapedRuns`, `PacketsRun`, `CommandsRun`). For `CommandsInOrder` the same invariant says how old things are: all that is under
way is numbered and of no later step than this one (`Dated`), and so is what the host's tracker remembers
(`Remembers`). Within a session the tracker's step only moves on, and every command that the host takes is at or after it
(`InStep`); the command that is kept is the one before, or one of these that is fresh
(`LastIsOneOf`). If the tracker has not seen a later step, that is no step back; if a new session has made it
forget, freshness still bounds it (`LastIsBehind`). `SampleInvariant` is a balance: of each sensor, what was generated
was delivered, or dropped, or is pending.

`RunCompletes` says that no exception leaves `run_closed_loop`: the loop never sends to a session that is not
active, and no frame of the controller, however late, damaged or often it arrives, is an error of the session.
Neither is a matter of one step. The tracker of the host accepts a frame of the right type that its signed comparison takes for
newer; a second answer to HELLO in an open session is an error if it is accepted, and what keeps it from being accepted is its number, 0,
which is older than whatever was heard since. So the numbers must not come round, and `Within` counts them: the
controller's counter, and for each frame that the link has delayed on its way to it, and each the host still has to send, what
one call may send (`Weight`, at most two full queues), are within a bound. Every frame under
way to the host is below that bound, and an answer to HELLO has number 0 (`Heeded`). `Attentive` says of the session that it has heard a
frame and is active, stopped or timed out, or waits for its first; with what `Heeded` says of the frames it goes on so. `RunInvariant` puts
the two together, with nothing left in the transmit buffer and a bound that grows with the step
(`Budget`); each part of an iteration (`LinksWithin`, `ConnectsWithin`, `BeginsWithin`, `StopsWithin` and the
exchange) preserves `Going` and adds what it costs. The hypotheses are
`RouteChunks <= TxBuffer`, since the whole route is sent at once and an overflow of the buffer is an error
(`session.py:380`; the 32 waypoints that a controller takes are 7 chunks, far less than 4096 bytes), and
`4 * TxCapacity * (RouteChunks + 4) * (StepCount + 2) < SeqSize`: with 2^32 numbers, a queue of 8 and 7 chunks, 12 million
steps. The bound is generous: it counts full queues where a call sends a few frames. The `closed_loop` run fulfils both
(`SeqSize = 16384`), so that TLC and the proof speak of the same runs.

TLC has checked all three invariants on the `closed_loop` run.

Only model-checked: everything about `Sequence`, `Bench` and `Board`, and of `ClosedLoop`
`ManualStopHolds`, `SessionRecovers` and
`SensorFaultContained`. Their arguments run over many steps and over the numbers of the configuration:
`SensorFaultContained` holds because enough frames carry no sample of the late sensor, which is a
matter of the periods; the bound of `ManualStopHolds` sets the rate at which the controller takes frames from its queue
against the delays of the link, with replays and a new session in between.
Out of the prover's reach, and left to TLC: the liveness properties `SilentHostStops`,
`StopKeepsBeingReported`, `CampaignReports`, `BeaconReturns` and `StateReported`; and
`NoiseIsDetected`, which is about the distance of the CRC: for another checksum it is false.

## 6. Not modelled

* The numbers: the geometry of guidance, PI control, the Kalman filter (`control.cpp`,
  `ekf.cpp`, `reference.py`), the vehicle, sensor noise and metrics are floating-point code.
  Where their outcome matters (what a gate says, where the estimate is, success of
  a run) it is a free choice; the speed integral and the NIS statistics are left out.
* The C++ twin of the codec and the field widths and float formats of both;
  `Wire` is the Python side.
* The HMI (`hmi.cpp`, `arduino_hmi.cpp`): blink patterns, display lines and pins that
  nothing in the control path reads back.
* Ports, processes and discovery (`native.py`, the serial diagnostic of
  `hardware.py`), reporting, plotting, configuration parsing (`scenario.py`,
  `__main__.py`), and `tools/verify.py`: I/O without concurrent state.
* `replay_native_run` and the rows of a run log: the order of records in a replay
  is that of the files.
* In `HostSession`, the transmit buffer counts frames, not bytes, and no run
  fills it, since both transports take what they are given sooner or later; the
  negotiated payload limit is met by every packet the host sends.

Next steps for a project that grows: the timing statistics of the scheduler, the
speed integral (anti-windup against refused routes and stops), and the HMI's servo.

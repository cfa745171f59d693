---------------------------- MODULE ClosedLoop ----------------------------
(***************************************************************************)
(* run_closed_loop (src/host/src/navbench/cil.py): the lockstep of plant,  *)
(* host session, faulty link and controller.  One action is one iteration  *)
(* of the loop.  The host is HostSession, the link FaultLink, and the      *)
(* controller FirmwareSession behind NativeFirmwareTransport (native.py),  *)
(* which answers every call with all the frames it has; the samples come   *)
(* from SensorPipeline.                                                    *)
(*                                                                         *)
(* The loop is sequential: what is open is the scenario, that is, which    *)
(* faults strike when, and when a stop is asked for.  A step of the        *)
(* scenario is one unit of time.  The estimator stays healthy and every    *)
(* frame that reaches it is accepted, so that only the link decides        *)
(* whether the vehicle may drive.                                          *)
(***************************************************************************)
EXTENDS HostSession, FiniteSets

CONSTANTS
  HostTimeout, UnavailableGrace, OverflowThreshold,     \* the controller's
  ClockSize, Task, Period, MaxLag, TxCapacity, SensorCapacity,
  HealthPeriod, HeartbeatPeriod,
  StepCount,        \* the last step of the scenario
  CommandTimeout,   \* command_timeout_steps
  RouteChunks,      \* how many chunks the route takes
  SensorOrder, SamplePeriod, Latency, Landmarks,   \* of the sensors
  FaultSets,        \* the sets of fault windows to choose from
  StopAt            \* the steps a manual stop may be asked for at, or none

ASSUME ClosedLoopAssumption ==
  /\ StepCount \in Nat /\ CommandTimeout \in Nat \ {0}
  /\ RouteChunks \in Nat \ {0}
  /\ \A f \in UNION FaultSets : f.from < f.until /\ f.delay \in Nat
  /\ SensorOrder \in Seq(ToSet(SensorOrder))
  /\ SamplePeriod \in [ToSet(SensorOrder) -> Nat \ {0}]
  /\ Latency \in [ToSet(SensorOrder) -> Nat]
  /\ Landmarks \subseteq Nat

(* The configuration the controller has accepted.                          *)
ASSUME ControllerAssumption ==
  /\ UnavailableGrace \in Nat \ {0} /\ OverflowThreshold \in Nat \ {0}
  /\ HostTimeout \in Nat \ {0} /\ ClockSize \in Nat \ {0}
  /\ TxCapacity \in Nat /\ TxCapacity >= 4
  /\ SensorCapacity \in Nat \ {0}

VARIABLES
  scenario,   \* the faults, and the step of the stop
  step,       \* step_id of the next iteration
  run,        \* session, link and controller, between two iterations
  sensors,    \* the sensor pipeline
  last,       \* last_command and last_command_step_id
  stopSent,   \* manual_stop_sent
  driven,     \* what the plant is given: the mode of the effective command
  failed,     \* an exception has ended the run
  latchAge,   \* observed: steps since the controller latched a stop
  stopAge     \* observed: steps since the operator asked for one

vars == <<scenario, step, run, sensors, last, stopSent, driven, failed,
          latchAge, stopAge>>

L == INSTANCE FaultLink
S == INSTANCE SensorPipeline
K == INSTANCE Controller WITH Sensor <- S!SensorKind

-----------------------------------------------------------------------------
(* What the host sends.                                                    *)
Hello == [type |-> "Hello", step |-> 0, ok |-> TRUE]
SensorFrame(k, samples) ==
  [type |-> "Sensor", step |-> k, ok |-> TRUE,
   samples |-> S!SensorPayload(samples, k)]
ManualStop(k) == [type |-> "SafeStop", step |-> k, ok |-> TRUE]

(* _send_scenario_route and send_route: the first chunk clears the route,  *)
(* the last one completes it.                                              *)
RouteChunk(k, i) ==
  [type |-> "Route", step |-> k, ok |-> TRUE, id |-> "scenario",
   start |-> i - 1, count |-> 1, total |-> RouteChunks, clear |-> i = 1,
   final |-> i = RouteChunks, bad |-> FALSE]
Route(k) == [i \in 1 .. RouteChunks |-> RouteChunk(k, i)]

-----------------------------------------------------------------------------
(* The link with its two ends: the frames the controller has answered and  *)
(* nobody has read yet, and those the link has ready for the host.         *)
Unconnected ==
  [host |-> Disconnected, tx |-> L!Quiet, rx |-> L!Quiet, ctl |-> K!Booted,
   fault |-> L!Healthy, now |-> 0, answered |-> <<>>, ready |-> <<>>]

Answered(r, call) ==
  [r EXCEPT !.ctl = call.ctl, !.answered = @ \o call.out]

Delivered(r, frames) ==
  FoldLeft(LAMBDA q, frame : Answered(q, K!FeedCall(q.ctl, frame)), r, frames)

(* The session hands what it has to send to the link at once.              *)
Taken(r, shaped) ==
  Delivered([r EXCEPT !.tx = shaped.dir, !.host.tx = <<>>], shaped.out)
Flushed(r) == Taken(r, L!Shaped(r.tx, r.now, r.fault, r.host.tx))

Tuned(r, k, fault, link) ==
  Delivered([r EXCEPT !.now = k, !.fault = fault,
                      !.tx = link.tx.dir, !.rx = link.rx.dir,
                      !.ready = @ \o link.rx.out],
            link.tx.out)
Linked(r, k, fault) == Tuned(r, k, fault, L!Configured(r.tx, r.rx, k, fault))

TickedCall(r, k) == Answered(r, K!Ticked(K!Called(r.ctl), k))

(* A poll of the session: all that is ready, and all that was answered.    *)
Heard(r, polled) ==
  [run |-> [r EXCEPT !.host = polled.host, !.answered = <<>>, !.ready = <<>>],
   events |-> polled.events]
Received(r) == Heard(r, Polled(r.host, r.ready))
Carried(r, shaped) ==
  [r EXCEPT !.rx = shaped.dir, !.ready = @ \o shaped.out]
Arrived(r) == Carried(r, L!Shaped(r.rx, r.now, r.fault, r.answered))
HostPoll(r) == Received(Arrived(Flushed(r)))

-----------------------------------------------------------------------------
(* _link_fault_state: overlapping windows add up.                          *)
Faulted(k, kind) == S!FaultActive(scenario.faults, "link", kind, k)

LinkFaultState(k) ==
  [loss    |-> Faulted(k, "packet_loss"),
   corrupt |-> Faulted(k, "packet_corruption"),
   delay   |-> S!FaultSum(scenario.faults, "link", "latency_spike", k),
   stale   |-> Faulted(k, "stale_frame"),
   down    |-> Faulted(k, "disconnect")]

LinkIsHealthy(fault) == fault = L!Healthy

-----------------------------------------------------------------------------
(* The parts of an iteration, each from a run to a run.                    *)
Routed(r, k) ==
  IF r.host.state = "Active"
    THEN Flushed([r EXCEPT !.host = SentRoute(@, Route(k))]) ELSE r
Greeted(r) == Flushed([r EXCEPT !.host = Started(@, Hello)])
Connected(r, k) == Routed(HostPoll(Greeted(r)).run, k)

(* The clocks, the link of this step, and a new session for one that has   *)
(* timed out, once nothing is wrong with the link any more.                *)
Waited(r) == [r EXCEPT !.ctl.fw = K!C!Waited(@, 1), !.host = Older(@, 1)]

Tended(r, k) ==
  IF r.host.state = "TimedOut" /\ LinkIsHealthy(r.fault)
    THEN Connected(r, k) ELSE r
Begun(r, k) ==
  Tended(Linked(IF k = 0 THEN r ELSE Waited(r), k, LinkFaultState(k)), k)

(* The manual stop is asked for once, whatever becomes of its frame.       *)
StopDue(k) == k >= scenario.stopAt /\ ~stopSent

Stopped(r, k) ==
  IF StopDue(k)
    THEN Flushed([r EXCEPT !.host = StopRequested(@, ManualStop(k))])
    ELSE r

(* The exchange: the samples of the step if there are any and the session  *)
(* is open, a tick of the controller otherwise, and another if no command  *)
(* came.                                                                   *)
Slip_Sends(r, k, samples) ==
  /\ ~r.fault.down
  /\ k < scenario.stopAt
  /\ DOMAIN S!SensorPayload(samples, k) # {}
Sends(r, k, samples) ==
  /\ ~r.fault.down
  /\ k < scenario.stopAt
  /\ r.host.state = "Active"
  /\ DOMAIN S!SensorPayload(samples, k) # {}

Offered(r, k, samples) ==
  IF Sends(r, k, samples)
    THEN Flushed([r EXCEPT !.host = SentActive(@, SensorFrame(k, samples))])
    ELSE TickedCall(r, k)

Also(events, second) == [second EXCEPT !.events = events \o @]
Completed(first, k) ==
  IF \E i \in DOMAIN first.events : first.events[i].type = "Command"
    THEN first
    ELSE Also(first.events, HostPoll(TickedCall(first.run, k)))

Exchanged(r, k, samples) == Completed(HostPoll(Offered(r, k, samples)), k)

(* _controller_event_is_fresh                                              *)
Slip_EventAlwaysFresh(p, k) == p.step <= k
EventIsFresh(p, k) == p.step <= k /\ k - p.step <= CommandTimeout

NoCommand == [step |-> None, mode |-> "Neutral"]

NextCommand(command, p, k) ==
  IF p.type = "Command" /\ EventIsFresh(p, k)
    THEN [step |-> p.step, mode |-> p.mode] ELSE command

LastCommand(events, k) ==
  FoldLeft(LAMBDA command, p : NextCommand(command, p, k), last, events)

(* The command guard: without a recent command the host brakes by itself.  *)
Slip_AnyCommandIsFresh(command, k) == command.step # None
CommandIsFresh(command, k) ==
  command.step # None /\ k - command.step <= CommandTimeout

HostStop == "HostStop"   \* _host_command_timeout_safe_stop
Effective(command, k) ==
  IF CommandIsFresh(command, k) THEN command.mode ELSE HostStop

-----------------------------------------------------------------------------
Scenario == [faults : FaultSets, stopAt : StopAt]

(* Before the loop: a handshake over a healthy link, then the route.       *)
Init ==
  /\ scenario \in Scenario
  /\ step = 0
  /\ run = Connected(Unconnected, 0)
  /\ sensors = S!Fresh
  /\ last = NoCommand
  /\ stopSent = FALSE
  /\ driven = "Neutral"
  /\ failed = FALSE
  /\ latchAge = 0
  /\ stopAge = 0

OfLink == {f \in scenario.faults : f.target = "link"}
MaxDelay == FoldLeft(LAMBDA sum, f : sum + f.delay, 0, SetToSeq(OfLink))
StopBound == MaxDelay + HostTimeout + CommandTimeout + 1

(* However the run ends, its session is closed.                            *)
Ended(r) == [r EXCEPT !.host = Closing(@)]

Commanded(command) ==
  /\ last' = command
  /\ driven' = Effective(command, step)

Iterate(exchange) ==
  /\ run' = IF exchange.run.host.raised THEN Ended(exchange.run)
                                        ELSE exchange.run
  /\ Commanded(LastCommand(exchange.events, step))
  /\ latchAge' = IF exchange.run.ctl.fw.rt.state \in K!C!Latched
                   THEN Least(latchAge + 1, CommandTimeout + 2) ELSE 0
  /\ failed' = exchange.run.host.raised
  /\ step' = step + 1

(* An exception in the loop ends the run before its step is recorded.      *)
Fail ==
  /\ failed' = TRUE
  /\ run' = Ended(run)
  /\ UNCHANGED <<last, driven, latchAge, step>>

Exchange(r, samples) ==
  IF r.host.raised THEN Fail ELSE Iterate(Exchanged(r, step, samples))

Iteration(pipeline) ==
  /\ sensors' = pipeline.pipe
  /\ Exchange(Stopped(Begun(run, step), step), ToSet(pipeline.out))

Step ==
  /\ step <= StepCount /\ ~failed
  /\ Iteration(S!Stepped(sensors, scenario.faults, step))
  /\ stopSent' = (stopSent \/ StopDue(step))
  /\ stopAge' = IF stopSent THEN Least(stopAge + 1, StopBound + 1) ELSE 0
  /\ UNCHANGED scenario

(* After the last step, the samples still under way are logged.            *)
Finish ==
  /\ step = StepCount + 1 /\ ~failed
  /\ step' = step + 1
  /\ sensors' = S!Drained(sensors).pipe
  /\ run' = Ended(run)
  /\ UNCHANGED <<scenario, last, stopSent, driven, failed, latchAge,
                 stopAge>>

Next == Step \/ Finish

Spec == Init /\ [][Next]_vars

-----------------------------------------------------------------------------
(* A stop the controller has latched reaches the plant within the command  *)
(* timeout, whatever the link loses, delays, repeats or corrupts: a drive  *)
(* command of before the stop is never used for longer.                    *)
StopReachesPlant == latchAge > CommandTimeout => driven # "Tracking"

(* A manual stop is effective even if the link loses it: the host falls    *)
(* silent, the controller stops by itself, and the plant with it.          *)
ManualStopHolds == stopAge > StopBound => driven # "Tracking"

(* The plant never goes back to an older command as long as the session    *)
(* lasts that it came in, whatever is delayed or replayed.  A new session  *)
(* knows nothing of the steps of the one before: there a command that was  *)
(* delayed may take over from one that is younger, but by less than the    *)
(* command timeout.                                                        *)
Superseded ==
  run.host.state = "TimedOut" \/ run.host.tracker.step < last.step

CommandsInOrder ==
  [][\/ last'.step >= last.step
     \/ Superseded /\ last'.step > last.step - CommandTimeout]_vars

(* Nothing a scenario may do to the link ends the run with an exception.   *)
RunCompletes == ~failed

(* Once the last fault is over, the session comes back and is heard.  Only *)
(* a packet that was delayed can prevent it: if it arrives between HELLO   *)
(* and its answer, the new tracker takes it for the first of the session,  *)
(* refuses the answer as older, and waits on as long as it is sent         *)
(* anything it accepts (HelloDeadline in Bench is about the same).         *)
LastFault == {f.until : f \in OfLink}
Calm(k) == \A t \in LastFault : step - 1 >= t + k
Recovery == MaxDelay + HostPatience + 2
Misled ==
  /\ MaxDelay > 0
  /\ run.host.state = "HelloSent" /\ run.host.tracker # Unseen

SessionRecovers ==
  Calm(Recovery) /\ ~stopSent /\ step \in 1 .. StepCount + 1 =>
    \/ Misled
    \/ /\ run.host.state = "Active" /\ run.host.silence = 0
       /\ K!C!Verdict(run.ctl.fw.tracker, run.host.txSeq, TRUE, step)
            \in K!C!Taken

(* Samples that are late or missing cost the frames they are part of, but  *)
(* not so many that the controller gives its host up: of a sensor that is  *)
(* not sampled at every step, however late they are; of the IMU, which is, *)
(* as long as they are no later than a sample may be, for beyond that      *)
(* frame after frame is refused and the watchdog does stop the controller. *)
ImuInTime ==
  \A k \in 0 .. StepCount :
    Latency["Imu"] + S!FaultSum(scenario.faults, "Imu", "latency_spike", k)
      <= MaxLag

SensorFaultContained ==
  OfLink = {} /\ ImuInTime /\ ~stopSent => latchAge = 0

(* Every sample that was not dropped has been logged when the run ends,    *)
(* those still under way included.                                         *)
SamplesLogged ==
  step = StepCount + 2 =>
    \A s \in S!SensorKind :
      sensors.generated[s] = sensors.delivered[s] + sensors.dropped[s]
=============================================================================

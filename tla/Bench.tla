------------------------------- MODULE Bench -------------------------------
(***************************************************************************)
(* validate_transport (src/host/src/navbench/hardware.py): the validation  *)
(* of a real controller over a serial line, from the handshake over a      *)
(* short exchange of sensor frames to a silence in which the watchdog of   *)
(* the controller must show itself.                                        *)
(*                                                                         *)
(* The host is HostSession, the controller Controller behind the loop of   *)
(* main.cpp, and the line is in order but not on time: it may hold frames  *)
(* in either direction, damage one, or take half a frame, and the host may *)
(* wake up late.  One action is one period of the bench (20 ms), in which  *)
(* the controller runs its loop and then the host polls.                   *)
(***************************************************************************)
EXTENDS HostSession, FiniteSets

CONSTANTS
  HostTimeout, UnavailableGrace, OverflowThreshold,     \* the controller's
  ClockSize, Task, Period, MaxLag, TxCapacity, SensorCapacity,
  HealthPeriod, HeartbeatPeriod,
  HandshakeDeadline,   \* _HANDSHAKE_DEADLINE_S
  FrameCount,          \* _NORMAL_FRAME_COUNT
  LagSteps,            \* _MAXIMUM_RESPONSE_LAG_STEPS
  QuietMinimum,        \* _WATCHDOG_MINIMUM_S
  QuietPeriod,         \* _WATCHDOG_QUIET_S
  BootAt,              \* the periods after which the controller may be up
  MaxTrouble           \* bound: the periods in which something is wrong

ASSUME BenchAssumption ==
  /\ {HandshakeDeadline, FrameCount, QuietMinimum, QuietPeriod}
       \subseteq Nat \ {0}
  /\ QuietMinimum < QuietPeriod
  /\ LagSteps \in Nat /\ MaxTrouble \in Nat /\ BootAt \subseteq Nat

VARIABLES
  host,        \* the session
  torn,        \* the line has taken a part of the frame the session sends,
  cut,         \* or of one that the session has given up
  out, in,     \* the frames on the line, to the controller and back
  ctl,         \* the controller, which is deaf until it is up
  boot,        \* the periods until then
  phase,       \* how far the bench has come
  age,         \* the periods since the handshake began, or since the last
               \* sensor frame was sent
  step,        \* step_id of that frame
  seen,        \* _ResponseAccumulator: what the last answers said
  rejected,    \* the parser or the session has refused something
  evidence,    \* watchdog_evidence is not empty
  result,      \* the verdict
  trouble,     \* the periods of trouble so far
  calm,        \* observed: the periods since the last one
  deaf,        \* observed: how old the last input of the controller was
               \* when it latched a stop,
  stopIn,      \* and the phase of the bench, which hears of it later
  helloAge     \* observed: the periods since the HELLO not yet answered

vars == <<host, torn, cut, out, in, ctl, boot, phase, age, step, seen,
          rejected, evidence, result, trouble, calm, deaf, stopIn, helloAge>>

K == INSTANCE Controller WITH Sensor <- {"Gnss"}

-----------------------------------------------------------------------------
(* What the host sends.                                                    *)
Hello == [type |-> "Hello", step |-> 0, ok |-> TRUE]
Route == <<[type |-> "Route", step |-> 0, ok |-> TRUE, id |-> "bench",
            start |-> 0, count |-> 2, total |-> 2, clear |-> TRUE,
            final |-> TRUE, bad |-> FALSE]>>
StationaryFrame(k) ==
  [type |-> "Sensor", step |-> k, ok |-> TRUE,
   samples |-> [s \in {"Gnss"} |-> k]]
Corrupt == [type |-> "Corrupt"]

(* A period is calm, or something is wrong in it.                          *)
Trouble == {"HoldOut", "HoldIn", "Partial", "Late", "DamageOut", "DamageIn"}
Weather == {"Calm"} \cup Trouble

DamagedHead(frames) ==
  IF frames = <<>> THEN <<>> ELSE <<Corrupt>> \o Tail(frames)

-----------------------------------------------------------------------------
(* One turn of the loop of main.cpp: everything that has come in, a tick,  *)
(* and everything that is to go out.                                       *)
FedAll(c, frames) ==
  FoldLeft(LAMBDA acc, frame : K!After(acc.out, K!Fed(acc.ctl, frame)),
           [ctl |-> c, out |-> <<>>], frames)

Looped(c, frames) ==
  LET older == [c EXCEPT !.fw = K!C!Waited(K!Called(c).fw, 1)]
  IN  K!TickedAfter(FedAll(older, frames))

(* What reaches the controller in a period.                                *)
Arrives(w) ==
  CASE w = "HoldOut"                   -> <<>>
    [] w = "DamageOut"                 -> DamagedHead(out)
    [] w \notin {"HoldOut", "DamageOut"} -> out

ControllerRuns(w) ==
  IF boot > 0 THEN [ctl |-> K!Booted, out |-> <<>>]
              ELSE Looped(ctl, Arrives(w))

-----------------------------------------------------------------------------
(* The session on the serial line.  b is the part of the state that the    *)
(* host works on.                                                          *)

(* _flush_tx: the line takes all there is, or half a frame.  The half of a *)
(* frame that was given up and the next frame are one frame, and garbage.  *)
Flushed(b, w) ==
  CASE b.host.tx = <<>> -> b
    [] b.host.tx # <<>> /\ w = "Partial" -> [b EXCEPT !.torn = TRUE]
    [] b.host.tx # <<>> /\ w # "Partial" ->
         [b EXCEPT !.line = @ \o IF b.cut THEN DamagedHead(b.host.tx)
                                          ELSE b.host.tx,
                   !.host.tx = <<>>, !.torn = FALSE, !.cut = FALSE]

(* start, and reconnect: the transmit buffer is cleared first.             *)
Opened(b, w) ==
  Flushed([b EXCEPT !.host = Reconnected(@, Hello),
                    !.cut = @ \/ b.torn, !.torn = FALSE,
                    !.helloAge = 0], w)

SentRouteOn(b, w) == Flushed([b EXCEPT !.host = SentRoute(@, Route)], w)
SentSensorOn(b, k, w) ==
  Flushed([b EXCEPT !.host = SentActive(@, StationaryFrame(k))], w)

(* poll, and what the statistics remember of it.                           *)
Counted(b, polled) ==
  [b EXCEPT !.host = polled.host, !.events = polled.events,
            !.rejected = @ \/ Len(polled.events) < Len(b.read)]
Received(b) == Counted(b, Polled(b.host, b.read))
PolledOn(b, w) == Received(Flushed(b, w))

-----------------------------------------------------------------------------
(* _ResponseAccumulator.consume, one event: an error report, or an answer  *)
(* of a wrong step, ends the exchange.                                     *)
Nothing == [command |-> "None", estimate |-> FALSE, health |-> "None",
            error |-> FALSE]

InLag(p, k) == p.step <= k /\ k - p.step <= LagSteps

Consumed(acc, p, k) ==
  CASE acc.error -> acc
    [] ~acc.error /\ p.type = "Error" -> [acc EXCEPT !.error = TRUE]
    [] ~acc.error /\ StepBound(p) /\ ~InLag(p, k) ->
         [acc EXCEPT !.error = TRUE]
    [] ~acc.error /\ p.type = "Command" /\ InLag(p, k) ->
         [acc EXCEPT !.command = p.mode]
    [] ~acc.error /\ p.type = "Estimate" /\ InLag(p, k) ->
         [acc EXCEPT !.estimate = TRUE]
    [] ~acc.error /\ p.type = "Health" -> [acc EXCEPT !.health = p.state]
    [] ~acc.error /\ p.type \in {"HelloAck", "Heartbeat"} -> acc

ConsumedAll(acc, events, k) ==
  FoldLeft(LAMBDA a, p : Consumed(a, p, k), acc, events)

(* _normal_exchange_error                                                  *)
ExchangeIsGood(b) ==
  /\ b.seen.command \notin {"None", "SafeStop"}
  /\ b.seen.estimate
  /\ b.seen.health = "Running"
  /\ ~b.rejected

(* _safe_stop_evidence                                                     *)
Slip_IsEvidence(p) == p.type \in {"Command", "Health"}
IsEvidence(p) ==
  /\ InLag(p, FrameCount)
  /\ \/ p.type = "Command" /\ p.mode = "SafeStop"
     \/ p.type = "Health" /\ p.state = "SafeStop"

-----------------------------------------------------------------------------
(* The phases.                                                             *)
Slip_Handshaken(b, w) ==   \* does not start again
  CASE b.host.state = "Active"   -> [b EXCEPT !.phase = "Route"]
    [] b.host.state = "Error"    -> [b EXCEPT !.result = "HandshakeFailed"]
    [] b.host.state \notin {"Active", "Error"} -> b
Handshaken(b, w) ==
  CASE b.host.state = "Active"   -> [b EXCEPT !.phase = "Route"]
    [] b.host.state = "Error"    -> [b EXCEPT !.result = "HandshakeFailed"]
    [] b.host.state = "TimedOut" -> Opened(b, w)
    [] b.host.state \notin {"Active", "Error", "TimedOut"} -> b

(* Past the deadline an active session is still good.                      *)
Handshake(b, w) ==
  IF b.age <= HandshakeDeadline THEN Handshaken(PolledOn(b, w), w)
  ELSE [b EXCEPT !.result = "HandshakeFailed"]

Checked(sent) ==
  IF sent.host.raised THEN [sent EXCEPT !.result = "ExchangeFailed"] ELSE sent
NextFrame(b, w) ==
  Checked(SentSensorOn([b EXCEPT !.step = @ + 1, !.age = 0], b.step + 1, w))

BeginExchange(b, w) ==
  IF b.phase = "Route" /\ b.result = "None"
    THEN NextFrame([SentRouteOn(b, w) EXCEPT !.phase = "Exchange"], w)
    ELSE b

Judged(b) ==
  IF ExchangeIsGood(b) THEN [b EXCEPT !.phase = "Quiet"]
                       ELSE [b EXCEPT !.result = "ExchangeFailed"]

Answered(b, w) ==
  CASE b.seen.error -> [b EXCEPT !.result = "ExchangeFailed"]
    [] ~b.seen.error /\ b.step < FrameCount -> NextFrame(b, w)
    [] ~b.seen.error /\ b.step = FrameCount -> Judged(b)

Heard(b) == [b EXCEPT !.seen = ConsumedAll(@, b.events, b.step)]
Exchange(b, w) == Answered(Heard(PolledOn(b, w)), w)

Watched(b) ==
  LET shown == /\ b.age >= QuietMinimum
               /\ \E i \in DOMAIN b.events : IsEvidence(b.events[i])
  IN  [b EXCEPT !.evidence = @ \/ shown]

Certified(b) ==
  IF b.age < QuietPeriod THEN b
  ELSE [b EXCEPT !.result = IF b.evidence THEN "Success"
                                          ELSE "WatchdogFailed"]

Quiet(b, w) == Certified(Watched(PolledOn(b, w)))

HostRuns(b, w) ==
  CASE phase = "Handshake" -> BeginExchange(Handshake(b, w), w)
    [] phase = "Exchange"  -> Exchange(b, w)
    [] phase = "Quiet"     -> Quiet(b, w)

-----------------------------------------------------------------------------
Init ==
  /\ LET b == Opened([host |-> Disconnected, torn |-> FALSE, cut |-> FALSE,
                      line |-> <<>>, helloAge |-> 0], "Calm")
     IN  host = b.host /\ out = b.line
  /\ torn = FALSE /\ cut = FALSE
  /\ in = <<>>
  /\ ctl = K!Booted
  /\ boot \in BootAt
  /\ phase = "Handshake" /\ age = 0 /\ step = 0
  /\ seen = Nothing /\ rejected = FALSE /\ evidence = FALSE
  /\ result = "None"
  /\ trouble = 0 /\ calm = 0 /\ helloAge = 0
  /\ deaf = 0 /\ stopIn = "None"

(* What the host finds when it is its turn.                                *)
Found(w, arrived) ==
  [host |-> Older(host, 1), torn |-> torn, cut |-> cut,
   line |-> IF w = "HoldOut" THEN out ELSE <<>>,
   phase |-> phase, age |-> age + 1, step |-> step, seen |-> seen,
   rejected |-> rejected, evidence |-> evidence, result |-> "None",
   events |-> <<>>,
   helloAge |-> Least(helloAge + 1, HostPatience + MaxTrouble + 2),
   read |-> CASE w \in {"HoldIn", "Late"} -> <<>>
              [] w = "DamageIn" -> DamagedHead(arrived)
              [] w \notin {"HoldIn", "Late", "DamageIn"} -> arrived]

Stops == ctl.fw.rt.state \notin K!C!Latched /\ ctl'.fw.rt.state \in K!C!Latched

Latest(a, b) == IF a < b THEN b ELSE a
CalmBound == 2 * HostPatience + 6

HostTurn(b) ==
  /\ host' = b.host /\ torn' = b.torn /\ cut' = b.cut
  /\ out' = b.line
  /\ phase' = b.phase /\ age' = b.age /\ step' = b.step
  /\ seen' = b.seen /\ rejected' = b.rejected
  /\ evidence' = b.evidence /\ result' = b.result
  /\ helloAge' = IF b.host.state = "HelloSent" THEN b.helloAge ELSE 0

Wakes(w, found) == IF w = "Late" THEN found ELSE HostRuns(found, w)

Turns(w, run) ==
  LET arrived == in \o run.out
  IN  /\ ctl' = run.ctl
      /\ in' = IF w \in {"HoldIn", "Late"} THEN arrived ELSE <<>>
      /\ HostTurn(Wakes(w, Found(w, arrived)))

Period20ms(w) ==
  /\ result = "None"
  /\ w # "Calm" => trouble < MaxTrouble
  /\ Turns(w, ControllerRuns(w))
  /\ boot' = Latest(boot - 1, 0)
  /\ trouble' = IF w = "Calm" THEN trouble ELSE trouble + 1
  /\ calm' = IF w = "Calm" /\ boot = 0 THEN Least(calm + 1, CalmBound) ELSE 0
  /\ deaf' = IF Stops THEN ctl.fw.rt.validAge + 1 ELSE deaf
  /\ stopIn' = IF Stops THEN phase ELSE stopIn

(* The line breaks: the next write or read of the session raises, and the  *)
(* bench fails in its phase.                                               *)
FailureOf == [Handshake |-> "HandshakeFailed", Exchange |-> "ExchangeFailed",
              Quiet |-> "WatchdogFailed"]
LineBreaks ==
  /\ result = "None" /\ trouble < MaxTrouble
  /\ host' = TransportFailed(host)
  /\ result' = FailureOf[phase]
  /\ trouble' = trouble + 1
  /\ calm' = 0
  /\ UNCHANGED <<torn, cut, out, in, ctl, boot, phase, age, step, seen,
                 rejected, evidence, deaf, stopIn, helloAge>>

Next == LineBreaks \/ \E w \in Weather : Period20ms(w)

Spec == Init /\ [][Next]_vars

-----------------------------------------------------------------------------
(* A controller is certified only if it has stopped; and if its stop was   *)
(* not for an overflow, only if it stopped for the silence of its host. No *)
(* late frame passes for the reaction of the watchdog, and no stop of      *)
(* before the silence, unless the host itself was held up for as long as   *)
(* the timeout before the exchange was judged.  An overflow can pass:      *)
(* frames that were held come in a burst, and when they are more than the  *)
(* queue of the controller takes, it stops, be it in the silence or so     *)
(* shortly before the judgement that the answers do not tell yet.  A stop  *)
(* is all the evidence there is, and it carries no cause.                  *)
WatchdogCertified ==
  result = "Success" =>
    /\ ctl.fw.rt.state = "SafeStop"
    /\ ctl.fw.rt.overflows = 0 \/ trouble <= SensorCapacity =>
         /\ deaf > HostTimeout
         /\ trouble <= HostTimeout => stopIn = "Quiet"

(* A good controller on a good line is never failed, not even one that is  *)
(* up only after the first HELLOs were sent.                               *)
GoodPasses == result \notin {"None", "Success"} => trouble > 0

(* A HELLO that is not acknowledged is given up in time, and sent again.   *)
HelloDeadline == helloAge <= HostPatience + 1 + trouble

(* The handshake recovers from lost, damaged and half-written frames: it   *)
(* fails only if something was wrong shortly before its deadline, or if    *)
(* reports of the session the controller already has passed for a sign of  *)
(* life of the handshake, and kept the unanswered HELLO from its deadline. *)
HandshakeRecovers ==
  result = "HandshakeFailed" => calm < CalmBound \/ ~HelloDeadline
=============================================================================

---------------------------- MODULE RuntimeCore ----------------------------
(***************************************************************************)
(* RuntimeCore (src/src/runtime.cpp) as a state machine: one action per    *)
(* member function that changes its state, called in any order and with    *)
(* any arguments, and Advance, the passing of time between two calls.  A   *)
(* behaviour starts with begin() and is one power cycle.                   *)
(*                                                                         *)
(* MaxGap bounds the time between two ticks once the host has been heard:  *)
(* the session ticks the core at every control release, so it is the       *)
(* control period plus the longest loop iteration.                         *)
(***************************************************************************)
EXTENDS Runtime

CONSTANT MaxGap

(* The unsigned difference of two timestamps is the true elapsed time as   *)
(* long as a tick looks at it before it wraps.                             *)
ASSUME GapAssumption ==
  /\ MaxGap \in Nat \ {0}
  /\ HostTimeout + MaxGap < ClockSize
  /\ UnavailableGrace + MaxGap < ClockSize

VARIABLES
  rt,        \* the fields of RuntimeCore
  decision,  \* what the last step decided: "None" unless it was a tick
  gap,       \* time since the last tick, or since the host was first heard
  silence,   \* time since the last handshake or accepted input
  blindFor   \* time since the first of the latest run of ticks that were all
             \* given the mode Unavailable, -1 when the last tick was not

vars == <<rt, decision, gap, silence, blindFor>>

(* silence and blindFor are observations, not code: exact, unwrapped times *)
(* that stop counting where no comparison can tell the difference.         *)
SilenceCap == HostTimeout + MaxGap + 1
BlindCap   == UnavailableGrace + MaxGap + 1
AtMost(n, cap) == IF n < cap THEN n ELSE cap

(* Types.                                                                  *)
TypeOK ==
  /\ rt \in RuntimeRecord
  /\ decision \in Decision
  /\ gap \in 0 .. MaxGap
  /\ silence \in 0 .. SilenceCap
  /\ blindFor \in -1 .. BlindCap

Init ==
  /\ rt = Begun
  /\ decision = "None"
  /\ gap = 0
  /\ silence = 0
  /\ blindFor = -1

-----------------------------------------------------------------------------
Advance(d) ==
  /\ rt.hostSeen => gap + d <= MaxGap
  /\ rt' = Aged(rt, d)
  /\ decision' = "None"
  /\ gap' = IF rt.hostSeen THEN gap + d ELSE 0
  /\ silence' = AtMost(silence + d, SilenceCap)
  /\ blindFor' = IF blindFor = -1 THEN -1 ELSE AtMost(blindFor + d, BlindCap)

(* A call that neither decides an output nor counts as input.              *)
Call(next) ==
  /\ rt' = next
  /\ decision' = "None"
  /\ UNCHANGED <<gap, silence, blindFor>>

StartSelfTest ==
  /\ rt.state = "Startup"
  /\ Call(Transition(rt, "SelfTest"))

CompleteSelfTest(passed) ==
  /\ rt.state = "SelfTest"
  /\ Call(Transition(rt, IF passed THEN "Ready" ELSE "Fault"))

(* A handshake, a heartbeat or an accepted sensor frame.                   *)
HostInput(heard) ==
  /\ rt' = heard
  /\ decision' = "None"
  /\ silence' = 0
  /\ UNCHANGED <<gap, blindFor>>

Handshake == HostInput(NotifyHandshake(rt))
Accept    == HostInput(AcceptInput(rt))

QueueOverflow  == Call(RecordQueueOverflow(rt))
ManualSafeStop == Call(RequestSafeStop(rt))
NumericalFault == Call(ReportNumericalFault(rt))

Tick(mode, healthy, ready) ==
  LET next == Ticked(rt, mode, healthy, ready)
  IN  /\ rt' = next
      /\ decision' = Decide(next, mode, healthy, ready)
      /\ gap' = 0
      /\ blindFor' = IF mode # "Unavailable" THEN -1
                     ELSE IF blindFor = -1 THEN 0 ELSE blindFor
      /\ UNCHANGED silence

SomeTick ==
  \E mode \in NavigationMode, healthy, ready \in BOOLEAN :
    Tick(mode, healthy, ready)

SomeAdvance == \E d \in 1 .. MaxGap : Advance(d)

Next ==
  \/ SomeAdvance
  \/ StartSelfTest
  \/ \E passed \in BOOLEAN : CompleteSelfTest(passed)
  \/ Handshake
  \/ Accept
  \/ QueueOverflow
  \/ ManualSafeStop
  \/ NumericalFault
  \/ SomeTick

Spec == Init /\ [][Next]_vars

(* The board's loop() never stops calling tick, and time passes.           *)
FairSpec == Spec /\ WF_vars(SomeAdvance) /\ WF_vars(SomeTick)

-----------------------------------------------------------------------------
(* No drive without a recent host: while the host counts as connected and  *)
(* no stop is latched, the host has been silent for at most host_timeout   *)
(* beyond the time since the last tick, so a tick permits control only     *)
(* within host_timeout of true time, even when the millisecond counter     *)
(* wraps in between (tick, the watchdog).                                  *)
WatchdogHolds ==
  (rt.state \in Live /\ rt.hostSeen) => silence <= HostTimeout + gap

(* No driving blind: RUNNING or DEGRADED is never kept over a run of ticks *)
(* without navigation that is longer than the grace period (tick, the      *)
(* unavailable timer).                                                     *)
BlindnessBounded ==
  rt.state \in Driving => blindFor < UnavailableGrace + gap

(* The state machine as its users see it.                                  *)
Fsm == INSTANCE SafetyFsm WITH Boot <- "Startup", state <- rt.state,
                               output <- decision
ImplementsFsm == Fsm!Spec

(* A host that was heard and then stays silent is answered with a stop,    *)
(* whatever the navigation does meanwhile.                                 *)
SilentHostStops ==
  (<>[][~(Handshake \/ Accept)]_vars /\ <>rt.hostSeen)
    => <>(rt.state \in Latched)
=============================================================================

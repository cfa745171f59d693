------------------------- MODULE RuntimeCore_proofs -------------------------
(***************************************************************************)
(* RuntimeCore is safe for every clock width, host timeout, grace period,  *)
(* overflow threshold and gap between ticks that satisfies its             *)
(* assumptions.  The two bounds of RuntimeCore are not inductive: they     *)
(* compare true times, and the code sees unsigned differences.  The        *)
(* invariant IInv adds that, wherever the code compares an age, the age is *)
(* the true time, because a tick comes before the counter can wrap.        *)
(***************************************************************************)
EXTENDS RuntimeCore, Timing_proofs

(* A host is heard after the self-test only, and drives only once heard.   *)
Connected ==
  /\ rt.state \in {"Startup", "SelfTest"} => ~rt.hostSeen
  /\ rt.state \in Driving => rt.hostSeen

(* Until a stop is latched the watchdog measures the true silence.         *)
SilenceMeasured ==
  (rt.state \in Live /\ rt.hostSeen) =>
    /\ rt.validAge = silence
    /\ silence <= HostTimeout + gap

(* The unavailable timer runs in DEGRADED alone, while the last tick had   *)
(* no navigation, and measures the true blindness.                         *)
BlindnessMeasured ==
  /\ (rt.state \notin Latched /\ rt.blind) =>
       rt.state = "Degraded" /\ blindFor # -1
  /\ rt.state = "Running" => blindFor = -1
  /\ (rt.state = "Degraded" /\ blindFor # -1) =>
       /\ rt.blind
       /\ rt.blindAge = blindFor
       /\ blindFor < UnavailableGrace + gap

IInv == TypeOK /\ Connected /\ SilenceMeasured /\ BlindnessMeasured

-----------------------------------------------------------------------------
(* What a tick leaves alone.                                               *)

(* The watchdog lets only a host within its timeout through.               *)
LEMMA WatchdogPasses ==
  ASSUME NEW r \in RuntimeRecord, Watchdog(r).state \in Live
  PROVE  /\ Watchdog(r) = r
         /\ r.hostSeen => r.validAge <= HostTimeout
BY ClockAssumption, RuntimeConfigAssumption
DEF Watchdog, WatchdogExpired, Transition, Live, RuntimeRecord, Age

LEMMA HealthPasses ==
  ASSUME NEW r \in RuntimeRecord, NEW healthy \in BOOLEAN,
         HealthCheck(r, healthy).state \in Live
  PROVE  HealthCheck(r, healthy) = r
BY DEF HealthCheck, ReportNumericalFault, Transition, Live, RuntimeRecord

LEMMA NavigateKeeps ==
  ASSUME NEW r \in RuntimeRecord, NEW mode \in NavigationMode,
         NEW healthy \in BOOLEAN, NEW ready \in BOOLEAN,
         NEW n, n = Navigate(r, mode, healthy, ready)
  PROVE  /\ n.hostSeen = r.hostSeen
         /\ n.validAge = r.validAge
         /\ n.state \in Live => r.state \in Live
         /\ n.state \in Driving => r.state \in Driving \/ r.hostSeen
<1> USE DEF Transition, RuntimeRecord, Live, Driving
<1>1. CASE r.state = "Ready"
  BY <1>1 DEF Navigate, Start
<1>2. CASE r.state = "Running"
  BY <1>2 DEF Navigate, FromRunning
<1>3. CASE r.state = "Degraded"
  BY <1>3, StillBlindCases
  DEF Navigate, FromDegraded, NavigationMode, Aided, Unaided
<1>4. CASE r.state \notin Live
  BY <1>4 DEF Navigate
<1> QED
  BY <1>1, <1>2, <1>3, <1>4

(* A tick that ends in a live state changed nothing but the state and the  *)
(* unavailable timer, and found the host within its timeout.               *)
LEMMA TickedLive ==
  ASSUME NEW r \in RuntimeRecord, NEW mode \in NavigationMode,
         NEW healthy \in BOOLEAN, NEW ready \in BOOLEAN,
         NEW n, n = Ticked(r, mode, healthy, ready), n.state \in Live
  PROVE  /\ n = Navigate(r, mode, healthy, ready)
         /\ r.state \in Live
         /\ n.hostSeen = r.hostSeen
         /\ n.validAge = r.validAge
         /\ r.hostSeen => r.validAge <= HostTimeout
         /\ n.state \in Driving => r.state \in Driving \/ r.hostSeen
<1> DEFINE w == Watchdog(r)
           h == HealthCheck(w, healthy)
<1>1. w \in RuntimeRecord
  BY DEF Watchdog, Transition, RuntimeRecord, SafetyState
<1>2. h \in RuntimeRecord
  BY <1>1 DEF HealthCheck, ReportNumericalFault, Transition, RuntimeRecord,
              SafetyState
<1>3. n = Navigate(h, mode, healthy, ready)
  BY DEF Ticked
<1> HIDE DEF w, h
<1>4. h.state \in Live
  BY <1>2, <1>3, NavigateKeeps
<1>5. h = w
  BY <1>1, <1>4, HealthPasses DEF h
<1>6. w = r /\ (r.hostSeen => r.validAge <= HostTimeout)
  BY <1>4, <1>5, WatchdogPasses DEF w
<1> QED
  BY <1>3, <1>4, <1>5, <1>6, NavigateKeeps

(* A tick keeps driving without navigation only on a timer that it has     *)
(* just started, or that was running and is still within the grace period. *)
LEMMA NavigateBlind ==
  ASSUME NEW r \in RuntimeRecord, NEW mode \in NavigationMode,
         NEW healthy \in BOOLEAN, NEW ready \in BOOLEAN,
         NEW n, n = Navigate(r, mode, healthy, ready), n.state \in Driving
  PROVE  /\ n.state = "Running" => mode # "Unavailable"
         /\ mode = "Unavailable" =>
              /\ n.blind
              /\ \/ n.blindAge = 0 /\ ~(r.state = "Degraded" /\ r.blind)
                 \/ n = r /\ r.blindAge < UnavailableGrace
              /\ r.state \in Driving
BY ClockAssumption, RuntimeConfigAssumption, StillBlindCases
DEF Navigate, Start, FromRunning, FromDegraded, Transition, RuntimeRecord,
    Driving, Aided, Unaided, NavigationMode, SafetyState, Age

(* The timer runs on only in DEGRADED and without navigation.              *)
LEMMA NavigateTimer ==
  ASSUME NEW r \in RuntimeRecord, NEW mode \in NavigationMode,
         NEW healthy \in BOOLEAN, NEW ready \in BOOLEAN,
         NEW n, n = Navigate(r, mode, healthy, ready),
         n.state \in Live, n.blind
  PROVE  \/ r.state = "Ready" /\ r.blind
         \/ n.state = "Degraded" /\ mode = "Unavailable"
BY StillBlindCases
DEF Navigate, Start, FromRunning, FromDegraded, Transition, RuntimeRecord,
    Live, Aided, Unaided, NavigationMode, SafetyState

(* Before READY a tick does nothing.                                       *)
LEMMA TickedEarly ==
  ASSUME NEW r \in RuntimeRecord, NEW mode \in NavigationMode,
         NEW healthy \in BOOLEAN, NEW ready \in BOOLEAN,
         NEW n, n = Ticked(r, mode, healthy, ready),
         n.state \in {"Startup", "SelfTest"}
  PROVE  n = r
<1> DEFINE h == HealthCheck(Watchdog(r), healthy)
<1>1. /\ h \in RuntimeRecord
      /\ h = r \/ h.state \in Latched
  BY DEF Watchdog, HealthCheck, ReportNumericalFault, Transition,
         RuntimeRecord, SafetyState, Latched
<1>2. n = Navigate(h, mode, healthy, ready)
  BY DEF Ticked
<1> HIDE DEF h
<1>3. h.state \notin Latched
  BY <1>1, <1>2 DEF Navigate, Latched
<1>4. h.state \notin Live
  BY <1>1, <1>2, StillBlindCases
  DEF Navigate, Start, FromRunning, FromDegraded, Transition, RuntimeRecord,
      Live, Aided, Unaided, NavigationMode
<1> QED
  BY <1>1, <1>2, <1>3, <1>4 DEF Navigate, Live

-----------------------------------------------------------------------------
(* IInv is inductive: one lemma per kind of step.                          *)

LEMMA AtMostExact ==
  ASSUME NEW n \in Nat, NEW cap \in Nat, n <= cap
  PROVE  AtMost(n, cap) = n
BY DEF AtMost

LEMMA AtMostType ==
  ASSUME NEW n \in Nat, NEW cap \in Nat
  PROVE  AtMost(n, cap) \in 0 .. cap
BY DEF AtMost

LEMMA AdvanceStep ==
  ASSUME IInv, NEW d \in 1 .. MaxGap, Advance(d)
  PROVE  IInv'
<1> USE ClockAssumption, RuntimeConfigAssumption, GapAssumption
<1>1. /\ rt' \in RuntimeRecord
      /\ rt'.state = rt.state
      /\ rt'.hostSeen = rt.hostSeen
      /\ rt'.blind = rt.blind
      /\ rt'.validAge = Older(rt.validAge, d)
      /\ rt'.blindAge = Older(rt.blindAge, d)
  <2>1. rt \in RuntimeRecord /\ d \in Nat
    BY DEF IInv, TypeOK
  <2>2. rt' = Aged(rt, d)
    BY DEF Advance
  <2> QED
    BY <2>1, <2>2, AgedType DEF Aged, RuntimeRecord
<1>2. /\ gap \in 0 .. MaxGap /\ silence \in 0 .. SilenceCap
      /\ blindFor \in -1 .. BlindCap /\ SilenceCap \in Nat /\ BlindCap \in Nat
      /\ rt.validAge \in Age /\ rt.blindAge \in Age
  BY DEF IInv, TypeOK, SilenceCap, BlindCap, RuntimeRecord
<1>3. rt.hostSeen => gap' = gap + d /\ gap' <= MaxGap
  BY DEF Advance
<1>4. gap' \in 0 .. MaxGap
  BY <1>2, <1>3 DEF Advance
<1>5. TypeOK'
  <2>1. silence' \in 0 .. SilenceCap
    <3>1. silence + d \in Nat /\ silence' = AtMost(silence + d, SilenceCap)
      BY <1>2 DEF Advance
    <3> QED
      BY <1>2, <3>1, AtMostType
  <2>2. blindFor' \in -1 .. BlindCap
    BY <1>2, AtMostType DEF Advance
  <2>3. decision' \in Decision
    BY DEF Advance, Decision
  <2> QED
    BY <1>1, <1>4, <2>1, <2>2, <2>3 DEF TypeOK, SilenceCap, BlindCap
<1>6. Connected'
  BY <1>1 DEF Connected, IInv
<1>7. SilenceMeasured'
  <2>1. SUFFICES ASSUME rt.state \in Live, rt.hostSeen
                 PROVE  /\ rt'.validAge = silence'
                        /\ silence' <= HostTimeout + gap'
    BY <1>1 DEF SilenceMeasured
  <2>2. rt.validAge = silence /\ silence <= HostTimeout + gap
    BY <2>1 DEF IInv, SilenceMeasured
  <2>3. rt.validAge + d < ClockSize /\ silence + d <= SilenceCap
    BY <1>2, <1>3, <2>1, <2>2 DEF SilenceCap
  <2>4. rt'.validAge = rt.validAge + d
    BY <1>1, <1>2, <2>3, OlderIsExact
  <2>5. silence' = silence + d
    BY <1>2, <2>3, AtMostExact DEF Advance
  <2> QED
    BY <1>2, <1>3, <2>1, <2>2, <2>4, <2>5
<1>8. BlindnessMeasured'
  <2>1. rt.state = "Running" => blindFor' = -1
    BY DEF IInv, BlindnessMeasured, Advance
  <2>2. ASSUME rt.state = "Degraded", blindFor' # -1
        PROVE  /\ rt.blind
               /\ rt'.blindAge = blindFor'
               /\ blindFor' < UnavailableGrace + gap'
    <3>1. blindFor # -1 /\ blindFor' = AtMost(blindFor + d, BlindCap)
      BY <2>2 DEF Advance
    <3>2. /\ rt.blind /\ rt.blindAge = blindFor
          /\ blindFor < UnavailableGrace + gap
      BY <2>2, <3>1 DEF IInv, BlindnessMeasured
    <3>3. gap' = gap + d /\ gap' <= MaxGap
      BY <1>3, <2>2 DEF IInv, Connected, Driving
    <3>4. rt.blindAge + d < ClockSize /\ blindFor + d <= BlindCap
      BY <1>2, <3>2, <3>3 DEF BlindCap
    <3>5. rt'.blindAge = rt.blindAge + d
      BY <1>1, <1>2, <3>4, OlderIsExact
    <3>6. blindFor' = blindFor + d
      BY <1>2, <3>1, <3>4, AtMostExact
    <3> QED
      BY <1>2, <3>2, <3>3, <3>5, <3>6
  <2>3. (rt.state \notin Latched /\ rt.blind) =>
          rt.state = "Degraded" /\ blindFor' # -1
    <3>1. ASSUME blindFor # -1 PROVE blindFor' # -1
      <4>1. blindFor + d \in Nat
        BY <1>2, <3>1
      <4>2. blindFor' \in Nat
        BY <1>2, <3>1, <4>1, AtMostType DEF Advance
      <4> QED
        BY <4>2
    <3> QED
      BY <3>1 DEF IInv, BlindnessMeasured
  <2> QED
    BY <1>1, <2>1, <2>2, <2>3 DEF BlindnessMeasured
<1> QED
  BY <1>5, <1>6, <1>7, <1>8 DEF IInv

(* A call that leaves the timers alone, and the state too unless it stops  *)
(* the machine or no host has been heard yet.                              *)
LEMMA CallStep ==
  ASSUME IInv, NEW n \in RuntimeRecord, Call(n),
         n.hostSeen = rt.hostSeen, n.validAge = rt.validAge,
         n.blind = rt.blind, n.blindAge = rt.blindAge,
         \/ n.state = rt.state
         \/ n.state \in Latched
         \/ ~rt.hostSeen /\ ~rt.blind /\ n.state \in {"SelfTest", "Ready"}
  PROVE  IInv'
<1>1. /\ rt' = n /\ decision' = "None"
      /\ gap' = gap /\ silence' = silence /\ blindFor' = blindFor
  BY DEF Call
<1>2. TypeOK'
  BY <1>1 DEF IInv, TypeOK, Decision, SilenceCap, BlindCap
<1>3. Connected'
  BY <1>1 DEF IInv, Connected, Latched, Driving
<1>4. SilenceMeasured'
  BY <1>1 DEF IInv, SilenceMeasured, Latched, Live
<1>5. BlindnessMeasured'
  BY <1>1 DEF IInv, BlindnessMeasured, Latched
<1> QED
  BY <1>2, <1>3, <1>4, <1>5 DEF IInv

LEMMA SelfTestStep ==
  ASSUME IInv,
         StartSelfTest \/ \E passed \in BOOLEAN : CompleteSelfTest(passed)
  PROVE  IInv'
<1>1. PICK s \in {"SelfTest", "Ready", "Fault"} :
        Call(Transition(rt, s)) /\ ~rt.hostSeen /\ ~rt.blind
  BY DEF StartSelfTest, CompleteSelfTest, IInv, Connected, BlindnessMeasured,
         Latched
<1>2. rt \in RuntimeRecord
  BY DEF IInv, TypeOK
<1>3. Transition(rt, s) \in RuntimeRecord
  BY <1>2, TransitionType DEF SafetyState
<1>4. /\ Transition(rt, s).state = s
      /\ Transition(rt, s).hostSeen = rt.hostSeen
      /\ Transition(rt, s).validAge = rt.validAge
      /\ Transition(rt, s).blind = rt.blind
      /\ Transition(rt, s).blindAge = rt.blindAge
  BY <1>2 DEF Transition, RuntimeRecord
<1> QED
  BY <1>1, <1>3, <1>4, CallStep DEF Latched

LEMMA StopStep ==
  ASSUME IInv, QueueOverflow \/ ManualSafeStop \/ NumericalFault
  PROVE  IInv'
<1>1. rt \in RuntimeRecord
  BY DEF IInv, TypeOK
<1>2. PICK n \in RuntimeRecord :
        /\ Call(n)
        /\ n.hostSeen = rt.hostSeen
        /\ n.validAge = rt.validAge
        /\ n.blind = rt.blind
        /\ n.blindAge = rt.blindAge
        /\ n.state = rt.state \/ n.state \in Latched
  <2>1. CASE QueueOverflow
    <3>1. RecordQueueOverflow(rt) \in RuntimeRecord
      BY <1>1, OverflowType
    <3> QED
      BY <1>1, <2>1, <3>1
      DEF QueueOverflow, RecordQueueOverflow, StopUnlessFaulted, Transition,
          RuntimeRecord, Latched
  <2>2. CASE ManualSafeStop
    <3>1. StopUnlessFaulted(rt) \in RuntimeRecord
      BY <1>1, TransitionType DEF StopUnlessFaulted, SafetyState
    <3> QED
      BY <1>1, <2>2, <3>1
      DEF ManualSafeStop, RequestSafeStop, StopUnlessFaulted, Transition,
          RuntimeRecord, Latched
  <2>3. CASE NumericalFault
    <3>1. Transition(rt, "Fault") \in RuntimeRecord
      BY <1>1, TransitionType DEF SafetyState
    <3> QED
      BY <1>1, <2>3, <3>1
      DEF NumericalFault, ReportNumericalFault, Transition, RuntimeRecord,
          Latched
  <2> QED
    BY <2>1, <2>2, <2>3
<1> QED
  BY <1>2, CallStep

LEMMA HostInputStep ==
  ASSUME IInv, Handshake \/ Accept
  PROVE  IInv'
<1>1. /\ rt' = NotifyHandshake(rt)
      /\ decision' = "None" /\ silence' = 0
      /\ gap' = gap /\ blindFor' = blindFor
  BY DEF Handshake, Accept, HostInput, AcceptInput
<1>2. rt \in RuntimeRecord /\ gap \in 0 .. MaxGap
  BY DEF IInv, TypeOK
<1>3. /\ rt'.state = rt.state
      /\ rt'.blind = rt.blind
      /\ rt'.blindAge = rt.blindAge
      /\ rt.state \in Live => rt'.hostSeen /\ rt'.validAge = 0
      /\ rt.state \notin Live => rt' = rt
  BY <1>1, <1>2 DEF NotifyHandshake, RuntimeRecord
<1>4. TypeOK'
  <2>1. rt' \in RuntimeRecord
    BY <1>1, <1>2, HandshakeType
  <2>2. silence' \in 0 .. SilenceCap
    BY <1>1, RuntimeConfigAssumption, GapAssumption DEF SilenceCap
  <2> QED
    BY <1>1, <2>1, <2>2 DEF IInv, TypeOK, Decision, SilenceCap, BlindCap
<1>5. Connected'
  BY <1>3 DEF IInv, Connected, Live, Driving
<1>6. SilenceMeasured'
  BY <1>1, <1>2, <1>3, ClockAssumption, RuntimeConfigAssumption, GapAssumption
  DEF SilenceMeasured
<1>7. BlindnessMeasured'
  BY <1>1, <1>3 DEF IInv, BlindnessMeasured
<1> QED
  BY <1>4, <1>5, <1>6, <1>7 DEF IInv

LEMMA TickStep ==
  ASSUME IInv, NEW mode \in NavigationMode, NEW healthy \in BOOLEAN,
         NEW ready \in BOOLEAN, Tick(mode, healthy, ready)
  PROVE  IInv'
<1> USE ClockAssumption, RuntimeConfigAssumption, GapAssumption
<1>1. /\ rt \in RuntimeRecord /\ gap \in 0 .. MaxGap
      /\ silence \in 0 .. SilenceCap /\ blindFor \in -1 .. BlindCap
      /\ SilenceCap \in Nat /\ BlindCap \in Nat
  BY DEF IInv, TypeOK, SilenceCap, BlindCap
<1>2. /\ rt' = Ticked(rt, mode, healthy, ready)
      /\ gap' = 0 /\ silence' = silence
      /\ blindFor' = IF mode # "Unavailable" THEN -1
                     ELSE IF blindFor = -1 THEN 0 ELSE blindFor
      /\ decision' = Decide(rt', mode, healthy, ready)
  BY DEF Tick
<1>3. rt' \in RuntimeRecord
  BY <1>1, <1>2, TickedType
<1>4. rt'.state \in Live =>
        /\ rt' = Navigate(rt, mode, healthy, ready)
        /\ rt.state \in Live
        /\ rt'.hostSeen = rt.hostSeen
        /\ rt'.validAge = rt.validAge
        /\ rt.hostSeen => rt.validAge <= HostTimeout
        /\ rt'.state \in Driving => rt.state \in Driving \/ rt.hostSeen
  BY <1>1, <1>2, TickedLive
<1>5. TypeOK'
  <2>1. decision' \in Decision
    BY <1>2 DEF Decide, Decision
  <2>2. blindFor' \in -1 .. BlindCap
    BY <1>1, <1>2
  <2> QED
    BY <1>1, <1>2, <1>3, <2>1, <2>2 DEF TypeOK, SilenceCap, BlindCap
<1>6. Connected'
  <2>1. rt'.state \in {"Startup", "SelfTest"} => ~rt'.hostSeen
    BY <1>1, <1>2, TickedEarly DEF IInv, Connected
  <2>2. rt'.state \in Driving => rt'.hostSeen
    BY <1>4 DEF IInv, Connected, Driving, Live
  <2> QED
    BY <2>1, <2>2 DEF Connected
<1>7. SilenceMeasured'
  <2>1. SUFFICES ASSUME rt'.state \in Live, rt'.hostSeen
                 PROVE  /\ rt'.validAge = silence'
                        /\ silence' <= HostTimeout + gap'
    BY DEF SilenceMeasured
  <2>2. rt.state \in Live /\ rt.hostSeen /\ rt.validAge <= HostTimeout
    BY <1>4, <2>1
  <2>3. rt'.validAge = rt.validAge /\ rt.validAge = silence
    BY <1>4, <2>1, <2>2 DEF IInv, SilenceMeasured
  <2> QED
    BY <1>1, <1>2, <2>2, <2>3
<1>8. BlindnessMeasured'
  <2>0. rt.state \in Live =>
          (rt.blind => rt.state = "Degraded" /\ blindFor # -1)
    BY DEF IInv, BlindnessMeasured, Live, Latched
  <2>1. rt'.state = "Running" => blindFor' = -1
    BY <1>1, <1>2, <1>4, NavigateBlind DEF Driving, Live
  <2>2. ASSUME rt'.state = "Degraded", blindFor' # -1
        PROVE  /\ rt'.blind
               /\ rt'.blindAge = blindFor'
               /\ blindFor' < UnavailableGrace + gap'
    <3>1. mode = "Unavailable"
      BY <1>2, <2>2
    <3>2. /\ rt'.blind
          /\ \/ rt'.blindAge = 0 /\ ~(rt.state = "Degraded" /\ rt.blind)
             \/ rt' = rt /\ rt.blindAge < UnavailableGrace
          /\ rt.state \in Driving
      BY <1>1, <1>4, <2>2, <3>1, NavigateBlind DEF Driving, Live
    <3>3. CASE rt' = rt /\ rt.blindAge < UnavailableGrace /\ blindFor # -1
      BY <1>1, <1>2, <2>2, <3>1, <3>2, <3>3 DEF IInv, BlindnessMeasured
    <3>4. CASE rt'.blindAge = 0 /\ ~(rt.state = "Degraded" /\ rt.blind)
      <4>1. blindFor = -1
        BY <3>2, <3>4 DEF IInv, BlindnessMeasured, Driving
      <4> QED
        BY <1>2, <3>1, <3>2, <3>4, <4>1
    <3>5. CASE rt' = rt /\ blindFor = -1
      BY <1>4, <2>0, <2>2, <3>2, <3>5 DEF Live
    <3> QED
      BY <3>2, <3>3, <3>4, <3>5
  <2>3. ASSUME rt'.state \notin Latched, rt'.blind
        PROVE  rt'.state = "Degraded" /\ blindFor' # -1
    <3>1. CASE rt'.state \in Live
      <4>1. rt'.state = "Degraded" /\ mode = "Unavailable"
        BY <1>1, <1>4, <2>0, <2>3, <3>1, NavigateTimer
      <4> QED
        BY <1>1, <1>2, <4>1
    <3>2. CASE rt'.state \in {"Startup", "SelfTest"}
      BY <1>1, <1>2, <2>3, <3>2, TickedEarly
      DEF IInv, BlindnessMeasured, Latched
    <3> QED
      BY <1>3, <2>3, <3>1, <3>2
      DEF RuntimeRecord, SafetyState, Live, Latched
  <2> QED
    BY <2>1, <2>2, <2>3 DEF BlindnessMeasured
<1> QED
  BY <1>5, <1>6, <1>7, <1>8 DEF IInv

-----------------------------------------------------------------------------
(* The code starts in a state where nothing is measured, ...               *)
LEMMA InitInvariant == Init => IInv
<1>1. Begun \in RuntimeRecord
  BY RuntimeConfigAssumption, ZeroIsAge DEF Begun, RuntimeRecord, SafetyState
<1> QED
  BY <1>1, ClockAssumption, RuntimeConfigAssumption, GapAssumption
  DEF Init, IInv, TypeOK, Connected, SilenceMeasured, BlindnessMeasured, Begun,
      Decision, SilenceCap, BlindCap, Live, Driving, Latched

(* ... and every step keeps the measures true.                             *)
LEMMA NextInvariant == IInv /\ [Next]_vars => IInv'
<1> SUFFICES ASSUME IInv, [Next]_vars PROVE IInv'
  OBVIOUS
<1>1. CASE SomeAdvance
  BY <1>1, AdvanceStep DEF SomeAdvance
<1>2. CASE StartSelfTest \/ \E passed \in BOOLEAN : CompleteSelfTest(passed)
  BY <1>2, SelfTestStep
<1>3. CASE Handshake \/ Accept
  BY <1>3, HostInputStep
<1>4. CASE QueueOverflow \/ ManualSafeStop \/ NumericalFault
  BY <1>4, StopStep
<1>5. CASE SomeTick
  BY <1>5, TickStep DEF SomeTick
<1>6. CASE UNCHANGED vars
  BY <1>6
  DEF vars, IInv, TypeOK, Connected, SilenceMeasured, BlindnessMeasured,
      SilenceCap, BlindCap
<1> QED
  BY <1>1, <1>2, <1>3, <1>4, <1>5, <1>6 DEF Next

(* In every reachable state the wrapping ages of RuntimeCore measure what  *)
(* the watchdog and the grace timer take them for.                         *)
THEOREM Invariant == Spec => []IInv
BY InitInvariant, NextInvariant, PTL DEF Spec

(* Whatever is called in whatever order, every field of RuntimeCore keeps  *)
(* its range: no age leaves the clock, no counter its threshold.           *)
THEOREM TypeCorrect == Spec => []TypeOK
<1>1. IInv => TypeOK
  BY DEF IInv
<1> QED
  BY Invariant, <1>1, PTL

(* A connected host that has been silent for longer than host_timeout, by  *)
(* the true time, has been answered with a stop by the next tick.          *)
THEOREM WatchdogCorrect == Spec => []WatchdogHolds
<1>1. IInv => WatchdogHolds
  BY DEF IInv, SilenceMeasured, WatchdogHolds
<1> QED
  BY Invariant, <1>1, PTL

(* No run of ticks without navigation that reaches the grace period leaves *)
(* RUNNING or DEGRADED in force.                                           *)
THEOREM BlindnessCorrect == Spec => []BlindnessBounded
<1>1. IInv => BlindnessBounded
  BY ClockAssumption, RuntimeConfigAssumption
  DEF IInv, TypeOK, BlindnessMeasured, BlindnessBounded, Driving
<1> QED
  BY Invariant, <1>1, PTL

-----------------------------------------------------------------------------
(* Every call of a member function is a step, or several arrows at once,   *)
(* of the safety state machine that SafetyFsm draws.                       *)

LEMMA NextImplements ==
  IInv /\ [Next]_vars => [Fsm!Next]_(Fsm!vars)
<1> SUFFICES ASSUME IInv, [Next]_vars PROVE [Fsm!Next]_(Fsm!vars)
  OBVIOUS
<1>0. rt \in RuntimeRecord
  BY DEF IInv, TypeOK
<1>1. ASSUME rt'.state \in Fsm!Reach[rt.state], decision' = "None"
      PROVE  Fsm!Next
  BY <1>1 DEF Fsm!Next
<1>2. rt.state \in Fsm!Reach[rt.state]
  BY <1>0 DEF Fsm!Reach, RuntimeRecord, SafetyState
<1>3. CASE SomeAdvance
  <2>1. rt'.state = rt.state /\ decision' = "None"
    BY <1>0, <1>3 DEF SomeAdvance, Advance, Aged, RuntimeRecord
  <2> QED
    BY <1>1, <1>2, <2>1
<1>4. CASE StartSelfTest \/ \E passed \in BOOLEAN : CompleteSelfTest(passed)
  <2>1. /\ rt'.state \in Fsm!Reach[rt.state]
        /\ decision' = "None"
    BY <1>0, <1>4
    DEF StartSelfTest, CompleteSelfTest, Call, Transition, RuntimeRecord,
        Fsm!Reach
  <2> QED
    BY <1>1, <2>1
<1>5. CASE Handshake \/ Accept
  <2>1. rt'.state = rt.state /\ decision' = "None"
    BY <1>0, <1>5
    DEF Handshake, Accept, HostInput, AcceptInput, NotifyHandshake,
        RuntimeRecord
  <2> QED
    BY <1>1, <1>2, <2>1
<1>6. CASE QueueOverflow \/ ManualSafeStop \/ NumericalFault
  <2>1. /\ decision' = "None"
        /\ \/ rt'.state = rt.state
           \/ rt.state # "Fault" /\ rt'.state = "SafeStop"
           \/ rt'.state = "Fault"
    BY <1>0, <1>6
    DEF QueueOverflow, ManualSafeStop, NumericalFault, Call,
        RecordQueueOverflow, RequestSafeStop, ReportNumericalFault,
        StopUnlessFaulted, Transition, RuntimeRecord
  <2>2. rt'.state \in Fsm!Reach[rt.state]
    BY <1>0, <1>2, <2>1 DEF Fsm!Reach, RuntimeRecord, SafetyState
  <2> QED
    BY <1>1, <2>1, <2>2
<1>7. CASE SomeTick
  <2>1. PICK mode \in NavigationMode, healthy \in BOOLEAN, ready \in BOOLEAN :
          Tick(mode, healthy, ready)
    BY <1>7 DEF SomeTick
  <2>2. /\ rt' = Ticked(rt, mode, healthy, ready)
        /\ decision' = Decide(rt', mode, healthy, ready)
    BY <2>1 DEF Tick
  <2>3. rt'.state \in Fsm!Reach[rt.state]
    BY <1>0, <1>2, <2>2, TickedMoves
    DEF Fsm!Reach, RuntimeRecord, SafetyState, Live, Driving, Latched
  <2>4. decision' \in Fsm!Issued[rt'.state]
    BY <1>0, <2>2, TickedType, DecideMatches
    DEF Fsm!Issued, RuntimeRecord, SafetyState, Driving, Latched, Decision
  <2> QED
    BY <2>3, <2>4 DEF Fsm!Next
<1>8. CASE UNCHANGED vars
  BY <1>8 DEF vars, Fsm!vars
<1> QED
  BY <1>3, <1>4, <1>5, <1>6, <1>7, <1>8 DEF Next

(* RuntimeCore implements the abstract safety machine: stops stay latched, *)
(* FAULT is final, and motion is commanded from RUNNING or DEGRADED alone. *)
THEOREM Implements == Spec => ImplementsFsm
<1>1. Init => Fsm!Init
  BY DEF Init, Begun, Fsm!Init
<1> QED
  BY Invariant, NextImplements, <1>1, PTL DEF Spec, ImplementsFsm, Fsm!Spec
=============================================================================

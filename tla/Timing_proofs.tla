---------------------------- MODULE Timing_proofs ----------------------------
(***************************************************************************)
(* Lemmas for the proofs about RuntimeCore and CooperativeScheduler alone  *)
(* and about the session that owns both: what each member function of the  *)
(* runtime keeps well-formed and where a tick may lead; and how the        *)
(* scheduler reads a counter that wraps.  There a lead says nothing by     *)
(* itself: Signed is what the scheduler reads it as, and the lemmas say    *)
(* when that is the true lateness, and what time and a poll do to it.      *)
(***************************************************************************)
EXTENDS Runtime, Scheduling, TLAPS

-----------------------------------------------------------------------------
(* Ages.                                                                   *)

LEMMA ZeroIsAge == 0 \in Age
BY ClockAssumption DEF Age

LEMMA OlderIsAge ==
  ASSUME NEW age \in Age, NEW d \in Nat
  PROVE  Older(age, d) \in Age
BY ClockAssumption DEF Older, Age

(* An age is exact until it reaches the width of the clock.                *)
LEMMA OlderIsExact ==
  ASSUME NEW age \in Age, NEW d \in Nat, age + d < ClockSize
  PROVE  Older(age, d) = age + d
BY ClockAssumption DEF Older, Age

(* Every member function keeps the record well-formed.                     *)
LEMMA AgedType ==
  ASSUME NEW r \in RuntimeRecord, NEW d \in Nat
  PROVE  Aged(r, d) \in RuntimeRecord
BY OlderIsAge DEF Aged, RuntimeRecord

LEMMA TransitionType ==
  ASSUME NEW r \in RuntimeRecord, NEW s \in SafetyState
  PROVE  Transition(r, s) \in RuntimeRecord
BY DEF Transition, RuntimeRecord

LEMMA HandshakeType ==
  ASSUME NEW r \in RuntimeRecord
  PROVE  NotifyHandshake(r) \in RuntimeRecord
BY ZeroIsAge DEF NotifyHandshake, RuntimeRecord

LEMMA OverflowType ==
  ASSUME NEW r \in RuntimeRecord
  PROVE  RecordQueueOverflow(r) \in RuntimeRecord
<1>1. [r EXCEPT !.overflows = IF @ < OverflowThreshold THEN @ + 1 ELSE @]
        \in RuntimeRecord
  BY ClockAssumption, RuntimeConfigAssumption DEF RuntimeRecord
<1>2. ASSUME NEW q \in RuntimeRecord
      PROVE  StopUnlessFaulted(q) \in RuntimeRecord
  BY TransitionType DEF StopUnlessFaulted, SafetyState
<1> QED
  BY <1>1, <1>2 DEF RecordQueueOverflow

(* The unavailable timer has three outcomes.                               *)
LEMMA StillBlindCases ==
  ASSUME NEW r \in RuntimeRecord
  PROVE  \/ /\ ~r.blind
            /\ StillBlind(r) = [r EXCEPT !.blind = TRUE, !.blindAge = 0]
         \/ r.blind /\ r.blindAge < UnavailableGrace /\ StillBlind(r) = r
         \/ r.blind /\ StillBlind(r) = [r EXCEPT !.state = "SafeStop"]
<1>1. CASE ~r.blind
  BY <1>1 DEF StillBlind
<1>2. CASE r.blind /\ r.blindAge < UnavailableGrace
  BY <1>2, ClockAssumption, RuntimeConfigAssumption
  DEF StillBlind, RuntimeRecord, Age
<1>3. CASE r.blind /\ r.blindAge >= UnavailableGrace
  BY <1>3, ClockAssumption, RuntimeConfigAssumption
  DEF StillBlind, Transition, RuntimeRecord, Age
<1>4. r.blindAge < UnavailableGrace \/ r.blindAge >= UnavailableGrace
  BY ClockAssumption, RuntimeConfigAssumption DEF RuntimeRecord, Age
<1> QED
  BY <1>1, <1>2, <1>3, <1>4 DEF Transition

LEMMA StillBlindType ==
  ASSUME NEW r \in RuntimeRecord
  PROVE  StillBlind(r) \in RuntimeRecord
<1>1. /\ [r EXCEPT !.blind = TRUE, !.blindAge = 0] \in RuntimeRecord
      /\ [r EXCEPT !.state = "SafeStop"] \in RuntimeRecord
  BY ZeroIsAge DEF RuntimeRecord, SafetyState
<1> QED
  BY <1>1, StillBlindCases

LEMMA TickedType ==
  ASSUME NEW r \in RuntimeRecord, NEW mode \in NavigationMode,
         NEW healthy \in BOOLEAN, NEW ready \in BOOLEAN
  PROVE  Ticked(r, mode, healthy, ready) \in RuntimeRecord
<1>1. ASSUME NEW q \in RuntimeRecord
      PROVE  Watchdog(q) \in RuntimeRecord
  BY DEF Watchdog, Transition, RuntimeRecord, SafetyState
<1>2. ASSUME NEW q \in RuntimeRecord
      PROVE  HealthCheck(q, healthy) \in RuntimeRecord
  BY DEF HealthCheck, ReportNumericalFault, Transition, RuntimeRecord,
         SafetyState
<1>3. ASSUME NEW q \in RuntimeRecord
      PROVE  Navigate(q, mode, healthy, ready) \in RuntimeRecord
  BY ZeroIsAge, StillBlindType
  DEF Navigate, Start, FromRunning, FromDegraded, Transition,
      NavigationMode, Aided, Unaided, RuntimeRecord, SafetyState
<1> QED
  BY <1>1, <1>2, <1>3 DEF Ticked

-----------------------------------------------------------------------------
(* Where a tick leads, and what it decides there.                          *)

LEMMA TickedMoves ==
  ASSUME NEW r \in RuntimeRecord, NEW mode \in NavigationMode,
         NEW healthy \in BOOLEAN, NEW ready \in BOOLEAN,
         NEW n, n = Ticked(r, mode, healthy, ready)
  PROVE  \/ n.state = r.state
         \/ r.state \in Live /\ n.state \in Latched
         \/ r.state \in Live /\ n.state \in Driving
<1> DEFINE w == Watchdog(r)
           h == HealthCheck(w, healthy)
<1>1. /\ w \in RuntimeRecord
      /\ \/ w.state = r.state
         \/ r.state \in Live /\ w.state = "SafeStop"
  BY DEF Watchdog, WatchdogExpired, Transition, RuntimeRecord, SafetyState
<1> HIDE DEF w
<1>2. /\ h \in RuntimeRecord
      /\ \/ h.state = w.state
         \/ w.state \in Driving /\ h.state = "Fault"
  BY <1>1 DEF HealthCheck, ReportNumericalFault, Transition, RuntimeRecord,
              SafetyState
<1> HIDE DEF h
<1>3. n = Navigate(h, mode, healthy, ready)
  BY DEF Ticked, h, w
<1>4. \/ n.state = h.state
      \/ h.state = "Ready" /\ n.state \in {"Running", "Degraded"}
      \/ h.state = "Running" /\ n.state = "Degraded"
      \/ h.state = "Degraded" /\ n.state \in {"Running", "SafeStop"}
  <2>1. CASE h.state = "Ready"
    BY <1>2, <1>3, <2>1 DEF Navigate, Start, Transition, RuntimeRecord
  <2>2. CASE h.state = "Running"
    <3>1. n = FromRunning(h, mode)
      BY <1>3, <2>2 DEF Navigate
    <3>2. /\ [h EXCEPT !.blind = FALSE].state = h.state
          /\ [h EXCEPT !.blind = FALSE,
                       !.state = "Degraded"].state = "Degraded"
          /\ [h EXCEPT !.blind = TRUE, !.blindAge = 0,
                       !.state = "Degraded"].state = "Degraded"
      BY <1>2 DEF RuntimeRecord
    <3> QED
      BY <2>2, <3>1, <3>2 DEF FromRunning, Aided, Unaided
  <2>3. CASE h.state = "Degraded"
    <3>1. n = FromDegraded(h, mode)
      BY <1>3, <2>3 DEF Navigate
    <3>2. /\ [h EXCEPT !.blind = FALSE, !.state = "Running"].state = "Running"
          /\ [h EXCEPT !.blind = FALSE].state = h.state
      BY <1>2 DEF RuntimeRecord
    <3>3. StillBlind(h).state \in {h.state, "SafeStop"}
      BY <1>2, StillBlindCases DEF RuntimeRecord
    <3> QED
      BY <2>3, <3>1, <3>2, <3>3
      DEF FromDegraded, NavigationMode, Aided, Unaided
  <2>4. CASE h.state \notin Live
    BY <1>3, <2>4 DEF Navigate, Live
  <2> QED
    BY <2>1, <2>2, <2>3, <2>4 DEF Live
<1> QED
  BY <1>1, <1>2, <1>4
  DEF RuntimeRecord, SafetyState, Live, Driving, Latched

LEMMA DecideMatches ==
  ASSUME NEW r \in RuntimeRecord, NEW mode \in NavigationMode,
         NEW healthy \in BOOLEAN, NEW ready \in BOOLEAN
  PROVE  /\ Decide(r, mode, healthy, ready) \in Decision \ {"None"}
         /\ Decide(r, mode, healthy, ready) = "SafeStop"
              <=> r.state \in Latched
         /\ Decide(r, mode, healthy, ready) = "Control"
              => r.state \in Driving
BY DEF Decide, Decision, Latched, Driving

-----------------------------------------------------------------------------
(* What % and \div are.                                                    *)
LEMMA Division ==
  ASSUME NEW a \in Int, NEW n \in Nat \ {0}
  PROVE  /\ a % n \in 0 .. n - 1
         /\ a \div n \in Int
         /\ a = n * (a \div n) + (a % n)
OBVIOUS

(* No multiple but zero lies between -n and n.                             *)
LEMMA SmallMultiple ==
  ASSUME NEW n \in Nat \ {0}, NEW q \in Int, -n < q * n, q * n < n
  PROVE  q = 0
OBVIOUS

(* There is one quotient and one remainder.                                *)
LEMMA Remainder ==
  ASSUME NEW n \in Nat \ {0}, NEW a \in Int, NEW q \in Int,
         NEW r \in 0 .. n - 1, a = q * n + r
  PROVE  a % n = r /\ a \div n = q
<1>1. a = n * (a \div n) + (a % n) /\ a % n \in 0 .. n - 1 /\ a \div n \in Int
  BY Division
<1>2. (q - (a \div n)) * n = (a % n) - r
  BY <1>1
<1>3. q - (a \div n) = 0
  BY <1>1, <1>2, SmallMultiple
<1> QED
  BY <1>1, <1>2, <1>3

(* The remainder of a number at most once round.                           *)
LEMMA SmallRemainder ==
  ASSUME NEW n \in Nat \ {0}, NEW a \in Int
  PROVE  /\ 0 <= a /\ a < n => a % n = a
         /\ -n <= a /\ a < 0 => a % n = a + n
<1>1. ASSUME 0 <= a, a < n PROVE a % n = a
  <2>1. a = 0 * n + a /\ a \in 0 .. n - 1
    BY <1>1
  <2> QED
    BY <2>1, Remainder
<1>2. ASSUME -n <= a, a < 0 PROVE a % n = a + n
  <2> DEFINE r == a + n
  <2>1. a = (-1) * n + r /\ r \in 0 .. n - 1
    BY <1>2
  <2> HIDE DEF r
  <2>2. a % n = r
    BY <2>1, Remainder
  <2> QED
    BY <2>2 DEF r
<1> QED
  BY <1>1, <1>2

(* Going round any number of times changes no remainder.                   *)
LEMMA Congruent ==
  ASSUME NEW n \in Nat \ {0}, NEW a \in Int, NEW c \in Int,
         \E j \in Int : c = a + j * n
  PROVE  c % n = a % n
<1>1. PICK j \in Int : c = a + j * n
  OBVIOUS
<1> DEFINE k == a \div n   r == a % n
<1>2. a = n * k + r /\ r \in 0 .. n - 1 /\ k \in Int
  BY Division
<1> HIDE DEF k, r
<1>3. k + j \in Int /\ c = (k + j) * n + r
  BY <1>1, <1>2
<1>4. c % n = r
  BY <1>2, <1>3, Remainder
<1> QED
  BY <1>4 DEF r

(* The next multiple of a divisor comes no later.                          *)
LEMMA NextMultiple ==
  ASSUME NEW m \in Nat \ {0}, NEW n \in Nat \ {0}, n % m = 0,
         NEW f \in 0 .. n - 1
  PROVE  m - (f % m) <= n - f
<1> DEFINE i == n \div m   k == f \div m   r == f % m
<1>1. n = m * i /\ i \in Int
  BY Division
<1>2. f = m * k + r /\ r \in 0 .. m - 1 /\ k \in Int
  BY Division
<1> HIDE DEF i, k, r
<1>3. k < i
  <2>1. SUFFICES ASSUME i <= k PROVE FALSE
    BY <1>1, <1>2
  <2>2. m * (k - i) >= 0
    BY <1>1, <1>2, <2>1
  <2> QED
    BY <1>1, <1>2, <2>2
<1>4. m * (i - k - 1) >= 0
  BY <1>1, <1>2, <1>3
<1>5. m * (i - k - 1) = n - f + r - m
  BY <1>1, <1>2
<1> QED
  BY <1>1, <1>2, <1>4, <1>5 DEF r

(* The remainder of a multiple tells that of its divisor.                  *)
LEMMA DivisorRemainder ==
  ASSUME NEW m \in Nat \ {0}, NEW n \in Nat \ {0}, n % m = 0, NEW g \in Int
  PROVE  (g % n) % m = g % m
<1> DEFINE i == n \div m   k == g \div n   r == g % n
<1>1. n = m * i /\ i \in Int
  BY Division
<1>2. g = n * k + r /\ r \in Int /\ k \in Int
  BY Division
<1> HIDE DEF i, k, r
<1>3. -(i * k) \in Int /\ r = g + (-(i * k)) * m
  BY <1>1, <1>2
<1>4. r % m = g % m
  BY <1>2, <1>3, Congruent
<1> QED
  BY <1>4 DEF r

-----------------------------------------------------------------------------
(* The lateness of a release, as the scheduler reads it.                   *)
Signed(x) ==
  IF 2 * ((-x) % ClockSize) < ClockSize THEN (-x) % ClockSize ELSE -x

Readable(b) == b \in Int /\ -ClockSize < 2 * b /\ 2 * b < ClockSize

(* A lateness of less than half the counter is read back as it is, and the *)
(* scheduler takes the task as due just when it is not negative.           *)
LEMMA SignedIsLate ==
  ASSUME NEW b, Readable(b), NEW x, x = (-b) % ClockSize
  PROVE  /\ x \in Age
         /\ Signed(x) = b
         /\ b >= 0 <=> 2 * ((-x) % ClockSize) < ClockSize
         /\ b >= 0 => (-x) % ClockSize = b
         /\ b < 0 => x = -b
<1>0. ClockSize \in Nat \ {0} /\ b \in Int /\ -ClockSize < 2 * b
      /\ 2 * b < ClockSize
  BY ClockAssumption DEF Readable
<1> DEFINE a == -b
<1>1. a \in Int /\ a = -b /\ x = a % ClockSize
  BY <1>0
<1> HIDE DEF a
<1>2. CASE b <= 0
  <2>1. x = a
    BY <1>0, <1>1, <1>2, SmallRemainder
  <2> DEFINE y == -x
  <2>2. y \in Int /\ y = b /\ y = -x
    BY <1>1, <1>0, <2>1
  <2> HIDE DEF y
  <2>3. ASSUME b < 0 PROVE y % ClockSize = y + ClockSize
    <3>1. -ClockSize <= y /\ y < 0
      BY <1>0, <2>2, <2>3
    <3> QED
      BY <1>0, <2>2, <3>1, SmallRemainder
  <2>4. b = 0 => y % ClockSize = 0
    BY <1>0, <2>2, SmallRemainder
  <2> QED
    BY <1>0, <1>1, <1>2, <2>1, <2>2, <2>3, <2>4 DEF Signed, Age
<1>3. CASE b > 0
  <2>1. x = ClockSize - b
    BY <1>0, <1>1, <1>3, SmallRemainder
  <2> DEFINE y == -x
  <2>2. y \in Int /\ y = b - ClockSize /\ y = -x
    BY <1>0, <2>1
  <2> HIDE DEF y
  <2>3. y % ClockSize = b
    BY <1>0, <1>3, <2>2, SmallRemainder
  <2> QED
    BY <1>0, <1>3, <2>1, <2>2, <2>3 DEF Signed, Age
<1> QED
  BY <1>0, <1>2, <1>3

(* The lead itself is its lateness, gone round.                            *)
LEMMA LeadIsLate ==
  ASSUME NEW x \in Age
  PROVE  Signed(x) \in Int /\ x = (-Signed(x)) % ClockSize
<1>0. ClockSize \in Nat \ {0} /\ x \in 0 .. ClockSize - 1 /\ x \in Int
  BY ClockAssumption DEF Age
<1>1. x % ClockSize = x
  BY <1>0, SmallRemainder
<1> DEFINE j == (-x) \div ClockSize   b == (-x) % ClockSize
<1>2. -x = ClockSize * j + b /\ b \in Int /\ j \in Int
  BY <1>0, Division
<1>3. Signed(x) = IF 2 * b < ClockSize THEN b ELSE -x
  BY DEF Signed
<1> HIDE DEF j, b
<1>4. -b \in Int /\ -b = x + j * ClockSize
  BY <1>0, <1>2
<1>5. (-b) % ClockSize = x
  <2>1. (-b) % ClockSize = x % ClockSize
    BY <1>0, <1>2, <1>4, Congruent
  <2> QED
    BY <1>1, <2>1
<1>6. -(-x) = x
  BY <1>0
<1> QED
  BY <1>0, <1>1, <1>2, <1>3, <1>5, <1>6

(* Time makes every release later by as much.                              *)
LEMMA NearerIsLater ==
  ASSUME NEW x \in Age, NEW d \in Nat, Readable(Signed(x) + d)
  PROVE  /\ (x - d) % ClockSize \in Age
         /\ Signed((x - d) % ClockSize) = Signed(x) + d
<1> DEFINE b == Signed(x)   a == -b   j == a \div ClockSize   c == b + d
           e == -c          y == x - d
<1>0. ClockSize \in Nat \ {0} /\ b \in Int /\ x \in Int /\ a \in Int
      /\ x = a % ClockSize
  BY ClockAssumption, LeadIsLate DEF Age
<1>1. c = b + d /\ Readable(c) /\ e = -c /\ a = -b /\ y = x - d
  OBVIOUS
<1> HIDE DEF b, a, j, c, e, y
<1>2. a = ClockSize * j + (a % ClockSize) /\ j \in Int
  BY <1>0, Division DEF j
<1>3. e \in Int /\ y \in Int /\ -j \in Int /\ y = e + (-j) * ClockSize
  BY <1>0, <1>1, <1>2
<1>4. y % ClockSize = e % ClockSize
  BY <1>0, <1>3, Congruent
<1>5. Signed(y % ClockSize) = c /\ y % ClockSize \in Age
  BY <1>1, <1>4, SignedIsLate
<1> QED
  BY <1>1, <1>5 DEF b, y

(* What a poll does to a release that is a time f after a point of the     *)
(* grid: it goes on to the first point that is still ahead.                *)
LEMMA PolledOnGrid ==
  ASSUME NEW lead, NEW t \in Task, lead[t] \in Age,
         Readable(Signed(lead[t])),
         NEW f \in 0 .. Period[t] - 1, NEW k \in Int,
         Signed(lead[t]) = f + (k - 1) * Period[t],
         Signed(lead[t]) < 0 => Signed(lead[t]) = f - Period[t]
  PROVE  /\ t \in Due(lead) <=> Signed(lead[t]) >= 0
         /\ Polled(lead)[t] = Period[t] - f
         /\ Polled(lead)[t] \in Age
         /\ Signed(Polled(lead)[t]) = f - Period[t]
<1> DEFINE P == Period[t]   b == Signed(lead[t])   x == lead[t]
           g == P - f
<1>1. P \in Nat \ {0} /\ 2 * P < ClockSize /\ ClockSize \in Nat \ {0}
  BY ClockAssumption, SchedulerConfigAssumption
<1>2. f \in 0 .. P - 1
  OBVIOUS
<1>3. b = f + (k - 1) * P
  OBVIOUS
<1>4. x \in Age
  OBVIOUS
<1>5. b \in Int /\ Readable(b) /\ (b < 0 => b = f - P)
  BY DEF Readable
<1>6. b = Signed(x)
  OBVIOUS
<1>7. /\ Lateness(lead, t) = (-x) % ClockSize
      /\ t \in Due(lead) <=> 2 * ((-x) % ClockSize) < ClockSize
      /\ Polled(lead)[t] =
           IF t \in Due(lead)
             THEN (x + (((-x) % ClockSize) \div P + 1) * P) % ClockSize ELSE x
  BY DEF Lateness, Due, Reached, Polled, NextRelease
<1>8. g \in Int /\ 0 <= g /\ g < ClockSize /\ g = P - f
  BY <1>1, <1>2
<1> HIDE DEF P, b, x, g
<1>9. x \in Int /\ x = (-b) % ClockSize
  BY <1>4, <1>6, LeadIsLate DEF Age
<1>10. /\ t \in Due(lead) <=> b >= 0
       /\ b >= 0 => (-x) % ClockSize = b
       /\ b < 0 => x = -b
  BY <1>5, <1>7, <1>9, SignedIsLate
<1>11. Polled(lead)[t] = g
  <2>1. CASE b < 0
    BY <1>1, <1>2, <1>5, <1>7, <1>8, <1>10, <2>1
  <2>2. CASE b >= 0
    <3> DEFINE q == k - 1   s == b \div P   a == -b   j == a \div ClockSize
               y == x + (s + 1) * P
    <3>1. q \in Int /\ b = q * P + f
      BY <1>1, <1>2, <1>3
    <3>2. a \in Int /\ a = -b /\ x = a % ClockSize
      BY <1>5, <1>9
    <3>3. Polled(lead)[t] = y % ClockSize
      BY <1>5, <1>7, <1>10, <2>2
    <3> HIDE DEF q, a, j
    <3>4. s = q
      BY <1>1, <1>2, <1>5, <3>1, Remainder
    <3>5. a = ClockSize * j + x /\ j \in Int
      BY <1>1, <3>2, Division DEF j
    <3>6. y = x + (q + 1) * P
      BY <3>4
    <3> HIDE DEF s, y
    <3>7. y \in Int /\ -j \in Int /\ y = g + (-j) * ClockSize
      BY <1>1, <1>2, <1>5, <1>8, <1>9, <3>1, <3>2, <3>5, <3>6
    <3>8. y % ClockSize = g % ClockSize
      BY <1>1, <1>8, <3>7, Congruent
    <3>9. g % ClockSize = g
      BY <1>1, <1>8, SmallRemainder
    <3> QED
      BY <3>3, <3>8, <3>9
  <2> QED
    BY <1>5, <2>1, <2>2
<1>12. Signed(g) = -g /\ g \in Age
  <2> DEFINE c == -g   e == -c
  <2>1. Readable(c) /\ c \in Int /\ c = -g
    BY <1>1, <1>2, <1>8 DEF Readable
  <2>2. e = g /\ e = -c
    BY <1>8
  <2> HIDE DEF c, e
  <2>3. g = (-c) % ClockSize
    BY <1>1, <1>8, <2>2, SmallRemainder
  <2> QED
    BY <2>1, <2>3, SignedIsLate
<1>13. -g = f - P
  BY <1>1, <1>2, <1>8
<1> QED
  BY <1>8, <1>10, <1>11, <1>12, <1>13 DEF P, b, g

(* A poll leaves a release that was due at most a period ahead, and one    *)
(* that was not where it is.                                               *)
LEMMA PolledAhead ==
  ASSUME NEW lead, NEW t \in Task, lead[t] \in Age,
         Readable(Signed(lead[t]))
  PROVE  /\ t \in Due(lead) <=> Signed(lead[t]) >= 0
         /\ Signed(lead[t]) >= 0 =>
              Signed(Polled(lead)[t]) \in -Period[t] .. -1
         /\ Signed(lead[t]) < 0 => Polled(lead)[t] = lead[t]
<1> DEFINE P == Period[t]   b == Signed(lead[t])   x == lead[t]
           f == b % P       q == b \div P
<1>1. P \in Nat \ {0} /\ b \in Int
  BY SchedulerConfigAssumption DEF Readable
<1>2. x = (-b) % ClockSize
  BY LeadIsLate
<1>3. t \in Due(lead) <=> b >= 0
  <2>1. t \in Due(lead) <=> 2 * ((-x) % ClockSize) < ClockSize
    BY DEF Due, Reached, Lateness
  <2> HIDE DEF b, x
  <2> QED
    BY <1>2, <2>1, SignedIsLate DEF b
<1>4. CASE b < 0
  BY <1>3, <1>4, <1>1 DEF Polled, Due
<1>5. CASE b >= 0
  <2>1. f \in 0 .. P - 1 /\ q \in Int /\ b = P * q + f
    BY <1>1, Division
  <2> DEFINE k == q + 1
  <2>2. k \in Int /\ b = f + (k - 1) * P
    <3> HIDE DEF b, P, f, q
    <3> QED
      BY <1>1, <2>1
  <2>3. ~(b < 0)
    BY <1>1, <1>5
  <2> HIDE DEF f, q, k
  <2>4. Signed(Polled(lead)[t]) = f - P
    BY <2>1, <2>2, <2>3, PolledOnGrid
  <2>5. f - P \in -P .. -1
    BY <1>1, <2>1
  <2> QED
    BY <1>3, <1>5, <2>3, <2>4, <2>5
<1> QED
  BY <1>1, <1>4, <1>5
=============================================================================

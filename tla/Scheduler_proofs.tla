-------------------------- MODULE Scheduler_proofs --------------------------
(***************************************************************************)
(* Proofs about Scheduler, for any set of tasks and periods and any clock: *)
(* what is true of the releases of a session that is opened soon enough.   *)
(*                                                                         *)
(* The counter wraps, so a lead says nothing by itself.  Late is what the  *)
(* scheduler reads it as, a signed number; the invariant says that it is   *)
(* the true lateness of the release, a whole number of periods before the  *)
(* next point of the grid (OnTrack), and that a release of a multiple of a *)
(* period is never ahead of one of the period itself (InStep).             *)
(***************************************************************************)
EXTENDS Scheduler, Timing_proofs

(* HELLO comes and the loop comes round before the counter has gone half   *)
(* of its way.                                                             *)
Punctual == 2 * (MaxIdle + MaxGap) < ClockSize

Late(t) == Signed(lead[t])

-----------------------------------------------------------------------------
(* The lateness is the true time since the last point of the grid, and a   *)
(* whole number of periods: minus one for a release that is still ahead.   *)
OnTrack(t) ==
  /\ phase[t] \in 0 .. Period[t] - 1
  /\ \E k \in Nat : Late(t) = phase[t] + (k - 1) * Period[t]
  /\ Late(t) <= idle + gap

(* A poll misses no release: what a task has waited shows in its lateness. *)
Waits(t) ==
  /\ wait[t] \in Nat
  /\ wait[t] <= Late(t) + Period[t]
  /\ wait[t] < Period[t] + gap
  /\ ~open => wait[t] = 0

(* A release of a multiple of a period comes with or after one of it.      *)
InStep(t, u) ==
  Period[u] % Period[t] = 0 =>
    Late(u) <= Late(t) /\ phase[u] % Period[t] = phase[t]

(* The types, as far as they are inductive by themselves.                  *)
Typed ==
  /\ lead \in [Task -> Age]
  /\ due \in SUBSET Task
  /\ open \in BOOLEAN
  /\ gap \in 0 .. MaxGap
  /\ idle \in 0 .. MaxIdle
  /\ ~open => gap = 0

(* The inductive invariant.                                                *)
IInv ==
  /\ Typed
  /\ \A t \in Task : OnTrack(t) /\ Waits(t)
  /\ \A t, u \in Task : InStep(t, u)
  /\ Harmonic

(* What is assumed of the constants.                                       *)
LEMMA Facts ==
  /\ ClockSize \in Nat \ {0} /\ MaxGap \in Nat /\ MaxIdle \in Nat
  /\ \A t \in Task : Period[t] \in Nat \ {0} /\ 2 * Period[t] < ClockSize
BY ClockAssumption, SchedulerConfigAssumption, SchedulerAssumption

(* No release is as late, or as far ahead, as half the counter.            *)
LEMMA NeverHalfway ==
  ASSUME Punctual, Typed, NEW t \in Task, OnTrack(t)
  PROVE  /\ Late(t) \in Int /\ -Period[t] <= Late(t)
         /\ Late(t) < 0 => Late(t) = phase[t] - Period[t]
         /\ \A d \in Nat : idle + gap + d <= MaxIdle + MaxGap =>
                             Readable(Late(t) + d)
<1> DEFINE P == Period[t]   f == phase[t]   b == Late(t)
<1>1. P \in Nat \ {0} /\ 2 * P < ClockSize /\ ClockSize \in Nat
  BY Facts
<1>2. f \in 0 .. P - 1 /\ b <= idle + gap
  BY DEF OnTrack
<1>3. PICK k \in Nat : b = f + (k - 1) * P
  BY DEF OnTrack
<1>4. idle \in Nat /\ gap \in Nat /\ MaxIdle \in Nat /\ MaxGap \in Nat
  BY Facts DEF Typed
<1> HIDE DEF P, f, b
<1>5. k * P \in Nat /\ (k >= 1 => k * P >= P)
  BY <1>1
<1>6. b = f + k * P - P
  BY <1>1, <1>2, <1>3
<1>7. b \in Int /\ -P <= b
  BY <1>1, <1>2, <1>5, <1>6
<1>8. b < 0 => b = f - P
  <2>1. CASE k = 0
    BY <1>1, <1>2, <1>3, <2>1
  <2>2. CASE k >= 1
    BY <1>1, <1>2, <1>5, <1>6, <2>2
  <2> QED
    BY <2>1, <2>2
<1>9. ASSUME NEW d \in Nat, idle + gap + d <= MaxIdle + MaxGap
      PROVE  Readable(b + d)
  <2>1. 2 * (MaxIdle + MaxGap) < ClockSize
    BY DEF Punctual
  <2> QED
    BY <1>1, <1>2, <1>4, <1>7, <1>9, <2>1 DEF Readable
<1> QED
  BY <1>7, <1>8, <1>9 DEF P, f, b

(* What a poll does to a release.                                          *)
LEMMA PolledOnTime ==
  ASSUME Punctual, Typed, NEW t \in Task, OnTrack(t)
  PROVE  /\ t \in Due(lead) <=> Late(t) >= 0
         /\ Polled(lead)[t] = Period[t] - phase[t]
         /\ Polled(lead)[t] \in Age
         /\ Signed(Polled(lead)[t]) = phase[t] - Period[t]
<1> DEFINE b == Late(t)
<1>1. PICK k \in Nat : b = phase[t] + (k - 1) * Period[t]
  BY DEF OnTrack
<1>2. phase[t] \in 0 .. Period[t] - 1 /\ lead[t] \in Age
  BY DEF OnTrack, Typed
<1>3. Readable(b) /\ (b < 0 => b = phase[t] - Period[t])
  <2>1. Readable(b + 0) /\ b \in Int /\ (b < 0 => b = phase[t] - Period[t])
    <3>1. 0 \in Nat /\ idle + gap + 0 <= MaxIdle + MaxGap
      BY Facts DEF Typed
    <3> QED
      BY <3>1, NeverHalfway
  <2>2. b + 0 = b
    BY <2>1
  <2> QED
    BY <2>1, <2>2
<1>4. k \in Int /\ b = Signed(lead[t])
  BY DEF Late
<1> HIDE DEF b
<1> QED
  BY <1>1, <1>2, <1>3, <1>4, PolledOnGrid DEF b

-----------------------------------------------------------------------------
(* At boot every release is one period ahead.                              *)
LEMMA InitIInv ==
  ASSUME Punctual, Init
  PROVE  IInv
<1>1. ASSUME NEW t \in Task
      PROVE  /\ lead[t] \in Age /\ Late(t) = -Period[t]
             /\ OnTrack(t) /\ Waits(t)
  <2> DEFINE P == Period[t]   c == -P   e == -c
  <2>1. P \in Nat \ {0} /\ 2 * P < ClockSize /\ ClockSize \in Nat \ {0}
    BY Facts
  <2>2. lead[t] = P /\ phase[t] = 0 /\ wait[t] = 0 /\ gap = 0 /\ idle = 0
    BY DEF Init, Released
  <2>3. Readable(c) /\ c \in Int /\ c = -P /\ e = P
    BY <2>1 DEF Readable
  <2> HIDE DEF P, c
  <2>4. P = (-c) % ClockSize
    BY <2>1, <2>3, SmallRemainder
  <2>5. Signed(P) = c /\ P \in Age
    BY <2>3, <2>4, SignedIsLate
  <2>6. Late(t) = 0 + (0 - 1) * P /\ Late(t) = -P
    BY <2>1, <2>2, <2>3, <2>5 DEF Late
  <2> QED
    BY <2>1, <2>2, <2>5, <2>6 DEF OnTrack, Waits, P
<1>2. Typed
  <2>1. lead = [t \in Task |-> lead[t]]
    BY DEF Init, Released
  <2>2. lead \in [Task -> Age]
    BY <1>1, <2>1
  <2>3. gap \in 0 .. MaxGap /\ idle \in 0 .. MaxIdle /\ gap = 0
    BY Facts DEF Init
  <2>4. due \in SUBSET Task /\ open \in BOOLEAN
    BY DEF Init
  <2> QED
    BY <2>2, <2>3, <2>4 DEF Typed
<1>3. ASSUME NEW t \in Task, NEW u \in Task PROVE InStep(t, u)
  <2>1. SUFFICES ASSUME Period[u] % Period[t] = 0
                 PROVE  Late(u) <= Late(t) /\ phase[u] % Period[t] = phase[t]
    BY DEF InStep
  <2>2. Period[t] \in Nat \ {0} /\ Period[u] \in Nat \ {0}
    BY Facts
  <2>3. 0 \in 0 .. Period[u] - 1 /\ 0 % Period[t] = 0
    BY <2>2, SmallRemainder
  <2>4. Period[t] - (0 % Period[t]) <= Period[u] - 0
    BY <2>1, <2>2, <2>3, NextMultiple
  <2> QED
    BY <1>1, <2>2, <2>3, <2>4 DEF Init
<1> QED
  BY <1>1, <1>2, <1>3 DEF IInv, Harmonic, Init

(* Time adds the same to the phase and the lateness of every task.         *)
LEMMA AdvanceIInv ==
  ASSUME Punctual, IInv, NEW d \in 1 .. MaxGap, Advance(d)
  PROVE  IInv'
<1>1. Typed /\ d \in Nat /\ gap \in Nat /\ idle \in Nat
  BY Facts DEF IInv, Typed
<1>2. /\ gap' \in 0 .. MaxGap /\ idle' \in 0 .. MaxIdle
      /\ idle' + gap' = idle + gap + d
      /\ idle + gap + d <= MaxIdle + MaxGap
  BY <1>1, Facts DEF Advance, Typed
<1>0. open' = open /\ (open => gap' = gap + d) /\ (~open' => gap' = 0)
  BY <1>1 DEF Advance, Typed
<1>3. ASSUME NEW t \in Task
      PROVE  lead'[t] \in Age /\ Late(t)' = Late(t) + d /\ Late(t) \in Int
  <2>1. OnTrack(t)
    BY DEF IInv
  <2>2. Readable(Late(t) + d) /\ Late(t) \in Int
    BY <1>1, <1>2, <2>1, NeverHalfway
  <2>3. lead[t] \in Age /\ lead'[t] = (lead[t] - d) % ClockSize
    BY <1>1 DEF Typed, Advance, Nearer
  <2> QED
    BY <1>1, <2>2, <2>3, NearerIsLater DEF Late
<1>4. ASSUME NEW t \in Task
      PROVE  OnTrack(t)'
  <2> DEFINE P == Period[t]   f == phase[t] + d   q == f \div P   r == f % P
  <2>1. P \in Nat \ {0} /\ phase[t] \in 0 .. P - 1 /\ phase'[t] = r
    BY Facts DEF IInv, OnTrack, Advance
  <2>2. PICK k \in Nat : Late(t) = phase[t] + (k - 1) * P
    BY DEF IInv, OnTrack
  <2>3. f \in Nat /\ f = phase[t] + d
    BY <1>1, <2>1
  <2>8. f \in Int /\ P \in Nat \ {0}
    BY <2>1, <2>3
  <2> HIDE DEF P, f, q, r
  <2>4. f = P * q + r /\ r \in 0 .. P - 1 /\ q \in Int
    BY <2>8, Division DEF q, r
  <2>5. q >= 0
    <3>1. SUFFICES ASSUME q <= -1 PROVE FALSE
      BY <2>4
    <3>2. P * (q + 1) <= 0
      BY <2>1, <2>4, <3>1
    <3> QED
      BY <2>1, <2>3, <2>4, <3>2
  <2>6. /\ k + q \in Nat
        /\ Late(t)' = phase'[t] + ((k + q) - 1) * P
    BY <1>1, <1>3, <2>1, <2>2, <2>3, <2>4, <2>5
  <2>7. Late(t)' <= idle' + gap'
    <3>1. Late(t) <= idle + gap
      BY DEF IInv, OnTrack
    <3>2. Late(t) \in Int
      BY <1>3
    <3>3. Late(t) + d <= (idle + gap) + d
      BY <1>1, <3>1, <3>2
    <3>4. (idle + gap) + d = idle' + gap'
      BY <1>2
    <3>5. Late(t) + d <= idle' + gap'
      BY <3>3, <3>4
    <3> QED
      BY <1>3, <3>5
  <2> QED
    BY <2>1, <2>4, <2>6, <2>7 DEF OnTrack, P
<1>5. ASSUME NEW t \in Task
      PROVE  Waits(t)'
  <2>1. Waits(t) /\ Period[t] \in Nat
    BY Facts DEF IInv
  <2>2. wait'[t] = IF open THEN wait[t] + d ELSE wait[t]
    BY DEF Advance
  <2>3. CASE open
    BY <1>0, <1>1, <1>2, <1>3, <2>1, <2>2, <2>3 DEF Waits
  <2>4. CASE ~open
    BY <1>0, <1>1, <1>2, <1>3, <2>1, <2>2, <2>4 DEF Waits, Typed
  <2> QED
    BY <2>3, <2>4
<1>6. ASSUME NEW t \in Task, NEW u \in Task
      PROVE  InStep(t, u)'
  <2>1. SUFFICES ASSUME Period[u] % Period[t] = 0
                 PROVE  /\ Late(u)' <= Late(t)'
                        /\ phase'[u] % Period[t] = phase'[t]
    BY DEF InStep
  <2>2. Late(u) <= Late(t) /\ phase[u] % Period[t] = phase[t]
    BY <2>1 DEF IInv, InStep
  <2>3. Period[t] \in Nat \ {0} /\ Period[u] \in Nat \ {0}
        /\ phase[u] \in Nat
    BY Facts DEF IInv, OnTrack
  <2>4. ((phase[u] + d) % Period[u]) % Period[t]
          = ((phase[u] % Period[t]) + d) % Period[t]
    <3> DEFINE m == Period[t]   n == Period[u]   f == phase[u]
               g == f + d   h == (f % m) + d
    <3>1. /\ m \in Nat \ {0} /\ n \in Nat \ {0} /\ n % m = 0
          /\ f \in Nat /\ d \in Nat /\ g = f + d /\ h = (f % m) + d
      BY <1>1, <2>1, <2>3
    <3> HIDE DEF m, n, f, g, h
    <3> DEFINE j == f \div m   l == f % m
    <3>2. f = m * j + l /\ j \in Int /\ l \in Int /\ h = l + d
      BY <3>1, Division
    <3> HIDE DEF j, l
    <3>3. g \in Int /\ h \in Int /\ g = h + j * m
      BY <3>1, <3>2
    <3>4. (g % n) % m = g % m
      BY <3>1, <3>3, DivisorRemainder
    <3>5. g % m = h % m
      BY <3>1, <3>2, <3>3, Congruent
    <3> QED
      BY <3>4, <3>5 DEF m, n, f, g, h, l
  <2>5. /\ phase'[u] = (phase[u] + d) % Period[u]
        /\ phase'[t] = (phase[t] + d) % Period[t]
    BY DEF Advance
  <2> QED
    BY <1>1, <1>3, <2>2, <2>4, <2>5
<1>7. Typed'
  <2>1. lead' \in [Task -> Age]
    BY <1>3 DEF Advance, Nearer
  <2> QED
    BY <1>0, <1>1, <1>2, <2>1 DEF Typed, Advance
<1>8. Harmonic'
  BY DEF Harmonic, Advance
<1> QED
  BY <1>4, <1>5, <1>6, <1>7, <1>8 DEF IInv

(* Opening the session moves nothing.                                      *)
LEMMA OpenIInv ==
  ASSUME IInv, Open
  PROVE  IInv'
<1>1. ASSUME NEW t \in Task PROVE OnTrack(t)' /\ Waits(t)'
  BY DEF IInv, OnTrack, Waits, Late, Open
<1>2. ASSUME NEW t \in Task, NEW u \in Task PROVE InStep(t, u)'
  BY DEF IInv, InStep, Late, Open
<1>3. Typed' /\ Harmonic'
  BY DEF IInv, Typed, Harmonic, Open
<1> QED
  BY <1>1, <1>2, <1>3 DEF IInv

(* A poll takes the due releases back to the grid.                         *)
LEMMA PollIInv ==
  ASSUME Punctual, IInv, Poll
  PROVE  IInv'
<1>1. Typed /\ gap \in Nat /\ idle \in Nat
  BY Facts DEF IInv, Typed
<1>2. ASSUME NEW t \in Task
      PROVE  /\ lead'[t] \in Age
             /\ Late(t)' = phase[t] - Period[t]
             /\ phase[t] \in 0 .. Period[t] - 1
             /\ Period[t] \in Nat \ {0}
             /\ Late(t) \in Int /\ (Late(t) < 0 => Late(t)' = Late(t))
             /\ t \in due' <=> Late(t) >= 0
  <2>1. OnTrack(t)
    BY DEF IInv
  <2>2. /\ lead'[t] \in Age /\ Signed(lead'[t]) = phase[t] - Period[t]
        /\ t \in due' <=> Late(t) >= 0
    BY <1>1, <2>1, PolledOnTime DEF Poll
  <2> QED
    BY <1>1, <2>1, <2>2, Facts, NeverHalfway DEF Late, OnTrack
<1>3. /\ gap' = 0 /\ idle' = idle /\ phase' = phase /\ open /\ open'
      /\ \A t \in Task : wait'[t] = IF t \in due' THEN 0 ELSE wait[t]
  BY DEF Poll
<1>4. ASSUME NEW t \in Task PROVE OnTrack(t)'
  <2>1. /\ phase'[t] \in 0 .. Period[t] - 1
        /\ Late(t)' = phase'[t] + (0 - 1) * Period[t]
        /\ Late(t)' <= idle' + gap'
    BY <1>1, <1>2, <1>3
  <2> QED
    BY <2>1 DEF OnTrack
<1>5. ASSUME NEW t \in Task PROVE Waits(t)'
  <2>1. Waits(t)
    BY DEF IInv
  <2>2. CASE t \in due'
    BY <1>2, <1>3, <2>2 DEF Waits
  <2>3. CASE t \notin due'
    BY <1>2, <1>3, <2>1, <2>3 DEF Waits
  <2> QED
    BY <2>2, <2>3
<1>6. ASSUME NEW t \in Task, NEW u \in Task PROVE InStep(t, u)'
  <2>1. SUFFICES ASSUME Period[u] % Period[t] = 0
                 PROVE  /\ Late(u)' <= Late(t)'
                        /\ phase'[u] % Period[t] = phase'[t]
    BY DEF InStep
  <2>2. phase[u] % Period[t] = phase[t]
    BY <2>1 DEF IInv, InStep
  <2>3. Period[t] - (phase[u] % Period[t]) <= Period[u] - phase[u]
    BY <1>2, <2>1, NextMultiple
  <2> QED
    BY <1>2, <1>3, <2>2, <2>3
<1>7. Harmonic'
  <2>1. ASSUME NEW t \in Task, NEW u \in Task, u \in due',
               Period[u] % Period[t] = 0
        PROVE  t \in due'
    BY <1>2, <2>1 DEF IInv, InStep
  <2> QED
    BY <2>1 DEF Harmonic
<1>8. Typed'
  <2>1. lead' = [t \in Task |-> lead'[t]] /\ due' \in SUBSET Task
    BY DEF Poll, Polled, Due
  <2>2. lead' \in [Task -> Age]
    BY <1>2, <2>1
  <2> QED
    BY <1>1, <1>3, <2>1, <2>2, Facts DEF Typed
<1> QED
  BY <1>4, <1>5, <1>6, <1>7, <1>8 DEF IInv

(* A step that changes nothing keeps it.                                   *)
LEMMA StutterIInv ==
  ASSUME IInv, UNCHANGED vars
  PROVE  IInv'
BY DEF vars, IInv, Typed, OnTrack, Waits, InStep, Late, Harmonic

(* Every step of the scheduler keeps it.                                   *)
LEMMA NextIInv ==
  ASSUME Punctual, IInv, [Next]_vars
  PROVE  IInv'
<1>1. CASE \E d \in 1 .. MaxGap : Advance(d)
  BY <1>1, AdvanceIInv
<1>2. CASE Open
  BY <1>2, OpenIInv
<1>3. CASE Poll
  BY <1>3, PollIInv
<1>4. CASE UNCHANGED vars
  BY <1>4, StutterIInv
<1> QED
  BY <1>1, <1>2, <1>3, <1>4 DEF Next

(* The invariant holds in every state, if HELLO and the loop are punctual. *)
THEOREM Inductive ==
  ASSUME Punctual
  PROVE  Spec => []IInv
<1>1. Init => IInv
  BY InitIInv
<1>2. IInv /\ [Next]_vars => IInv'
  BY NextIInv
<1> QED
  BY <1>1, <1>2, PTL DEF Spec

(* Leads stay within the counter, and no task waits for more than a period *)
(* and the longest time between two polls.                                 *)
THEOREM TypesCorrect ==
  ASSUME Punctual
  PROVE  Spec => []TypeOK
<1>1. IInv => TypeOK
  <2>1. ASSUME IInv, NEW t \in Task
        PROVE  wait[t] \in 0 .. Period[t] + MaxGap
    BY <2>1, Facts DEF IInv, Waits, Typed
  <2> QED
    BY <2>1 DEF IInv, Typed, OnTrack, TypeOK
<1> QED
  BY <1>1, Inductive, PTL

(* CooperativeScheduler::poll releases every task in time, whatever its    *)
(* period and however the counter wraps.                                   *)
THEOREM Punctuality ==
  ASSUME Punctual
  PROVE  Spec => []ReleasedInTime
<1>1. IInv => ReleasedInTime
  BY DEF IInv, Waits, ReleasedInTime
<1> QED
  BY <1>1, Inductive, PTL

(* A release of a multiple of a period comes with one of the period, so    *)
(* that FirmwareSession::tick never drops it.                              *)
THEOREM Harmony ==
  ASSUME Punctual
  PROVE  Spec => []Harmonic
<1>1. IInv => Harmonic
  BY DEF IInv
<1> QED
  BY <1>1, Inductive, PTL

(* The next release that CooperativeScheduler::poll leaves is the next     *)
(* point of the grid laid at boot.                                         *)
THEOREM NoDrift ==
  ASSUME Punctual
  PROVE  Spec => OnGrid
<1>1. ASSUME IInv, Poll, NEW t \in Task
      PROVE  lead'[t] = Period[t] - phase[t]
  BY <1>1, PolledOnTime DEF IInv, Poll
<1>2. IInv /\ [Next]_vars
        => [Poll => \A t \in Task : lead'[t] = Period[t] - phase[t]]_vars
  BY <1>1
<1> QED
  BY <1>2, Inductive, PTL DEF Spec, OnGrid
=============================================================================

------------------------- MODULE ClosedLoop_proofs -------------------------
(***************************************************************************)
(* What holds of the closed loop for every scenario, every link and every  *)
(* value of the constants.                                                 *)
(*                                                                         *)
(* A stop that the controller has latched reaches the plant within the     *)
(* command timeout.  The argument follows one iteration, k, of a           *)
(* controller that has stopped for a steps (0 if it has not):              *)
(*                                                                         *)
(*   - whatever is under way to the host, answered, delayed or kept for a  *)
(*     replay, and can drive, carries a step p with p + a < k (Bygone);    *)
(*   - what reaches the controller before the exchange cannot make it      *)
(*     send a drive command of step k (Fits): it is of an older step, a    *)
(*     stop, or finds the control release of this step used up (Idle);     *)
(*   - in the exchange the controller may send one of step k, but only     *)
(*     while it has not latched a stop, and none after it (Lawful);        *)
(*   - what is under way then is Bygone for k + 1 and the new age of the   *)
(*     stop, and so is the command that the host keeps (Behind).           *)
(*                                                                         *)
(* The same iteration takes its commands in order: what is under way is of *)
(* no later step than k (Dated), what the host takes is no older than what *)
(* its tracker remembers (InStep), and the command it goes on with is one  *)
(* of those, or none (LastIsInStep).                                       *)
(*                                                                         *)
(* Folds of sequences (what the link, the session and the pipeline do      *)
(* frame after frame) are followed through the sequence of their partial   *)
(* results, whose existence is shown once for each of them (DeliveredRuns, *)
(* ShapedRuns, PacketsRun, CommandsRun, RouteRuns, SamplesRun).            *)
(*                                                                         *)
(* Every sample that was taken has been delivered, dropped, or is under    *)
(* way, so that none is missing from the log when the run ends.            *)
(*                                                                         *)
(* And no exception ends the run.  What the controller sends is numbered   *)
(* within half of the sequence numbers, since each call moves its counter  *)
(* on by no more than a call may send (Within, Budget); the host reads     *)
(* such a frame without an error (Heeded), for an answer to HELLO that     *)
(* comes again is number 0 and therefore older; and so the session is      *)
(* heard, times out or is stopped, but never fails (Attentive), and takes  *)
(* what the loop sends it (Going).                                         *)
(***************************************************************************)
EXTENDS ClosedLoop, FiniteSetTheorems, SequenceTheorems,
        WellFoundedInduction, TLAPS

-----------------------------------------------------------------------------
(* Sequences of anything, and what they hold.                              *)
IsSeq(q) == q \in Seq(Range(q))

LEMMA SeqOver ==
  ASSUME NEW X, NEW q \in Seq(X)
  PROVE  IsSeq(q) /\ Range(q) \subseteq X
<1>1. \A i \in DOMAIN q : q[i] \in Range(q) /\ q[i] \in X
  BY DEF Range
<1>2. q = [i \in 1 .. Len(q) |-> q[i]] /\ Len(q) \in Nat
  OBVIOUS
<1>3. DOMAIN q = 1 .. Len(q)
  OBVIOUS
<1>4. q \in Seq(Range(q))
  BY <1>1, <1>2, <1>3
<1> QED
  BY <1>1, <1>4 DEF IsSeq, Range

LEMMA SeqBetween ==
  ASSUME NEW X, NEW q, IsSeq(q), Range(q) \subseteq X
  PROVE  q \in Seq(X)
BY DEF IsSeq

LEMMA NoCells ==
  ASSUME NEW q, q = <<>>
  PROVE  IsSeq(q) /\ Range(q) = {} /\ Len(q) = 0
<1>1. q \in Seq(Nat) /\ Len(q) = 0 /\ DOMAIN q = {}
  OBVIOUS
<1>2. IsSeq(q)
  BY <1>1, SeqOver
<1> QED
  BY <1>1, <1>2 DEF Range

LEMMA OneCell ==
  ASSUME NEW x, NEW q, q = <<x>>
  PROVE  IsSeq(q) /\ Range(q) = {x} /\ Len(q) = 1 /\ q[1] = x
<1>1. q \in Seq({x}) /\ Len(q) = 1 /\ DOMAIN q = 1 .. 1 /\ q[1] = x
  OBVIOUS
<1>2. IsSeq(q)
  BY <1>1, SeqOver
<1> QED
  BY <1>1, <1>2 DEF Range

LEMMA SeqAppend ==
  ASSUME NEW q, NEW e, IsSeq(q)
  PROVE  /\ IsSeq(Append(q, e))
         /\ Range(Append(q, e)) = Range(q) \cup {e}
         /\ Len(q) \in Nat /\ Len(Append(q, e)) = Len(q) + 1
<1> DEFINE X == Range(q) \cup {e}
           a == Append(q, e)
<1>1. q \in Seq(X) /\ e \in X
  BY SeqBetween
<1>2. /\ a \in Seq(X) /\ Len(a) = Len(q) + 1 /\ Len(q) \in Nat
      /\ \A i \in 1 .. Len(q) : a[i] = q[i]
      /\ a[Len(q) + 1] = e
  <2> HIDE DEF X
  <2> QED
    BY <1>1, AppendProperties
<1>3. DOMAIN q = 1 .. Len(q) /\ DOMAIN a = 1 .. Len(q) + 1
  <2> HIDE DEF X, a
  <2> QED
    BY <1>1, <1>2
<1> HIDE DEF a
<1>4. \A x \in X : \E i \in DOMAIN a : x = a[i]
  <2>1. \A x \in Range(q) : \E i \in DOMAIN q : x = q[i]
    BY DEF Range
  <2> QED
    BY <1>2, <1>3, <2>1
<1>5. X \subseteq Range(a)
  BY <1>4 DEF Range
<1>6. IsSeq(a) /\ Range(a) \subseteq X
  <2> HIDE DEF X
  <2> QED
    BY <1>2, SeqOver
<1> QED
  BY <1>2, <1>5, <1>6 DEF a

LEMMA SeqLength ==
  ASSUME NEW q, IsSeq(q)
  PROVE  /\ Len(q) \in Nat /\ DOMAIN q = 1 .. Len(q)
         /\ Len(q) = 0 <=> q = <<>>
         /\ Range(q) = {q[i] : i \in 1 .. Len(q)}
BY DEF IsSeq, Range

LEMMA SeqConcat ==
  ASSUME NEW a, NEW b, IsSeq(a), IsSeq(b)
  PROVE  /\ IsSeq(a \o b) /\ Range(a \o b) = Range(a) \cup Range(b)
         /\ Len(a \o b) = Len(a) + Len(b)
         /\ a # <<>> => a \o b # <<>>
<1> DEFINE X == Range(a) \cup Range(b)
           c == a \o b
<1>1. a \in Seq(X) /\ b \in Seq(X)
  BY SeqBetween
<1> HIDE DEF X
<1>2. /\ c \in Seq(X) /\ Len(c) = Len(a) + Len(b)
      /\ Len(a) \in Nat /\ Len(b) \in Nat
      /\ \A i \in 1 .. Len(a) : c[i] = a[i]
      /\ \A i \in 1 .. Len(b) : c[Len(a) + i] = b[i]
  BY <1>1, ConcatProperties
<1>3. /\ Range(a) = {a[i] : i \in 1 .. Len(a)}
      /\ Range(b) = {b[i] : i \in 1 .. Len(b)}
      /\ Len(a) = 0 <=> a = <<>>
  BY SeqLength
<1> HIDE DEF c
<1>4. IsSeq(c) /\ Range(c) \subseteq X
  BY <1>2, SeqOver
<1>5. Range(c) = {c[i] : i \in 1 .. Len(c)} /\ (Len(c) = 0 <=> c = <<>>)
  BY <1>4, SeqLength
<1>6. Range(a) \subseteq Range(c)
  BY <1>2, <1>3, <1>5
<1>7. Range(b) \subseteq Range(c)
  <2>1. \A i \in 1 .. Len(b) : Len(a) + i \in 1 .. Len(c)
    BY <1>2
  <2> QED
    BY <1>2, <1>3, <1>5, <2>1
<1>8. a # <<>> => c # <<>>
  BY <1>2, <1>3, <1>5
<1> QED
  BY <1>2, <1>4, <1>6, <1>7, <1>8 DEF X, c

LEMMA SeqTail ==
  ASSUME NEW q, IsSeq(q), q # <<>>
  PROVE  /\ IsSeq(Tail(q)) /\ Range(Tail(q)) \subseteq Range(q)
         /\ Head(q) \in Range(q)
         /\ Len(q) \in Nat \ {0} /\ Len(Tail(q)) = Len(q) - 1
<1>1. q \in Seq(Range(q)) /\ Len(q) \in Nat
  BY DEF IsSeq
<1>2. Tail(q) \in Seq(Range(q)) /\ Len(Tail(q)) = Len(q) - 1
      /\ Head(q) \in Range(q) /\ Len(q) # 0
  <2> DEFINE X == Range(q)
  <2> HIDE DEF X
  <2>1. q \in Seq(X) /\ q # <<>>
    BY <1>1 DEF X
  <2>2. Tail(q) \in Seq(X) /\ Len(Tail(q)) = Len(q) - 1 /\ Head(q) \in X
        /\ Len(q) # 0
    BY <2>1, HeadTailProperties, EmptySeq
  <2> QED
    BY <2>2 DEF X
<1>3. IsSeq(Tail(q)) /\ Range(Tail(q)) \subseteq Range(q)
  BY <1>2, SeqOver
<1> QED
  BY <1>1, <1>2, <1>3

-----------------------------------------------------------------------------
(* What % is, and what it makes of a number at most once round.            *)
LEMMA Division ==
  ASSUME NEW a \in Int, NEW n \in Nat \ {0}
  PROVE  a % n \in 0 .. n - 1
OBVIOUS

LEMMA Remains ==
  ASSUME NEW a \in Nat, NEW n \in Nat \ {0}
  PROVE  a % n \in 0 .. a
<1>1. /\ a = n * (a \div n) + (a % n)
      /\ a % n \in 0 .. n - 1 /\ a \div n \in Int
  OBVIOUS
<1>2. n * (a \div n) >= 0
  <2> DEFINE q == a \div n
  <2>1. q \in Int /\ a = n * q + (a % n) /\ a % n < n
    BY <1>1
  <2> HIDE DEF q
  <2>2. ~(q <= -1)
    BY <1>1, <2>1
  <2> QED
    BY <2>1, <2>2 DEF q
<1> QED
  BY <1>1, <1>2

LEMMA OnceRound ==
  ASSUME NEW n \in Nat \ {0}, NEW a \in Int, -n < a, a < 0
  PROVE  a % n = a + n
<1>1. /\ a = n * (a \div n) + (a % n)
      /\ a % n \in 0 .. n - 1 /\ a \div n \in Int
  OBVIOUS
<1>2. a \div n = -1
  <2> DEFINE q == a \div n
  <2>1. /\ q \in Int
        /\ -n < n * q + (n - 1) /\ n * q < 0
    BY <1>1
  <2> HIDE DEF q
  <2>2. ~(q >= 0)
    BY <2>1
  <2>3. ~(q <= -2)
    BY <2>1
  <2> QED
    BY <2>1, <2>2, <2>3 DEF q
<1> QED
  BY <1>1, <1>2

-----------------------------------------------------------------------------
(* The controller: its session, and what a call may make of it.            *)
IsSession(s) ==
  /\ s = [rt |-> s.rt, lead |-> s.lead, active |-> s.active, tx |-> s.tx,
          sensors |-> s.sensors, tracker |-> s.tracker,
          samples |-> s.samples, assembly |-> s.assembly,
          points |-> s.points, route |-> s.route,
          initialized |-> s.initialized, command |-> s.command,
          drives |-> s.drives, stepped |-> s.stepped,
          healthAge |-> s.healthAge, beatAge |-> s.beatAge,
          emitted |-> s.emitted]
  /\ s.assembly = [id |-> s.assembly.id, expected |-> s.assembly.expected,
                   received |-> s.assembly.received]
  /\ s.rt \in K!C!RuntimeRecord
  /\ s.active \in BOOLEAN /\ s.stepped \in BOOLEAN
  /\ s.initialized \in BOOLEAN
  /\ IsSeq(s.sensors) /\ Len(s.sensors) <= SensorCapacity

Halted(s) == s.rt.state \in K!C!Latched
Idle(s) == s.stepped \/ "Control" \notin K!C!Due(s.lead)
Drive(p) == p.type = "Command" /\ p.mode = "Tracking"

(* A frame before it is numbered.                                          *)
Plain(p) ==
  /\ "type" \in DOMAIN p /\ p.type # "Corrupt"
  /\ p.type = "Command" => "mode" \in DOMAIN p
  /\ p.type = "HelloAck" => "ok" \in DOMAIN p /\ p.ok
  /\ DOMAIN p \cap {"seq", "step", "decodes"} = {}
Quiet(p) == Plain(p) /\ ~Drive(p)

LEMMA RuntimeTicks ==
  ASSUME NEW r \in K!C!RuntimeRecord, NEW mode \in K!C!NavigationMode,
         NEW healthy \in BOOLEAN, NEW ready \in BOOLEAN,
         NEW n, n = K!C!Ticked(r, mode, healthy, ready)
  PROVE  /\ n \in K!C!RuntimeRecord
         /\ r.state \in K!C!Latched => n.state \in K!C!Latched
<1> DEFINE w == K!C!Watchdog(r)
           h == K!C!HealthCheck(w, healthy)
<1>1. /\ w \in K!C!RuntimeRecord
      /\ r.state \in K!C!Latched => w.state \in K!C!Latched
  BY DEF K!C!Watchdog, K!C!Transition, K!C!RuntimeRecord, K!C!SafetyState,
         K!C!Latched
<1>2. n = K!C!Navigate(h, mode, healthy, ready)
  BY DEF K!C!Ticked
<1> HIDE DEF w
<1>3. /\ h \in K!C!RuntimeRecord
      /\ w.state \in K!C!Latched => h.state \in K!C!Latched
  BY <1>1 DEF K!C!HealthCheck, K!C!ReportNumericalFault, K!C!Transition,
              K!C!RuntimeRecord, K!C!SafetyState, K!C!Latched
<1> HIDE DEF h
<1>4. 0 \in K!C!Age
  BY ControllerAssumption DEF K!C!Age
<1>5. CASE h.state = "Ready"
  <2>1. n = K!C!Start(h, mode, healthy, ready)
    BY <1>2, <1>5 DEF K!C!Navigate
  <2> QED
    BY <1>1, <1>3, <1>5, <2>1
    DEF K!C!Start, K!C!Transition, K!C!RuntimeRecord, K!C!SafetyState,
        K!C!Latched
<1>6. CASE h.state = "Running"
  <2>1. n = K!C!FromRunning(h, mode)
    BY <1>2, <1>6 DEF K!C!Navigate
  <2> QED
    BY <1>1, <1>3, <1>4, <1>6, <2>1
    DEF K!C!FromRunning, K!C!RuntimeRecord, K!C!SafetyState, K!C!Latched
<1>7. CASE h.state = "Degraded"
  <2>1. n = K!C!FromDegraded(h, mode)
    BY <1>2, <1>7 DEF K!C!Navigate
  <2>2. K!C!StillBlind(h) \in K!C!RuntimeRecord
    <3>1. h.blindAge \in Int /\ UnavailableGrace \in Int
      BY <1>3, ControllerAssumption DEF K!C!RuntimeRecord, K!C!Age
    <3>2. \/ K!C!StillBlind(h) = [h EXCEPT !.blind = TRUE, !.blindAge = 0]
          \/ K!C!StillBlind(h) = h
          \/ K!C!StillBlind(h) = [h EXCEPT !.state = "SafeStop"]
      BY <1>3, <3>1 DEF K!C!StillBlind, K!C!Transition, K!C!RuntimeRecord
    <3> QED
      BY <1>3, <1>4, <3>2 DEF K!C!RuntimeRecord, K!C!SafetyState
  <2>3. \/ n = [h EXCEPT !.blind = FALSE, !.state = "Running"]
        \/ n = [h EXCEPT !.blind = FALSE]
        \/ n = K!C!StillBlind(h)
    BY <2>1 DEF K!C!FromDegraded, K!C!NavigationMode, K!C!Aided, K!C!Unaided
  <2> QED
    BY <1>1, <1>3, <1>7, <2>2, <2>3
    DEF K!C!RuntimeRecord, K!C!SafetyState, K!C!Latched
<1>8. CASE h.state \notin {"Ready", "Running", "Degraded"}
  <2>1. n = h
    BY <1>2, <1>8 DEF K!C!Navigate
  <2> QED
    BY <1>1, <1>3, <2>1
<1> QED
  BY <1>5, <1>6, <1>7, <1>8

LEMMA CoreSteps ==
  ASSUME NEW s, IsSession(s), NEW n, n = K!C!CoreStep(s, "GnssAided")
  PROVE  /\ IsSession(n)
         /\ n.lead = s.lead /\ n.active = s.active /\ n.tx = s.tx
         /\ n.sensors = s.sensors /\ n.stepped = s.stepped
         /\ n.initialized = s.initialized
         /\ Halted(s) => Halted(n)
         /\ n.command = "Control" => ~Halted(n) /\ s.initialized
         /\ n.command # "Tracking"
<1> DEFINE known == IF s.initialized THEN "GnssAided" ELSE "Unavailable"
           ready == s.route # <<>>
           next == K!C!Ticked(s.rt, known, s.initialized, ready)
           decision == K!C!Decide(next, known, s.initialized, ready)
           moves == IF decision = "Control" THEN s.drives + 1 ELSE s.drives
<1>1. n = [s EXCEPT !.rt = next, !.command = decision, !.drives = moves]
  BY DEF K!C!CoreStep
<1>2. known \in K!C!NavigationMode /\ ready \in BOOLEAN
  BY DEF K!C!NavigationMode
<1>3. /\ decision = "Control" =>
           next.state \notin K!C!Latched /\ s.initialized
      /\ decision # "Tracking"
  BY DEF K!C!Decide, K!C!Driving, K!C!Latched
<1> HIDE DEF known, ready, decision, moves
<1>4. /\ next \in K!C!RuntimeRecord
      /\ s.rt.state \in K!C!Latched => next.state \in K!C!Latched
  BY <1>2, RuntimeTicks DEF IsSession
<1> HIDE DEF next
<1>5. /\ n.rt = next /\ n.command = decision
      /\ n.lead = s.lead /\ n.active = s.active /\ n.tx = s.tx
      /\ n.sensors = s.sensors /\ n.stepped = s.stepped
      /\ n.initialized = s.initialized /\ n.assembly = s.assembly
  BY <1>1 DEF IsSession
<1>6. IsSession(n)
  BY <1>1, <1>4, <1>5 DEF IsSession
<1> QED
  BY <1>3, <1>4, <1>5, <1>6 DEF Halted

(* What leaves the safety state and the queue of sensor frames alone.      *)
Kept(s, n) ==
  /\ IsSession(n)
  /\ n.rt = s.rt /\ n.lead = s.lead /\ n.active = s.active
  /\ n.sensors = s.sensors /\ n.stepped = s.stepped
  /\ n.initialized = s.initialized /\ n.command = s.command

(* A frame more in the transmit queue, while it has room.                  *)
OneMore(s, n, f) ==
  /\ Kept(s, n)
  /\ IsSeq(n.tx) /\ Len(n.tx) = Len(s.tx) + 1
  /\ Range(n.tx) = Range(s.tx) \cup {f}

LEMMA SendsFrame ==
  ASSUME NEW s, IsSession(s), NEW f, IsSeq(s.tx), Len(s.tx) < TxCapacity,
         NEW n, n = K!C!Send(s, f)
  PROVE  OneMore(s, n, f)
<1> DEFINE q == Append(s.tx, f)
<1>1. n = [s EXCEPT !.tx = q]
  BY DEF K!C!Send
<1>2. IsSeq(q) /\ Len(q) = Len(s.tx) + 1 /\ Range(q) = Range(s.tx) \cup {f}
  BY SeqAppend
<1> HIDE DEF q
<1>3. /\ n.tx = q /\ n.rt = s.rt /\ n.lead = s.lead /\ n.active = s.active
      /\ n.sensors = s.sensors /\ n.stepped = s.stepped
      /\ n.initialized = s.initialized /\ n.command = s.command
      /\ n.assembly = s.assembly
  BY <1>1 DEF IsSession
<1>4. IsSession(n)
  BY <1>1, <1>3 DEF IsSession
<1> QED
  BY <1>2, <1>3, <1>4 DEF OneMore, Kept

LEMMA SendsHealth ==
  ASSUME NEW s, IsSession(s), IsSeq(s.tx), Len(s.tx) < TxCapacity,
         NEW n, n = K!C!SendHealth(s)
  PROVE  OneMore(s, n, K!C!HealthFrame(s.rt.state))
<1> DEFINE f == K!C!HealthFrame(s.rt.state)
           m == K!C!Send(s, f)
<1>1. n = [m EXCEPT !.healthAge = 0, !.emitted = s.rt.state]
  BY DEF K!C!SendHealth
<1> HIDE DEF f
<1>2. OneMore(s, m, f)
  BY SendsFrame
<1> HIDE DEF m
<1>3. /\ n.tx = m.tx /\ n.rt = m.rt /\ n.lead = m.lead
      /\ n.active = m.active
      /\ n.sensors = m.sensors /\ n.stepped = m.stepped
      /\ n.initialized = m.initialized /\ n.command = m.command
      /\ n.assembly = m.assembly
  BY <1>1, <1>2 DEF IsSession, OneMore, Kept
<1>4. IsSession(n)
  BY <1>1, <1>2, <1>3 DEF IsSession, OneMore, Kept
<1> QED
  BY <1>2, <1>3, <1>4 DEF OneMore, Kept, f

LEMMA SendsHeartbeat ==
  ASSUME NEW s, IsSession(s), IsSeq(s.tx), Len(s.tx) < TxCapacity,
         NEW n, n = K!C!SendHeartbeat(s)
  PROVE  OneMore(s, n, K!C!Heartbeat)
<1> DEFINE f == K!C!Heartbeat
           m == K!C!Send(s, f)
<1>1. n = [m EXCEPT !.beatAge = 0]
  BY DEF K!C!SendHeartbeat
<1> HIDE DEF f
<1>2. OneMore(s, m, f)
  BY SendsFrame
<1> HIDE DEF m
<1>3. /\ n.tx = m.tx /\ n.rt = m.rt /\ n.lead = m.lead
      /\ n.active = m.active
      /\ n.sensors = m.sensors /\ n.stepped = m.stepped
      /\ n.initialized = m.initialized /\ n.command = m.command
      /\ n.assembly = m.assembly
  BY <1>1, <1>2 DEF IsSession, OneMore, Kept
<1>4. IsSession(n)
  BY <1>1, <1>2, <1>3 DEF IsSession, OneMore, Kept
<1> QED
  BY <1>2, <1>3, <1>4 DEF OneMore, Kept, f

(* What a handler may leave in the queue, unless it is that of a HELLO.    *)
Speaks(n) ==
  /\ Len(n.tx) <= TxCapacity
  /\ \A p \in Range(n.tx) : p.type # "HelloAck"

(* An answer of the controller that commands no motion, or a command to    *)
(* drive that the core has decided on.                                     *)
Answers(s, n) ==
  /\ Kept(s, n)
  /\ IsSeq(n.tx) /\ Speaks(n)
  /\ \A p \in Range(n.tx) : Plain(p) /\ (Drive(p) => s.command = "Control")

LEMMA SendsError ==
  ASSUME NEW s, IsSession(s), s.tx = <<>>, NEW n, n = K!C!SendError(s)
  PROVE  /\ Kept(s, n) /\ IsSeq(n.tx) /\ Speaks(n)
         /\ \A p \in Range(n.tx) : Quiet(p)
<1>1. IsSeq(s.tx) /\ Range(s.tx) = {} /\ Len(s.tx) = 0 /\ 0 < TxCapacity
  BY NoCells, ControllerAssumption
<1>2. OneMore(s, n, K!C!ErrorSent)
  BY <1>1, SendsFrame DEF K!C!SendError
<1>3. Len(n.tx) <= TxCapacity
  BY <1>1, <1>2, ControllerAssumption DEF OneMore
<1> QED
  BY <1>1, <1>2, <1>3
  DEF OneMore, Speaks, Quiet, Plain, Drive, K!C!ErrorSent

LEMMA Emits ==
  ASSUME NEW s, IsSession(s), s.tx = <<>>, s.command # "Tracking",
         NEW forced,
         NEW n, n = K!C!EmitOutput(s, forced, "GnssAided")
  PROVE  Answers(s, n)
<1> DEFINE d == K!C!CommandFrame(K!C!WireMode(s.command))
           a == K!C!Send(s, d)
           b == K!C!Send(a, K!C!Estimate)
           c == K!C!SendHealth(b)
           told == IF K!C!HealthDue(s, forced) THEN c ELSE b
           e == K!C!SendHeartbeat(told)
<1>1. /\ IsSeq(s.tx) /\ Range(s.tx) = {} /\ Len(s.tx) = 0
      /\ TxCapacity \in Nat /\ TxCapacity >= 4
  BY NoCells, ControllerAssumption
<1>2. K!C!Room(s, forced)
  BY <1>1 DEF K!C!Room, K!C!BundleSize
<1>3. n = told \/ n = e
  BY <1>2 DEF K!C!EmitOutput, K!C!SendPair
<1>4. \A p \in {d, K!C!Estimate, K!C!Heartbeat, K!C!HealthFrame(b.rt.state)} :
        /\ Plain(p) /\ (Drive(p) => s.command = "Control")
        /\ p.type # "HelloAck"
  BY DEF Plain, Drive, K!C!CommandFrame, K!C!Estimate, K!C!Heartbeat,
         K!C!HealthFrame, K!C!WireMode
<1> HIDE DEF d
<1>5. OneMore(s, a, d)
  BY <1>1, SendsFrame
<1> HIDE DEF a
<1>6. IsSession(a) /\ IsSeq(a.tx) /\ Len(a.tx) = 1 /\ 1 < TxCapacity
  BY <1>1, <1>5 DEF OneMore, Kept
<1>7. OneMore(a, b, K!C!Estimate)
  BY <1>6, SendsFrame
<1> HIDE DEF b
<1>8. /\ Kept(s, b) /\ IsSeq(b.tx) /\ Len(b.tx) = 2
      /\ Range(b.tx) = {d, K!C!Estimate}
  BY <1>1, <1>5, <1>7 DEF OneMore, Kept
<1>9. IsSession(b) /\ Len(b.tx) < TxCapacity
  BY <1>1, <1>8 DEF Kept
<1>10. OneMore(b, c, K!C!HealthFrame(b.rt.state))
  BY <1>8, <1>9, SendsHealth
<1> HIDE DEF c
<1>11. /\ Kept(s, told) /\ IsSeq(told.tx) /\ Len(told.tx) \in 2 .. 3
      /\ Range(told.tx) \subseteq
           {d, K!C!Estimate, K!C!HealthFrame(b.rt.state)}
  BY <1>8, <1>10 DEF OneMore, Kept
<1> HIDE DEF told
<1>12. IsSession(told) /\ Len(told.tx) < TxCapacity
  <2>1. IsSession(told)
    BY <1>11 DEF Kept
  <2>2. \A x \in 2 .. 3 : x < TxCapacity
    BY <1>1
  <2> QED
    BY <1>11, <2>1, <2>2
<1>13. OneMore(told, e, K!C!Heartbeat)
  BY <1>11, <1>12, SendsHeartbeat
<1> HIDE DEF e
<1>14. /\ Kept(s, e) /\ IsSeq(e.tx)
       /\ Range(e.tx) \subseteq
            {d, K!C!Estimate, K!C!Heartbeat, K!C!HealthFrame(b.rt.state)}
  BY <1>11, <1>13 DEF OneMore, Kept
<1>15. ASSUME NEW x \in 2 .. 3 PROVE x <= TxCapacity /\ x + 1 <= TxCapacity
  BY <1>1
<1>16. Len(n.tx) <= TxCapacity
  <2>1. Len(e.tx) = Len(told.tx) + 1
    BY <1>13 DEF OneMore
  <2> QED
    BY <1>3, <1>11, <1>15, <2>1
<1> QED
  BY <1>3, <1>4, <1>11, <1>14, <1>16 DEF Answers, Speaks

-----------------------------------------------------------------------------
(* tick.                                                                   *)
LEMMA Processes ==
  ASSUME NEW s, IsSession(s), NEW f, NEW n, n = K!C!Process(s, f, "Accepted")
  PROVE  /\ IsSession(n) /\ n.rt.state = s.rt.state
         /\ n.lead = s.lead /\ n.active = s.active /\ n.tx = s.tx
         /\ n.sensors = s.sensors /\ n.stepped = s.stepped
<1> DEFINE r == K!C!AcceptInput(s.rt)
           i == s.initialized \/ "Gnss" \in DOMAIN f
<1>1. n = [s EXCEPT !.initialized = i, !.rt = r]
  BY DEF K!C!Process
<1>2. r \in K!C!RuntimeRecord /\ r.state = s.rt.state /\ i \in BOOLEAN
  <2>1. 0 \in K!C!Age
    BY ControllerAssumption DEF K!C!Age
  <2>2. r \in {s.rt, [s.rt EXCEPT !.hostSeen = TRUE, !.validAge = 0]}
    BY DEF K!C!AcceptInput, K!C!NotifyHandshake
  <2>3. s.rt \in K!C!RuntimeRecord
    BY DEF IsSession
  <2> HIDE DEF r
  <2> QED
    BY <2>1, <2>2, <2>3 DEF K!C!RuntimeRecord
<1> HIDE DEF r, i
<1>3. /\ n.rt = r /\ n.initialized = i
      /\ n.lead = s.lead /\ n.active = s.active /\ n.tx = s.tx
      /\ n.sensors = s.sensors /\ n.stepped = s.stepped
      /\ n.assembly = s.assembly
  BY <1>1 DEF IsSession
<1>4. IsSession(n)
  BY <1>1, <1>2, <1>3 DEF IsSession
<1> QED
  BY <1>2, <1>3, <1>4

(* The oldest sensor frame is consumed, if there is one.                   *)
Fewer(s, n) ==
  \/ n.sensors = s.sensors /\ n.initialized = s.initialized
  \/ s.sensors # <<>> /\ n.sensors = Tail(s.sensors)

LEMMA Consumes ==
  ASSUME NEW s, IsSession(s),
         NEW n, n = K!C!Consumed(s, "GnssAided", "Accepted")
  PROVE  /\ IsSession(n) /\ n.stepped /\ Fewer(s, n)
         /\ n.lead = s.lead /\ n.active = s.active /\ n.tx = s.tx
         /\ Halted(s) => Halted(n)
         /\ n.command = "Control" => ~Halted(n) /\ n.initialized
         /\ n.command # "Tracking"
<1> DEFINE q == Tail(s.sensors)
           taken == [s EXCEPT !.sensors = q]
           fed == IF s.sensors = <<>> THEN s
                  ELSE K!C!Process(taken, Head(s.sensors), "Accepted")
           c == K!C!CoreStep(fed, "GnssAided")
<1>1. n = [c EXCEPT !.stepped = TRUE]
  BY DEF K!C!Consumed
<1>2. ASSUME s.sensors # <<>>
      PROVE  IsSeq(q) /\ Len(q) <= SensorCapacity
  <2>1. IsSeq(s.sensors) /\ Len(s.sensors) <= SensorCapacity
    BY DEF IsSession
  <2> QED
    BY <1>2, <2>1, SeqTail, ControllerAssumption
<1> HIDE DEF q
<1>3. /\ IsSession(fed) /\ fed.rt.state = s.rt.state /\ Fewer(s, fed)
      /\ fed.lead = s.lead /\ fed.active = s.active /\ fed.tx = s.tx
  <2>1. CASE s.sensors = <<>>
    BY <2>1 DEF Fewer
  <2>2. CASE s.sensors # <<>>
    <3>1. /\ taken.sensors = q /\ taken.rt = s.rt /\ taken.lead = s.lead
          /\ taken.active = s.active /\ taken.tx = s.tx
          /\ taken.assembly = s.assembly /\ taken.stepped = s.stepped
          /\ taken.initialized = s.initialized
      BY DEF IsSession
    <3>2. IsSession(taken)
      BY <1>2, <2>2, <3>1 DEF IsSession
    <3>3. fed = K!C!Process(taken, Head(s.sensors), "Accepted")
      BY <2>2
    <3> HIDE DEF taken, fed
    <3>4. /\ IsSession(fed) /\ fed.rt.state = taken.rt.state
          /\ fed.lead = taken.lead /\ fed.active = taken.active
          /\ fed.tx = taken.tx /\ fed.sensors = taken.sensors
      BY <3>2, <3>3, Processes
    <3> QED
      BY <2>2, <3>1, <3>4 DEF Fewer, q
  <2> QED
    BY <2>1, <2>2
<1> HIDE DEF fed
<1>4. /\ IsSession(c)
      /\ c.lead = fed.lead /\ c.active = fed.active /\ c.tx = fed.tx
      /\ c.sensors = fed.sensors
      /\ c.initialized = fed.initialized
      /\ Halted(fed) => Halted(c)
      /\ c.command = "Control" => ~Halted(c) /\ fed.initialized
      /\ c.command # "Tracking"
  BY <1>3, CoreSteps
<1> HIDE DEF c
<1>5. /\ n.lead = c.lead /\ n.active = c.active /\ n.tx = c.tx
      /\ n.sensors = c.sensors /\ n.initialized = c.initialized
      /\ n.rt = c.rt /\ n.command = c.command /\ n.stepped = TRUE
      /\ n.assembly = c.assembly
  BY <1>1, <1>4 DEF IsSession
<1>6. IsSession(n)
  BY <1>1, <1>4, <1>5 DEF IsSession
<1> QED
  BY <1>3, <1>4, <1>5, <1>6 DEF Fewer, Halted

(* A tick without a control release leaves the core alone, and one with    *)
(* it is the last of its millisecond.                                      *)
TickedSession(s, n) ==
  /\ IsSession(n) /\ IsSeq(n.tx) /\ Fewer(s, n) /\ n.active = s.active
  /\ Speaks(n)
  /\ Halted(s) => Halted(n)
  /\ Idle(s) => n.rt = s.rt /\ n.tx = <<>> /\ n.sensors = s.sensors
                /\ n.initialized = s.initialized
  /\ Idle(s) \/ s.active => Idle(n)
  /\ Idle(n) \/ n.initialized = s.initialized
  /\ \A p \in Range(n.tx) :
       Plain(p) /\ (Drive(p) => ~Halted(n) /\ n.initialized /\ Idle(n))

LEMMA PolledStaysIdle ==
  ASSUME NEW lead, "Control" \notin K!C!Due(lead)
  PROVE  "Control" \notin K!C!Due(K!C!Polled(lead))
<1>1. CASE "Control" \in Task
  <2>1. ~K!C!Reached(lead, "Control")
    BY <1>1 DEF K!C!Due
  <2>2. K!C!Polled(lead)["Control"] = lead["Control"]
    BY <1>1, <2>1 DEF K!C!Polled
  <2> QED
    BY <2>1, <2>2 DEF K!C!Due, K!C!Reached, K!C!Lateness
<1> QED
  BY <1>1 DEF K!C!Due

LEMMA SessionTicks ==
  ASSUME NEW s, IsSession(s), s.tx = <<>>,
         NEW n, n = K!C!Tick(s, "GnssAided", "Accepted")
  PROVE  TickedSession(s, n)
<1> DEFINE lead == K!C!Polled(s.lead)
           polled == [s EXCEPT !.lead = lead]
           out == K!C!Consumed(polled, "GnssAided", "Accepted")
           forced == "Health" \in K!C!Due(s.lead)
           e == K!C!EmitOutput(out, forced, "GnssAided")
<1>1. \/ ~s.active /\ n = s
      \/ s.active /\ ~K!C!Releases(s) /\ n = polled
      \/ K!C!Releases(s) /\ (n = out \/ n = e)
  BY DEF K!C!Tick, IsSession, K!C!Releases
<1>2. K!C!Releases(s) <=> s.active /\ ~Idle(s)
  BY DEF K!C!Releases, Idle
<1>3. "Control" \notin K!C!Due(s.lead) => "Control" \notin K!C!Due(lead)
  BY PolledStaysIdle
<1> HIDE DEF lead, forced
<1>4. /\ polled.lead = lead /\ polled.rt = s.rt /\ polled.active = s.active
      /\ polled.sensors = s.sensors /\ polled.tx = s.tx
      /\ polled.assembly = s.assembly /\ polled.stepped = s.stepped
      /\ polled.initialized = s.initialized
  BY DEF IsSession
<1>5. IsSession(polled)
  BY <1>4 DEF IsSession
<1> HIDE DEF polled
<1>6. IsSeq(s.tx) /\ Range(s.tx) = {} /\ Speaks(s)
  BY NoCells, ControllerAssumption DEF Speaks
<1>7. CASE ~s.active /\ n = s
  BY <1>6, <1>7 DEF TickedSession, Fewer
<1>8. CASE s.active /\ ~K!C!Releases(s) /\ n = polled
  <2>1. Idle(s) /\ Idle(n)
    BY <1>2, <1>3, <1>4, <1>8 DEF Idle
  <2> QED
    BY <1>4, <1>5, <1>6, <1>8, <2>1 DEF TickedSession, Fewer, Halted, Speaks
<1>9. CASE K!C!Releases(s) /\ (n = out \/ n = e)
  <2>1. /\ IsSession(out) /\ out.stepped /\ Fewer(polled, out)
        /\ out.lead = polled.lead /\ out.active = polled.active
        /\ out.tx = polled.tx
        /\ Halted(polled) => Halted(out)
        /\ out.command = "Control" => ~Halted(out) /\ out.initialized
        /\ out.command # "Tracking"
    BY <1>5, Consumes
  <2> HIDE DEF out
  <2>2. out.tx = <<>> /\ Answers(out, e)
    BY <1>4, <2>1, Emits
  <2> HIDE DEF e
  <2>3. /\ IsSession(n) /\ n.rt = out.rt /\ n.active = out.active
        /\ n.sensors = out.sensors /\ n.initialized = out.initialized
        /\ n.stepped = out.stepped
    BY <1>9, <2>1, <2>2 DEF Answers, Kept
  <2>4. /\ IsSeq(n.tx) /\ Speaks(n)
        /\ \A p \in Range(n.tx) :
             Plain(p) /\ (Drive(p) => out.command = "Control")
    <3>1. Speaks(out)
      BY <1>6, <2>2, <1>4 DEF Speaks
    <3> QED
      BY <1>6, <1>9, <2>2, <3>1 DEF Answers
  <2>5. Idle(n) /\ ~Idle(s) /\ s.active
    BY <1>2, <1>9, <2>1, <2>3 DEF Idle
  <2> QED
    BY <1>4, <2>1, <2>3, <2>4, <2>5 DEF TickedSession, Fewer, Halted
<1> QED
  BY <1>1, <1>7, <1>8, <1>9

-----------------------------------------------------------------------------
(* feed.                                                                   *)
FromHost(p) ==
  /\ p.type \in {"Hello", "Route", "Sensor", "SafeStop"}
  /\ p.type \in {"Hello", "SafeStop"} => p.ok

(* What all handlers but that of a HELLO do to the session.                *)
Handles(s, n) ==
  /\ IsSession(n) /\ IsSeq(n.tx) /\ \A p \in Range(n.tx) : Quiet(p)
  /\ Speaks(n)
  /\ n.lead = s.lead /\ n.active = s.active /\ n.initialized = s.initialized
  /\ s.stepped => n.stepped
  /\ Halted(s) => Halted(n)

LEMMA KeptHandles ==
  ASSUME NEW s, NEW n, Kept(s, n), IsSeq(n.tx), Speaks(n),
         \A p \in Range(n.tx) : Quiet(p)
  PROVE  Handles(s, n) /\ n.sensors = s.sensors
BY DEF Kept, Handles, Halted

LEMMA HandlesRoute ==
  ASSUME NEW s, IsSession(s), s.tx = <<>>, NEW p,
         NEW n, n = K!C!HandleRoute(s, p)
  PROVE  Handles(s, n) /\ n.sensors = s.sensors
<1> DEFINE begun == K!C!Announced(s, p)
           stored == K!C!Stored(begun, p)
           done == K!C!Installed(stored, p)
<1>1. n \in {K!C!SendError(s), K!C!SendError(begun), done}
  BY DEF K!C!HandleRoute
<1>2. Kept(s, begun) /\ begun.tx = <<>>
  <2> DEFINE a == [id |-> p.id, expected |-> p.total, received |-> 0]
             m == [s EXCEPT !.assembly = a]
  <2>1. begun \in {s, m}
    BY DEF K!C!Announced
  <2>2. Kept(s, s)
    BY DEF Kept
  <2>3. /\ m.rt = s.rt /\ m.lead = s.lead /\ m.active = s.active
        /\ m.sensors = s.sensors /\ m.stepped = s.stepped
        /\ m.initialized = s.initialized /\ m.command = s.command
        /\ m.tx = s.tx /\ m.assembly = a
        /\ a = [id |-> a.id, expected |-> a.expected,
                received |-> a.received]
    BY DEF IsSession
  <2> HIDE DEF a
  <2>4. IsSession(m)
    BY <2>3 DEF IsSession
  <2> QED
    BY <2>1, <2>2, <2>3, <2>4 DEF Kept
<1> HIDE DEF begun
<1>3. Kept(s, stored) /\ stored.tx = <<>>
  <2> DEFINE points == SubSeq(begun.points, 1, p.start) \o K!C!PointsOf(p)
                         \o SubSeq(begun.points, p.start + p.count + 1,
                                   Len(begun.points))
             a == [begun.assembly EXCEPT !.received = @ + p.count]
  <2>1. stored = [begun EXCEPT !.points = points, !.assembly = a]
    BY DEF K!C!Stored
  <2> HIDE DEF points, stored
  <2>2. a = [id |-> a.id, expected |-> a.expected, received |-> a.received]
    BY <1>2 DEF IsSession, Kept
  <2> HIDE DEF a
  <2>3. /\ stored.rt = begun.rt /\ stored.lead = begun.lead
        /\ stored.active = begun.active
        /\ stored.sensors = begun.sensors /\ stored.stepped = begun.stepped
        /\ stored.initialized = begun.initialized
        /\ stored.command = begun.command
        /\ stored.tx = begun.tx /\ stored.assembly = a
    BY <1>2, <2>1 DEF IsSession, Kept
  <2>4. IsSession(stored)
    BY <1>2, <2>1, <2>2, <2>3 DEF IsSession, Kept
  <2> QED
    BY <1>2, <2>3, <2>4 DEF Kept
<1> HIDE DEF stored
<1>4. ASSUME NEW m, Kept(s, m), m.tx = <<>>
      PROVE  /\ Handles(s, m) /\ m.sensors = s.sensors
             /\ Handles(s, K!C!SendError(m))
             /\ K!C!SendError(m).sensors = s.sensors
  <2>1. IsSeq(m.tx) /\ Range(m.tx) = {} /\ Speaks(m)
    BY <1>4, NoCells, ControllerAssumption DEF Speaks
  <2>2. IsSession(m)
    BY <1>4 DEF Kept
  <2> DEFINE e == K!C!SendError(m)
  <2>3. /\ Kept(m, e) /\ IsSeq(e.tx) /\ Speaks(e)
        /\ \A q \in Range(e.tx) : Quiet(q)
    BY <1>4, <2>2, SendsError
  <2> HIDE DEF e
  <2>4. Kept(s, e)
    BY <1>4, <2>3 DEF Kept
  <2> QED
    BY <1>4, <2>1, <2>3, <2>4, KeptHandles DEF e
<1>5. Kept(s, s)
  BY DEF Kept
<1>6. Handles(s, done) /\ done.sensors = s.sensors
  <2> DEFINE r == SubSeq(stored.points, 1, stored.assembly.received)
             m == [stored EXCEPT !.route = r]
  <2>1. done \in {stored, m, K!C!SendError(stored)}
    BY DEF K!C!Installed
  <2> HIDE DEF r
  <2>2. /\ m.rt = stored.rt /\ m.lead = stored.lead
        /\ m.active = stored.active
        /\ m.sensors = stored.sensors /\ m.stepped = stored.stepped
        /\ m.initialized = stored.initialized /\ m.command = stored.command
        /\ m.tx = stored.tx /\ m.assembly = stored.assembly
    BY <1>3 DEF IsSession, Kept
  <2>3. IsSession(m)
    BY <1>3, <2>2 DEF IsSession, Kept
  <2> HIDE DEF m
  <2>4. Kept(s, m) /\ m.tx = <<>>
    BY <1>3, <2>2, <2>3 DEF Kept
  <2> QED
    BY <1>3, <1>4, <2>1, <2>4
<1> QED
  BY <1>1, <1>2, <1>4, <1>5, <1>6

LEMMA Overflows ==
  ASSUME NEW r \in K!C!RuntimeRecord
  PROVE  /\ K!C!RecordQueueOverflow(r) \in K!C!RuntimeRecord
         /\ r.state \in K!C!Latched
              => K!C!RecordQueueOverflow(r).state \in K!C!Latched
<1> DEFINE more == IF r.overflows < OverflowThreshold THEN r.overflows + 1
                                                      ELSE r.overflows
           c == [r EXCEPT !.overflows = more]
<1>1. more \in 0 .. OverflowThreshold
  BY ControllerAssumption DEF K!C!RuntimeRecord
<1>2. K!C!RecordQueueOverflow(r) \in {c, K!C!StopUnlessFaulted(c)}
  BY DEF K!C!RecordQueueOverflow
<1> HIDE DEF more
<1>3. c \in K!C!RuntimeRecord /\ c.state = r.state
  BY <1>1 DEF K!C!RuntimeRecord
<1> HIDE DEF c
<1> QED
  BY <1>2, <1>3 DEF K!C!StopUnlessFaulted, K!C!Transition,
                    K!C!RuntimeRecord, K!C!SafetyState, K!C!Latched

LEMMA HandlesSensor ==
  ASSUME NEW s, IsSession(s), s.tx = <<>>, NEW p,
         NEW n, n = K!C!HandleSensor(s, p)
  PROVE  /\ Handles(s, n)
         /\ \/ n.sensors = s.sensors
            \/ n.sensors = Append(s.sensors, p.samples)
<1> DEFINE r == K!C!RecordQueueOverflow(s.rt)
           full == [s EXCEPT !.rt = r]
           q == Append(s.sensors, p.samples)
           o == K!C!Overlaid(p.samples, s.samples)
           more == [s EXCEPT !.sensors = q, !.samples = o]
<1>1. IsSeq(s.sensors) /\ Len(s.sensors) <= SensorCapacity
  BY DEF IsSession
<1>2. /\ IsSeq(q) /\ Len(q) = Len(s.sensors) + 1 /\ Len(s.sensors) \in Nat
      /\ SensorCapacity \in Nat
  BY <1>1, SeqAppend, ControllerAssumption
<1>3. \/ n = K!C!SendError(s)
      \/ n = K!C!SendError(full)
      \/ Len(s.sensors) < SensorCapacity /\ n = more
  BY <1>1, <1>2 DEF K!C!HandleSensor, K!C!Enqueued
<1>4. /\ r \in K!C!RuntimeRecord
      /\ s.rt.state \in K!C!Latched => r.state \in K!C!Latched
  BY Overflows DEF IsSession
<1> HIDE DEF r, q, o
<1>5. /\ full.rt = r /\ full.lead = s.lead /\ full.active = s.active
      /\ full.sensors = s.sensors /\ full.stepped = s.stepped
      /\ full.initialized = s.initialized /\ full.command = s.command
      /\ full.tx = s.tx /\ full.assembly = s.assembly
  BY DEF IsSession
<1>6. IsSession(full)
  BY <1>4, <1>5 DEF IsSession
<1> HIDE DEF full
<1>7. Handles(s, K!C!SendError(s)) /\ K!C!SendError(s).sensors = s.sensors
  <2> DEFINE e == K!C!SendError(s)
  <2>1. /\ Kept(s, e) /\ IsSeq(e.tx) /\ Speaks(e)
        /\ \A x \in Range(e.tx) : Quiet(x)
    BY SendsError
  <2> HIDE DEF e
  <2> QED
    BY <2>1, KeptHandles DEF e
<1>8. /\ Handles(s, K!C!SendError(full))
      /\ K!C!SendError(full).sensors = s.sensors
  <2> DEFINE e == K!C!SendError(full)
  <2>1. /\ Kept(full, e) /\ IsSeq(e.tx) /\ Speaks(e)
        /\ \A x \in Range(e.tx) : Quiet(x)
    BY <1>5, <1>6, SendsError
  <2> HIDE DEF e
  <2>2. Handles(full, e) /\ e.sensors = full.sensors
    BY <2>1, KeptHandles
  <2> QED
    BY <1>4, <1>5, <2>2 DEF Handles, Halted, e
<1>9. ASSUME Len(s.sensors) < SensorCapacity
      PROVE  Handles(s, more) /\ more.sensors = q
  <2>1. more = [s EXCEPT !.sensors = q, !.samples = o]
    OBVIOUS
  <2> HIDE DEF more
  <2>2. /\ more.rt = s.rt /\ more.lead = s.lead /\ more.active = s.active
        /\ more.sensors = q /\ more.stepped = s.stepped
        /\ more.initialized = s.initialized /\ more.tx = s.tx
        /\ more.assembly = s.assembly
    BY <2>1 DEF IsSession
  <2>3. Len(q) <= SensorCapacity
    BY <1>2, <1>9
  <2>4. IsSession(more)
    BY <1>2, <2>1, <2>2, <2>3 DEF IsSession
  <2>5. IsSeq(more.tx) /\ Range(more.tx) = {} /\ Speaks(more)
    BY <2>2, NoCells, ControllerAssumption DEF Speaks
  <2> QED
    BY <2>2, <2>4, <2>5 DEF Handles, Halted
<1> QED
  BY <1>3, <1>7, <1>8, <1>9 DEF q

LEMMA HandlesSafeStop ==
  ASSUME NEW s, IsSession(s), s.tx = <<>>, NEW p, p.ok,
         NEW n, n = K!C!HandleSafeStop(s, p, "GnssAided")
  PROVE  Handles(s, n) /\ n.sensors = s.sensors /\ Halted(n) /\ n.stepped
<1> DEFINE r == K!C!RequestSafeStop(s.rt)
           a == [s EXCEPT !.rt = r]
           b == K!C!CoreStep(a, "GnssAided")
           c == [b EXCEPT !.stepped = TRUE]
<1>1. n = K!C!EmitOutput(c, TRUE, "GnssAided")
  BY DEF K!C!HandleSafeStop
<1>2. r \in K!C!RuntimeRecord /\ r.state \in K!C!Latched
  BY DEF K!C!RequestSafeStop, K!C!StopUnlessFaulted, K!C!Transition,
         K!C!RuntimeRecord, K!C!SafetyState, K!C!Latched, IsSession
<1> HIDE DEF r
<1>3. /\ a.rt = r /\ a.lead = s.lead /\ a.active = s.active
      /\ a.sensors = s.sensors /\ a.initialized = s.initialized
      /\ a.tx = s.tx /\ a.assembly = s.assembly /\ a.stepped = s.stepped
  BY DEF IsSession
<1>4. IsSession(a)
  BY <1>2, <1>3 DEF IsSession
<1> HIDE DEF a
<1>5. /\ IsSession(b)
      /\ b.lead = a.lead /\ b.active = a.active /\ b.tx = a.tx
      /\ b.sensors = a.sensors /\ b.initialized = a.initialized
      /\ Halted(b) /\ b.command \notin {"Control", "Tracking"}
  <2>1. Halted(a)
    BY <1>2, <1>3 DEF Halted
  <2> QED
    BY <1>4, <2>1, CoreSteps
<1> HIDE DEF b
<1>6. c = [b EXCEPT !.stepped = TRUE]
  OBVIOUS
<1> HIDE DEF c
<1>7. /\ c.rt = b.rt /\ c.lead = b.lead /\ c.active = b.active
      /\ c.sensors = b.sensors /\ c.initialized = b.initialized
      /\ c.tx = b.tx /\ c.assembly = b.assembly /\ c.stepped = TRUE
      /\ c.command = b.command
  BY <1>5, <1>6 DEF IsSession
<1>8. IsSession(c)
  BY <1>5, <1>7, <1>6 DEF IsSession
<1>9. Answers(c, n)
  BY <1>1, <1>3, <1>5, <1>7, <1>8, Emits
<1> QED
  BY <1>3, <1>5, <1>7, <1>9 DEF Answers, Kept, Handles, Halted, Quiet

LEMMA HandlesHello ==
  ASSUME NEW s, IsSession(s), NEW p, p.ok,
         NEW n, n = K!C!HandleHello(s, p)
  PROVE  /\ IsSession(n) /\ IsSeq(n.tx) /\ \A q \in Range(n.tx) : Quiet(q)
         /\ Len(n.tx) = 1
         /\ n.lead = s.lead /\ n.active /\ n.sensors = <<>>
         /\ n.initialized = s.initialized /\ n.stepped = s.stepped
         /\ n.rt.state = s.rt.state
<1> DEFINE r == K!C!NotifyHandshake(s.rt)
           t == K!C!Observed(K!C!Untracked, p.seq, FALSE, 0)
           a == K!C!NoRoute
           m == K!C!OpenSession(s, p)
           f == K!C!HelloAck(TRUE)
<1>1. n = K!C!Send(m, f)
  BY DEF K!C!HandleHello
<1>2. m = [s EXCEPT !.tx = <<>>, !.sensors = <<>>, !.active = TRUE,
                    !.tracker = t, !.assembly = a, !.rt = r]
  BY DEF K!C!OpenSession
<1>3. a = [id |-> a.id, expected |-> a.expected, received |-> a.received]
  BY DEF K!C!NoRoute
<1>4. Quiet(f)
  BY DEF Quiet, Plain, Drive, K!C!HelloAck
<1> HIDE DEF t, a, m, f
<1>5. r \in K!C!RuntimeRecord /\ r.state = s.rt.state
  <2>1. 0 \in K!C!Age
    BY ControllerAssumption DEF K!C!Age
  <2>2. r \in {s.rt, [s.rt EXCEPT !.hostSeen = TRUE, !.validAge = 0]}
    BY DEF K!C!NotifyHandshake
  <2>3. s.rt \in K!C!RuntimeRecord
    BY DEF IsSession
  <2> HIDE DEF r
  <2> QED
    BY <2>1, <2>2, <2>3 DEF K!C!RuntimeRecord
<1> HIDE DEF r
<1>6. /\ m.rt = r /\ m.lead = s.lead /\ m.active = TRUE
      /\ m.sensors = <<>> /\ m.initialized = s.initialized
      /\ m.tx = <<>> /\ m.assembly = a /\ m.stepped = s.stepped
  BY <1>2 DEF IsSession
<1>7. /\ IsSeq(m.tx) /\ Range(m.tx) = {} /\ Len(m.tx) = 0
      /\ Len(m.tx) < TxCapacity
      /\ IsSeq(m.sensors) /\ Len(m.sensors) <= SensorCapacity
  BY <1>6, NoCells, ControllerAssumption
<1>8. IsSession(m)
  BY <1>2, <1>3, <1>5, <1>6, <1>7 DEF IsSession
<1>9. OneMore(m, n, f)
  BY <1>1, <1>7, <1>8, SendsFrame
<1> QED
  BY <1>4, <1>5, <1>6, <1>7, <1>9 DEF OneMore, Kept

(* What feeding a frame of the host does to the session.                   *)
FedSession(s, p, n) ==
  /\ IsSession(n) /\ IsSeq(n.tx) /\ \A q \in Range(n.tx) : Quiet(q)
  /\ Halted(s) => Halted(n)
  /\ n.initialized = s.initialized
  /\ Idle(s) => Idle(n)
  /\ p.type = "Hello" => n.active /\ n.sensors = <<>> /\ Len(n.tx) = 1
  /\ p.type # "Hello" => Speaks(n)
  /\ p.type # "Hello" =>
       \/ n.sensors = s.sensors
       \/ /\ p.type = "Sensor" /\ K!C!Admitted(s, p)
          /\ n.sensors = Append(s.sensors, p.samples)
  /\ p.type = "SafeStop" /\ K!C!Admitted(s, p) => n.stepped

LEMMA HandlesIdly ==
  ASSUME NEW s, NEW n, Handles(s, n), Idle(s)
  PROVE  Idle(n)
BY DEF Handles, Idle

LEMMA SessionFed ==
  ASSUME NEW s, IsSession(s), s.tx = <<>>, NEW p, FromHost(p),
         NEW n, n = K!C!HandlePacket(s, p, "GnssAided")
  PROVE  FedSession(s, p, n)
<1>1. CASE p.type = "Hello"
  <2>1. n = K!C!HandleHello(s, p) /\ p.ok
    BY <1>1 DEF K!C!HandlePacket, FromHost
  <2>2. /\ IsSession(n) /\ IsSeq(n.tx) /\ \A q \in Range(n.tx) : Quiet(q)
        /\ Len(n.tx) = 1
        /\ n.lead = s.lead /\ n.active /\ n.sensors = <<>>
        /\ n.initialized = s.initialized /\ n.stepped = s.stepped
        /\ n.rt.state = s.rt.state
    BY <2>1, HandlesHello
  <2> QED
    BY <1>1, <2>2 DEF FedSession, Halted, Idle
<1>2. CASE p.type # "Hello"
  <2> DEFINE e == K!C!SendError(s)
             t == K!C!Observed(s.tracker, p.seq, p.type = "Sensor", p.step)
             m == K!C!Tracked(s, p)
             d == K!C!Dispatch(m, p, "GnssAided")
  <2>1. \/ n = e /\ p.type # "SafeStop"
        \/ n = s /\ ~K!C!Admitted(s, p)
        \/ n = d /\ K!C!Admitted(s, p)
    BY <1>2 DEF K!C!HandlePacket
  <2>2. CASE n = e /\ p.type # "SafeStop"
    <3>1. /\ Kept(s, e) /\ IsSeq(e.tx) /\ Speaks(e)
          /\ \A q \in Range(e.tx) : Quiet(q)
      BY SendsError
    <3> HIDE DEF e
    <3>2. Handles(s, e) /\ e.sensors = s.sensors
      BY <3>1, KeptHandles
    <3> QED
      BY <1>2, <2>2, <3>2, HandlesIdly DEF FedSession, Handles
  <2>3. CASE n = s /\ ~K!C!Admitted(s, p)
    <3>1. IsSeq(s.tx) /\ Range(s.tx) = {} /\ Speaks(s)
      BY NoCells, ControllerAssumption DEF Speaks
    <3>2. \A q \in Range(s.tx) : Quiet(q)
      BY <3>1
    <3>3. FedSession(s, p, s)
      BY <1>2, <2>3, <3>1, <3>2 DEF FedSession
    <3> QED
      BY <2>3, <3>3
  <2>4. CASE n = d /\ K!C!Admitted(s, p)
    <3>1. m = [s EXCEPT !.tracker = t]
      BY DEF K!C!Tracked
    <3> HIDE DEF t, m
    <3>2. /\ m.rt = s.rt /\ m.lead = s.lead /\ m.active = s.active
          /\ m.sensors = s.sensors /\ m.initialized = s.initialized
          /\ m.tx = s.tx /\ m.assembly = s.assembly /\ m.stepped = s.stepped
      BY <3>1 DEF IsSession
    <3>3. IsSession(m) /\ m.tx = <<>>
      BY <3>1, <3>2 DEF IsSession
    <3>4. \/ p.type = "Route" /\ n = K!C!HandleRoute(m, p)
          \/ p.type = "Sensor" /\ n = K!C!HandleSensor(m, p)
          \/ p.type = "SafeStop" /\ n = K!C!HandleSafeStop(m, p, "GnssAided")
      BY <1>2, <2>4 DEF K!C!Dispatch, FromHost
    <3>5. /\ Handles(m, n)
          /\ n.sensors # s.sensors =>
               p.type = "Sensor" /\ n.sensors = Append(s.sensors, p.samples)
          /\ p.type = "SafeStop" => n.stepped
      <4>1. CASE p.type = "Route" /\ n = K!C!HandleRoute(m, p)
        BY <3>2, <3>3, <4>1, HandlesRoute
      <4>2. CASE p.type = "Sensor" /\ n = K!C!HandleSensor(m, p)
        BY <3>2, <3>3, <4>2, HandlesSensor
      <4>3. CASE /\ p.type = "SafeStop"
                 /\ n = K!C!HandleSafeStop(m, p, "GnssAided")
        BY <3>2, <3>3, <4>3, HandlesSafeStop DEF FromHost
      <4> QED
        BY <3>4, <4>1, <4>2, <4>3
    <3>6. Idle(s) => Idle(n)
      BY <3>2, <3>5, HandlesIdly DEF Idle
    <3> QED
      BY <1>2, <2>4, <3>2, <3>5, <3>6 DEF FedSession, Handles, Halted
  <2> QED
    BY <2>1, <2>2, <2>3, <2>4
<1> QED
  BY <1>1, <1>2

-----------------------------------------------------------------------------
(* The controller with the numbers of its frames: it holds a step for each *)
(* sensor frame in its queue, and between two calls no frame to send.      *)
Numbers(c) ==
  /\ c = [fw |-> c.fw, seq |-> c.seq, lastStep |-> c.lastStep,
          queued |-> c.queued]
  /\ IsSession(c.fw) /\ c.seq \in Nat
  /\ IsSeq(c.queued) /\ Len(c.queued) = Len(c.fw.sensors)

IsController(c) == Numbers(c) /\ c.fw.tx = <<>>

SameCore(s, n) ==
  /\ n.rt = s.rt /\ n.lead = s.lead /\ n.active = s.active
  /\ n.sensors = s.sensors /\ n.stepped = s.stepped
  /\ n.initialized = s.initialized

LEMMA Calls ==
  ASSUME NEW c, IsController(c), NEW n, n = K!Called(c)
  PROVE  /\ IsController(n) /\ SameCore(c.fw, n.fw) /\ n.seq = c.seq
         /\ n.queued = c.queued /\ n.lastStep = c.lastStep
<1> DEFINE s == [c.fw EXCEPT !.command = "None"]
<1>1. IsSession(c.fw)
  BY DEF IsController, Numbers
<1>2. n = [c EXCEPT !.fw = s]
  BY DEF K!Called, IsController, Numbers
<1>3. SameCore(c.fw, s) /\ s.tx = c.fw.tx /\ s.assembly = c.fw.assembly
  BY <1>1 DEF IsSession, SameCore
<1>4. IsSession(s)
  BY <1>1, <1>3 DEF IsSession, SameCore
<1> HIDE DEF s
<1>5. n.fw = s /\ n.queued = c.queued /\ n.lastStep = c.lastStep
      /\ n.seq = c.seq
  BY <1>2 DEF IsController, Numbers
<1>6. n = [fw |-> n.fw, seq |-> n.seq, lastStep |-> n.lastStep,
           queued |-> n.queued]
  BY <1>2, <1>5 DEF IsController, Numbers
<1> QED
  BY <1>3, <1>4, <1>5, <1>6 DEF IsController, Numbers, SameCore

(* The frames of a call are numbered from the counter on, which they move  *)
(* on by as many, or back when it wraps.                                   *)
Told(o, x) ==
  /\ o.seq \in 0 .. x /\ o.decodes /\ o.type # "Corrupt"
  /\ o.type = "HelloAck" => o.ok

LEMMA Drains ==
  ASSUME NEW c, Numbers(c), IsSeq(c.fw.tx),
         \A p \in Range(c.fw.tx) : Plain(p), NEW k,
         NEW call, call = K!Drained(c, k)
  PROVE  /\ IsController(call.ctl) /\ SameCore(c.fw, call.ctl.fw)
         /\ call.ctl.queued = c.queued /\ call.ctl.lastStep = c.lastStep
         /\ IsSeq(call.out) /\ Len(call.out) = Len(c.fw.tx)
         /\ call.ctl.seq <= c.seq + Len(c.fw.tx)
         /\ \A p \in Range(call.out) :
              /\ p.step = k /\ p.seq # None
              /\ Told(p, c.seq + Len(c.fw.tx) - 1)
              /\ Drive(p) => \E q \in Range(c.fw.tx) : Drive(q)
              /\ \E q \in Range(c.fw.tx) : p.type = q.type
<1> DEFINE s == [c.fw EXCEPT !.tx = <<>>]
           x == (c.seq + Len(c.fw.tx)) % SeqSize
           d == [c EXCEPT !.fw = s, !.seq = x]
           out == K!Numbered(c, k)
<1>1. call.ctl = [c EXCEPT !.fw.tx = <<>>, !.seq = x] /\ call.out = out
  BY DEF K!Drained
<1>14. x \in Nat /\ x <= c.seq + Len(c.fw.tx)
  <2>1. c.seq + Len(c.fw.tx) \in Nat
    BY SeqLength DEF Numbers
  <2> QED
    BY <2>1, Remains, HostSessionAssumption
<1> HIDE DEF x
<1>2. call.ctl = d
  BY <1>1 DEF Numbers
<1>3. IsSession(c.fw)
  BY DEF Numbers
<1>4. SameCore(c.fw, s) /\ s.tx = <<>> /\ s.assembly = c.fw.assembly
  BY <1>3 DEF IsSession, SameCore
<1>5. IsSession(s)
  BY <1>3, <1>4 DEF IsSession, SameCore
<1> HIDE DEF s
<1>6. d = [c EXCEPT !.fw = s, !.seq = x]
  OBVIOUS
<1> HIDE DEF d
<1>7. d.fw = s /\ d.queued = c.queued /\ d.lastStep = c.lastStep
      /\ d.seq = x
  BY <1>6 DEF Numbers
<1>8. d = [fw |-> d.fw, seq |-> d.seq, lastStep |-> d.lastStep,
           queued |-> d.queued]
  BY <1>7, <1>6 DEF Numbers
<1>9. IsController(d) /\ SameCore(c.fw, d.fw)
  <2>1. IsSeq(c.queued) /\ Len(c.queued) = Len(c.fw.sensors)
    BY DEF Numbers
  <2>2. s.sensors = c.fw.sensors
    BY <1>4 DEF SameCore
  <2>3. Numbers(d)
    BY <1>14, <1>5, <1>7, <1>8, <2>1, <2>2 DEF Numbers
  <2> QED
    BY <1>4, <1>7, <2>3 DEF IsController
<1> DEFINE tx == c.fw.tx
           more(i) == [seq |-> (c.seq + i - 1) % SeqSize, step |-> k,
                       decodes |-> TRUE]
<1>10. out = [i \in DOMAIN tx |-> K!Stamped(tx[i], more(i))]
  BY DEF K!Numbered
<1>11. DOMAIN tx = 1 .. Len(tx) /\ Len(tx) \in Nat
  BY SeqLength
<1>12. IsSeq(out) /\ Len(out) = Len(tx)
  <2>1. out \in Seq({K!Stamped(tx[i], more(i)) : i \in DOMAIN tx})
    BY <1>10, <1>11
  <2>2. Len(out) = Len(tx)
    BY <1>10, <1>11
  <2> QED
    BY <2>1, <2>2, SeqOver
<1>13. ASSUME NEW p \in Range(out)
       PROVE  /\ p.step = k /\ p.seq # None
              /\ Told(p, c.seq + Len(tx) - 1)
              /\ Drive(p) => \E q \in Range(tx) : Drive(q)
              /\ \E q \in Range(tx) : p.type = q.type
  <2>1. PICK i \in DOMAIN tx : p = K!Stamped(tx[i], more(i))
    BY <1>10 DEF Range
  <2> DEFINE q == tx[i]
             m == more(i)
  <2>2. q \in Range(tx)
    BY DEF Range
  <2>3. Plain(q)
    BY <2>2
  <2>4. /\ m.step = k /\ m.seq # None /\ m.decodes = TRUE
        /\ m.seq \in 0 .. c.seq + Len(tx) - 1
        /\ DOMAIN m = {"seq", "step", "decodes"}
    <3>1. c.seq + i - 1 \in Nat /\ c.seq + i - 1 <= c.seq + Len(tx) - 1
      BY <1>11 DEF Numbers
    <3>2. (c.seq + i - 1) % SeqSize \in 0 .. c.seq + i - 1
      BY <3>1, Remains, HostSessionAssumption
    <3>3. m.seq = (c.seq + i - 1) % SeqSize
      OBVIOUS
    <3>4. m.step = k /\ m.decodes = TRUE
          /\ DOMAIN m = {"seq", "step", "decodes"}
      OBVIOUS
    <3> HIDE DEF m
    <3>5. m.seq \in 0 .. c.seq + Len(tx) - 1
      BY <1>11, <3>1, <3>2, <3>3 DEF Numbers
    <3> QED
      BY <3>4, <3>5 DEF None
  <2> HIDE DEF q, m
  <2>5. p = [y \in DOMAIN q \cup DOMAIN m |->
               IF y \in DOMAIN q THEN q[y] ELSE m[y]]
    BY <2>1 DEF K!Stamped, q, m
  <2>6. /\ p.step = k /\ p.seq # None /\ p.decodes
        /\ p.seq \in 0 .. c.seq + Len(tx) - 1
    BY <2>3, <2>4, <2>5 DEF Plain
  <2>7. p.type = q.type
    BY <2>3, <2>5 DEF Plain
  <2>9. Told(p, c.seq + Len(tx) - 1)
    BY <2>3, <2>5, <2>6, <2>7 DEF Plain, Told
  <2>8. Drive(p) => Drive(q)
    BY <2>3, <2>5, <2>7 DEF Plain, Drive
  <2> QED
    BY <2>2, <2>6, <2>7, <2>8, <2>9
<1> QED
  BY <1>1, <1>2, <1>7, <1>9, <1>12, <1>13, <1>14

-----------------------------------------------------------------------------
(* The calls.  A call of a given load moves the counter on by no more, and *)
(* acknowledges a session with its first frame.                            *)
(*                                                                         *)
(* A drive command carries the step of the frame it consumed,              *)
(* or, once the estimator is initialized, the step of the call; it comes   *)
(* from a controller that has not stopped, and that has used up its        *)
(* control release.                                                        *)
Numbered(c, call, load) ==
  /\ call.ctl.seq <= c.seq + load
  /\ \A o \in Range(call.out) :
       Told(o, c.seq + load) /\ (o.type = "HelloAck" => o.seq = 0)

CallTicked(c, t, call) ==
  /\ IsController(call.ctl) /\ IsSeq(call.out)
  /\ Numbered(c, call, TxCapacity)
  /\ call.ctl.lastStep = t
  /\ Range(call.ctl.queued) \subseteq Range(c.queued)
  /\ call.ctl.fw.active = c.fw.active
  /\ Halted(c.fw) => Halted(call.ctl.fw)
  /\ Idle(c.fw) => call.ctl.fw.rt = c.fw.rt
  /\ Idle(c.fw) \/ c.fw.active => Idle(call.ctl.fw)
  /\ Idle(call.ctl.fw) \/ call.ctl.fw.initialized = c.fw.initialized
  /\ \A p \in Range(call.out) :
       p.step \in Range(c.queued) \cup {t} /\ p.seq # None
  /\ \A p \in Range(call.out) : Drive(p) =>
       /\ ~Halted(call.ctl.fw) /\ Idle(call.ctl.fw) /\ ~Idle(c.fw)
       /\ p.step \in Range(c.queued) \/ (p.step = t /\ c.fw.initialized)

LEMMA ToldMore ==
  ASSUME NEW s \in Nat, NEW l \in Nat, NEW load \in Nat, l <= load,
         NEW o, Told(o, s + l - 1)
  PROVE  Told(o, s + load)
BY DEF Told

LEMMA Ticks ==
  ASSUME NEW c, IsController(c), NEW t, NEW call, call = K!Ticked(c, t)
  PROVE  CallTicked(c, t, call)
<1> DEFINE s == c.fw
           n == K!C!Tick(s, "GnssAided", "Accepted")
           fewer == Len(n.sensors) < Len(s.sensors)
           q == IF fewer THEN Tail(c.queued) ELSE c.queued
           k == IF fewer THEN Head(c.queued) ELSE t
           d == [c EXCEPT !.fw = n, !.lastStep = t, !.queued = q]
<1>1. call = K!Drained(d, k)
  BY DEF K!Ticked, K!TickedTo
<1>2. IsSession(s) /\ s.tx = <<>> /\ IsSeq(c.queued) /\ c.seq \in Nat
      /\ Len(c.queued) = Len(s.sensors) /\ IsSeq(s.sensors)
  BY DEF IsController, Numbers, IsSession
<1>3. TickedSession(s, n)
  BY <1>2, SessionTicks
<1> HIDE DEF n
<1>4. /\ IsSeq(q) /\ Range(q) \subseteq Range(c.queued)
      /\ Len(q) = Len(n.sensors)
      /\ fewer => k \in Range(c.queued)
      /\ ~fewer => k = t /\ n.initialized = s.initialized
  <2>1. CASE n.sensors = s.sensors /\ n.initialized = s.initialized
    <3>1. ~fewer
      BY <1>2, <2>1, SeqLength
    <3> QED
      BY <1>2, <2>1, <3>1
  <2>2. CASE s.sensors # <<>> /\ n.sensors = Tail(s.sensors)
    <3>1. /\ Len(s.sensors) \in Nat \ {0}
          /\ Len(n.sensors) = Len(s.sensors) - 1
      BY <1>2, <2>2, SeqTail
    <3>2. fewer /\ c.queued # <<>>
      BY <1>2, <3>1, NoCells
    <3> QED
      BY <1>2, <3>1, <3>2, SeqTail
  <2> QED
    BY <1>3, <2>1, <2>2 DEF TickedSession, Fewer
<1> HIDE DEF q, k, fewer
<1>5. d = [c EXCEPT !.fw = n, !.lastStep = t, !.queued = q]
  OBVIOUS
<1> HIDE DEF d
<1>6. d.fw = n /\ d.queued = q /\ d.lastStep = t /\ d.seq = c.seq
  BY <1>5 DEF IsController, Numbers
<1>7. d = [fw |-> d.fw, seq |-> d.seq, lastStep |-> d.lastStep,
           queued |-> d.queued]
  BY <1>5, <1>6 DEF IsController, Numbers
<1>8. IsSession(n) /\ IsSeq(n.tx) /\ \A p \in Range(n.tx) : Plain(p)
  BY <1>3 DEF TickedSession
<1>9. Numbers(d)
  BY <1>2, <1>4, <1>6, <1>7, <1>8 DEF Numbers
<1>10. /\ IsController(call.ctl) /\ SameCore(n, call.ctl.fw)
       /\ call.ctl.queued = q /\ call.ctl.lastStep = t
       /\ IsSeq(call.out) /\ call.ctl.seq <= d.seq + Len(n.tx)
       /\ \A p \in Range(call.out) :
            /\ p.step = k /\ p.seq # None
            /\ Told(p, d.seq + Len(n.tx) - 1)
            /\ Drive(p) => \E o \in Range(n.tx) : Drive(o)
            /\ \E o \in Range(n.tx) : p.type = o.type
  BY <1>1, <1>6, <1>8, <1>9, Drains
<1>15. Numbered(c, call, TxCapacity)
  <2>1. /\ Len(n.tx) \in Nat /\ Len(n.tx) <= TxCapacity
        /\ \A o \in Range(n.tx) : o.type # "HelloAck"
        /\ TxCapacity \in Nat /\ d.seq = c.seq /\ c.seq \in Nat
    BY <1>2, <1>3, <1>6, SeqLength, ControllerAssumption
    DEF TickedSession, Speaks
  <2>2. call.ctl.seq \in Nat
    BY <1>10 DEF IsController, Numbers
  <2> QED
    BY <1>10, <2>1, <2>2, ToldMore DEF Numbered
<1> DEFINE m == call.ctl.fw
<1> HIDE DEF m
<1>11. /\ m.active = n.active /\ (Halted(n) <=> Halted(m)) /\ m.rt = n.rt
       /\ Idle(n) <=> Idle(m)
       /\ m.initialized = n.initialized
  BY <1>10 DEF SameCore, Halted, Idle, m
<1>12. ASSUME NEW p \in Range(call.out), Drive(p)
       PROVE  /\ ~Halted(m) /\ Idle(m) /\ ~Idle(s)
              /\ p.step \in Range(c.queued) \/ (p.step = t /\ s.initialized)
  <2>1. PICK o \in Range(n.tx) : Drive(o)
    BY <1>10, <1>12
  <2>2. ~Halted(n) /\ n.initialized /\ Idle(n)
    BY <1>3, <2>1 DEF TickedSession
  <2>3. ~Idle(s)
    BY <1>3, <2>1, NoCells DEF TickedSession
  <2>4. p.step = k
    BY <1>10, <1>12
  <2> QED
    BY <1>4, <1>11, <2>2, <2>3, <2>4
<1>13. /\ m.active = s.active /\ (Halted(s) => Halted(m))
       /\ Idle(s) => m.rt = s.rt
       /\ Idle(s) \/ s.active => Idle(m)
       /\ Idle(m) \/ m.initialized = s.initialized
  BY <1>3, <1>11 DEF TickedSession
<1>14. \A p \in Range(call.out) :
         p.step \in Range(c.queued) \cup {t} /\ p.seq # None
  BY <1>4, <1>10
<1> QED
  BY <1>4, <1>10, <1>12, <1>13, <1>14, <1>15 DEF CallTicked, m

(* One frame, before the tick that follows it.                             *)
Own(p) == p.type = "Corrupt" \/ FromHost(p)
Joining(p) == IF p.type = "Sensor" THEN {p.step} ELSE {}

CallFed(c, p, call) ==
  /\ IsController(call.ctl) /\ IsSeq(call.out)
  /\ Numbered(c, call, TxCapacity)
  /\ p.type = "Hello" => call.out # <<>>
  /\ \A o \in Range(call.out) :
       ~Drive(o) /\ o.step = call.ctl.lastStep /\ o.seq # None
  /\ call.ctl.lastStep = c.lastStep
       \/ (p.type # "Corrupt" /\ call.ctl.lastStep = p.step)
  /\ Range(call.ctl.queued) \subseteq Range(c.queued) \cup Joining(p)
  /\ call.ctl.fw.initialized = c.fw.initialized
  /\ Halted(c.fw) => Halted(call.ctl.fw)
  /\ Idle(c.fw) => Idle(call.ctl.fw)
  /\ p.type = "Hello" => call.ctl.fw.active
  /\ p.type = "SafeStop" =>
       Idle(call.ctl.fw) \/ call.ctl.lastStep = c.lastStep

LEMMA FeedsCorrupt ==
  ASSUME NEW c, IsController(c), NEW p, p.type = "Corrupt",
         NEW call, call = K!Fed(c, p)
  PROVE  CallFed(c, p, call)
<1> DEFINE s == c.fw
           n == K!C!SendError(s)
           d == [c EXCEPT !.fw = n]
<1>1. call = K!Drained(d, c.lastStep)
  BY DEF K!Fed
<1>2. IsSession(s) /\ s.tx = <<>> /\ IsSeq(c.queued) /\ c.seq \in Nat
      /\ Len(c.queued) = Len(s.sensors)
  BY DEF IsController, Numbers
<1>3. /\ Kept(s, n) /\ IsSeq(n.tx) /\ Speaks(n)
      /\ \A o \in Range(n.tx) : Quiet(o)
  BY <1>2, SendsError
<1> HIDE DEF n
<1>4. d = [c EXCEPT !.fw = n]
  OBVIOUS
<1> HIDE DEF d
<1>5. d.fw = n /\ d.queued = c.queued /\ d.lastStep = c.lastStep
      /\ d.seq = c.seq
  BY <1>4 DEF IsController, Numbers
<1>6. d = [fw |-> d.fw, seq |-> d.seq, lastStep |-> d.lastStep,
           queued |-> d.queued]
  BY <1>4, <1>5 DEF IsController, Numbers
<1>7. Numbers(d)
  BY <1>2, <1>3, <1>5, <1>6 DEF Numbers, Kept
<1>8. \A o \in Range(n.tx) : Plain(o) /\ ~Drive(o)
  BY <1>3 DEF Quiet
<1>9. /\ IsController(call.ctl) /\ SameCore(n, call.ctl.fw)
       /\ call.ctl.queued = c.queued /\ call.ctl.lastStep = c.lastStep
       /\ IsSeq(call.out) /\ call.ctl.seq <= d.seq + Len(n.tx)
       /\ \A o \in Range(call.out) :
            /\ ~Drive(o) /\ o.step = call.ctl.lastStep /\ o.seq # None
            /\ Told(o, d.seq + Len(n.tx) - 1)
            /\ \E q \in Range(n.tx) : o.type = q.type
  BY <1>1, <1>3, <1>5, <1>7, <1>8, Drains
<1>11. Numbered(c, call, TxCapacity)
  <2>1. /\ Len(n.tx) \in Nat /\ Len(n.tx) <= TxCapacity
        /\ \A o \in Range(n.tx) : o.type # "HelloAck"
        /\ TxCapacity \in Nat /\ d.seq = c.seq /\ c.seq \in Nat
    BY <1>2, <1>3, <1>5, SeqLength, ControllerAssumption DEF Speaks
  <2>2. call.ctl.seq \in Nat
    BY <1>9 DEF IsController, Numbers
  <2> QED
    BY <1>9, <2>1, <2>2, ToldMore DEF Numbered
<1> HIDE DEF s
<1>10. /\ call.ctl.fw.initialized = s.initialized
       /\ Halted(s) => Halted(call.ctl.fw)
       /\ Idle(s) => Idle(call.ctl.fw)
  BY <1>3, <1>9 DEF Kept, SameCore, Halted, Idle
<1> QED
  BY <1>9, <1>10, <1>11 DEF CallFed, s

LEMMA FeedsPacket ==
  ASSUME NEW c, IsController(c), NEW p, FromHost(p),
         NEW call, call = K!Fed(c, p)
  PROVE  CallFed(c, p, call)
<1> DEFINE s == c.fw
           n == K!C!HandlePacket(s, p, "GnssAided")
           t == K!Noted(c, p)
           hello == p.type = "Hello"
           grown == Len(n.sensors) > Len(s.sensors)
           q == CASE hello             -> <<>>
                  [] grown             -> Append(c.queued, p.step)
                  [] ~hello /\ ~grown  -> c.queued
           x == IF hello THEN 0 ELSE c.seq
           d == [fw |-> n, seq |-> x, lastStep |-> t, queued |-> q]
<1>1. call = K!Drained(d, t)
  BY DEF K!Fed, K!FedPacket, K!FedTo, FromHost
<1>2. IsSession(s) /\ s.tx = <<>> /\ IsSeq(c.queued)
      /\ Len(c.queued) = Len(s.sensors) /\ IsSeq(s.sensors)
  BY DEF IsController, Numbers, IsSession
<1>3. FedSession(s, p, n)
  BY <1>2, SessionFed
<1>4. \/ t = c.lastStep
      \/ t = p.step /\ K!Reached(c, p)
  BY DEF K!Noted
<1>5. p.type = "SafeStop" /\ K!Reached(c, p) => n.stepped
  BY <1>3 DEF K!Reached, FedSession
<1> HIDE DEF n, t
<1>6. /\ IsSeq(q) /\ Range(q) \subseteq Range(c.queued) \cup Joining(p)
      /\ Len(q) = Len(n.sensors)
  <2>1. CASE hello
    <3>1. q = <<>> /\ n.sensors = <<>>
      <4>1. q = <<>> \/ (q = Append(c.queued, p.step) /\ grown)
        BY <2>1
      <4>2. n.sensors = <<>> /\ Len(n.sensors) = 0 /\ Len(s.sensors) \in Nat
        BY <1>2, <1>3, <2>1, NoCells, SeqLength DEF FedSession
      <4> QED
        BY <4>1, <4>2
    <3> QED
      BY <3>1, NoCells
  <2>2. CASE ~hello /\ n.sensors = s.sensors
    <3>1. ~grown
      BY <1>2, <2>2, SeqLength
    <3> QED
      BY <1>2, <2>2, <3>1
  <2>3. CASE ~hello /\ p.type = "Sensor"
             /\ n.sensors = Append(s.sensors, p.samples)
    <3>1. Len(s.sensors) \in Nat /\ Len(n.sensors) = Len(s.sensors) + 1
      BY <1>2, <2>3, SeqAppend
    <3>2. q = Append(c.queued, p.step)
      <4>1. ~hello /\ grown
        BY <2>3, <3>1
      <4> HIDE DEF hello, grown
      <4> QED
        BY <4>1
    <3>3. Joining(p) = {p.step}
      BY <2>3 DEF Joining
    <3>4. /\ IsSeq(Append(c.queued, p.step))
          /\ Len(Append(c.queued, p.step)) = Len(c.queued) + 1
          /\ Range(Append(c.queued, p.step))
               \subseteq Range(c.queued) \cup {p.step}
      BY <1>2, SeqAppend
    <3> HIDE DEF q, grown
    <3> QED
      BY <1>2, <3>1, <3>2, <3>3, <3>4
  <2> QED
    BY <1>3, <2>1, <2>2, <2>3 DEF FedSession
<1>13. x \in Nat
  BY DEF IsController, Numbers
<1>15. x = IF hello THEN 0 ELSE c.seq
  OBVIOUS
<1> HIDE DEF q, x
<1>7. /\ d.fw = n /\ d.queued = q /\ d.lastStep = t /\ d.seq = x
      /\ d = [fw |-> d.fw, seq |-> d.seq, lastStep |-> d.lastStep,
              queued |-> d.queued]
  OBVIOUS
<1> HIDE DEF d
<1>8. IsSession(n) /\ IsSeq(n.tx) /\ \A o \in Range(n.tx) : Plain(o)
      /\ ~Drive(o)
  BY <1>3 DEF FedSession, Quiet
<1>9. Numbers(d)
  BY <1>6, <1>13, <1>7, <1>8 DEF Numbers
<1>10. /\ IsController(call.ctl) /\ SameCore(n, call.ctl.fw)
       /\ call.ctl.queued = q /\ call.ctl.lastStep = t
       /\ IsSeq(call.out) /\ Len(call.out) = Len(n.tx)
       /\ call.ctl.seq <= x + Len(n.tx)
       /\ \A o \in Range(call.out) :
            /\ ~Drive(o) /\ o.step = call.ctl.lastStep /\ o.seq # None
            /\ Told(o, x + Len(n.tx) - 1)
            /\ \E e \in Range(n.tx) : o.type = e.type
  BY <1>1, <1>7, <1>8, <1>9, Drains
<1>14. Numbered(c, call, TxCapacity) /\ (hello => call.out # <<>>)
  <2>1. /\ call.ctl.seq \in Nat /\ x \in Nat /\ c.seq \in Nat
        /\ TxCapacity \in Nat /\ 1 <= TxCapacity /\ Len(n.tx) \in Nat
    BY <1>8, <1>10, <1>13, SeqLength, ControllerAssumption
    DEF IsController, Numbers
  <2>2. CASE hello
    <3>1. Len(n.tx) = 1 /\ x = 0
      BY <1>3, <1>15, <2>2 DEF FedSession
    <3>2. \A o \in Range(call.out) : Told(o, 0)
      BY <1>10, <3>1
    <3>3. call.out # <<>>
      BY <1>10, <3>1, NoCells
    <3>4. ASSUME NEW o \in Range(call.out)
          PROVE  Told(o, c.seq + TxCapacity) /\ o.seq = 0
      BY <2>1, <3>2 DEF Told
    <3> QED
      BY <1>10, <2>1, <3>1, <3>3, <3>4 DEF Numbered
  <2>3. CASE ~hello
    <3>1. /\ Len(n.tx) <= TxCapacity /\ x = c.seq
          /\ \A o \in Range(n.tx) : o.type # "HelloAck"
      BY <1>3, <1>15, <2>3 DEF FedSession, Speaks
    <3>2. call.ctl.seq <= c.seq + TxCapacity
      BY <1>10, <2>1, <3>1
    <3>3. ASSUME NEW o \in Range(call.out)
          PROVE  Told(o, c.seq + TxCapacity) /\ o.type # "HelloAck"
      BY <1>10, <2>1, <3>1, ToldMore
    <3> QED
      BY <2>3, <3>2, <3>3 DEF Numbered
  <2> QED
    BY <2>2, <2>3
<1> DEFINE m == call.ctl.fw
<1> HIDE DEF m, s
<1>11. /\ m.initialized = s.initialized
       /\ Halted(s) => Halted(m)
       /\ Idle(s) => Idle(m)
       /\ p.type = "Hello" => m.active
       /\ n.stepped => Idle(m)
  BY <1>3, <1>10 DEF FedSession, SameCore, Halted, Idle, m
<1>12. p.type # "Corrupt"
  BY DEF FromHost
<1> QED
  BY <1>4, <1>5, <1>6, <1>10, <1>11, <1>12, <1>14 DEF CallFed, m, s

(* A call of the host: the frame, then a tick with the step the controller *)
(* has noted.                                                              *)
CallMade(c, p, call) ==
  /\ IsController(call.ctl) /\ IsSeq(call.out)
  /\ Numbered(c, call, 2 * TxCapacity)
  /\ p.type = "Hello" => call.out # <<>>
  /\ call.ctl.lastStep = c.lastStep
       \/ (p.type # "Corrupt" /\ call.ctl.lastStep = p.step)
  /\ Range(call.ctl.queued) \subseteq Range(c.queued) \cup Joining(p)
  /\ Halted(c.fw) => Halted(call.ctl.fw)
  /\ Idle(c.fw) => Idle(call.ctl.fw)
  /\ p.type = "Hello" => Idle(call.ctl.fw)
  /\ p.type = "SafeStop" =>
       Idle(call.ctl.fw) \/ call.ctl.lastStep = c.lastStep
  /\ Idle(call.ctl.fw) \/ call.ctl.fw.initialized = c.fw.initialized
  /\ \A o \in Range(call.out) :
       /\ o.step \in Range(c.queued) \cup Joining(p) \cup {call.ctl.lastStep}
       /\ o.seq # None
  /\ \A o \in Range(call.out) : Drive(o) =>
       /\ ~Halted(call.ctl.fw) /\ Idle(call.ctl.fw) /\ ~Idle(c.fw)
       /\ \/ o.step \in Range(c.queued) \cup Joining(p)
          \/ /\ c.fw.initialized /\ o.step = call.ctl.lastStep
             /\ p.type = "SafeStop" => o.step = c.lastStep

LEMMA Feeds ==
  ASSUME NEW c, IsController(c), NEW p, Own(p),
         NEW call, call = K!FeedCall(c, p)
  PROVE  CallMade(c, p, call)
<1> DEFINE b == K!Called(c)
           fed == K!Fed(b, p)
           ticked == K!Ticked(fed.ctl, fed.ctl.lastStep)
           out == fed.out \o ticked.out
<1>1. call = [ctl |-> ticked.ctl, out |-> out]
  BY DEF K!FeedCall, K!TickedAfter, K!After
<1>2. /\ IsController(b) /\ SameCore(c.fw, b.fw) /\ b.seq = c.seq
      /\ b.queued = c.queued /\ b.lastStep = c.lastStep
  BY Calls
<1>3. /\ (Halted(c.fw) <=> Halted(b.fw)) /\ (Idle(c.fw) <=> Idle(b.fw))
      /\ b.fw.initialized = c.fw.initialized
  BY <1>2 DEF SameCore, Halted, Idle
<1> HIDE DEF b
<1>4. CallFed(b, p, fed)
  BY <1>2, FeedsCorrupt, FeedsPacket DEF Own
<1> HIDE DEF fed
<1>5. CallTicked(fed.ctl, fed.ctl.lastStep, ticked)
  BY <1>4, Ticks DEF CallFed
<1> HIDE DEF ticked, out
<1>6. call.ctl = ticked.ctl /\ call.out = out
  BY <1>1
<1>7. /\ IsSeq(call.out)
      /\ Range(call.out) \subseteq Range(fed.out) \cup Range(ticked.out)
      /\ fed.out # <<>> => call.out # <<>>
  BY <1>4, <1>5, <1>6, SeqConcat DEF CallFed, CallTicked, out
<1>8. ASSUME NEW o \in Range(call.out), Drive(o)
      PROVE  /\ ~Halted(call.ctl.fw) /\ Idle(call.ctl.fw) /\ ~Idle(c.fw)
             /\ \/ o.step \in Range(c.queued) \cup Joining(p)
                \/ /\ c.fw.initialized /\ o.step = call.ctl.lastStep
                   /\ p.type = "SafeStop" => o.step = c.lastStep
  <2>1. o \in Range(ticked.out)
    BY <1>4, <1>7, <1>8 DEF CallFed
  <2>2. /\ ~Halted(call.ctl.fw) /\ Idle(call.ctl.fw) /\ ~Idle(fed.ctl.fw)
        /\ \/ o.step \in Range(fed.ctl.queued)
           \/ o.step = fed.ctl.lastStep /\ fed.ctl.fw.initialized
        /\ call.ctl.lastStep = fed.ctl.lastStep
    BY <1>5, <1>6, <1>8, <2>1 DEF CallTicked
  <2> QED
    BY <1>2, <1>3, <1>4, <2>2 DEF CallFed
<1>9. /\ IsController(call.ctl)
      /\ call.ctl.lastStep = c.lastStep
           \/ (p.type # "Corrupt" /\ call.ctl.lastStep = p.step)
      /\ Range(call.ctl.queued) \subseteq Range(c.queued) \cup Joining(p)
  BY <1>2, <1>4, <1>5, <1>6 DEF CallFed, CallTicked
<1>10. /\ Halted(c.fw) => Halted(call.ctl.fw)
       /\ Idle(c.fw) => Idle(call.ctl.fw)
       /\ p.type = "Hello" => Idle(call.ctl.fw)
       /\ p.type = "SafeStop" =>
            Idle(call.ctl.fw) \/ call.ctl.lastStep = c.lastStep
       /\ Idle(call.ctl.fw) \/ call.ctl.fw.initialized = c.fw.initialized
  BY <1>2, <1>3, <1>4, <1>5, <1>6 DEF CallFed, CallTicked
<1>11. ASSUME NEW o \in Range(call.out)
       PROVE  /\ o.step \in Range(c.queued) \cup Joining(p)
                             \cup {call.ctl.lastStep}
              /\ o.seq # None
  <2>1. CASE o \in Range(fed.out)
    BY <1>4, <1>5, <1>6, <2>1 DEF CallFed, CallTicked
  <2>2. CASE o \in Range(ticked.out)
    BY <1>2, <1>4, <1>5, <1>6, <2>2 DEF CallFed, CallTicked
  <2> QED
    BY <1>7, <2>1, <2>2
<1>12. Numbered(c, call, 2 * TxCapacity)
  <2>1. /\ TxCapacity \in Nat /\ c.seq \in Nat /\ fed.ctl.seq \in Nat
        /\ ticked.ctl.seq \in Nat
        /\ fed.ctl.seq <= c.seq + TxCapacity
        /\ ticked.ctl.seq <= fed.ctl.seq + TxCapacity
    BY <1>2, <1>4, <1>5, ControllerAssumption
    DEF CallFed, CallTicked, IsController, Numbers, Numbered
  <2>2. ASSUME NEW o \in Range(call.out)
        PROVE  /\ Told(o, c.seq + 2 * TxCapacity)
               /\ o.type = "HelloAck" => o.seq = 0
    <3>1. /\ \/ Told(o, c.seq + TxCapacity)
             \/ Told(o, fed.ctl.seq + TxCapacity)
          /\ o.type = "HelloAck" => o.seq = 0
      BY <1>2, <1>4, <1>5, <1>7 DEF CallFed, CallTicked, Numbered
    <3> QED
      BY <2>1, <3>1 DEF Told
  <2> QED
    BY <1>6, <2>1, <2>2 DEF Numbered
<1> QED
  BY <1>4, <1>7, <1>8, <1>9, <1>10, <1>11, <1>12 DEF CallMade, CallFed

-----------------------------------------------------------------------------
(* Folds of a sequence: what they go through, one element after the other. *)
LEMMA SetInduction ==
  ASSUME NEW T, 0 \in T, \A n \in Nat : n \in T => n + 1 \in T
  PROVE  Nat \subseteq T
<1> DEFINE Out == {n \in Nat : n \notin T}
           Lt == {p \in Nat \X Nat : p[1] < p[2]}
<1>1. IsWellFoundedOn(Lt, Nat)
  BY NatLessThanWellFounded DEF OpToRel
<1>2. SUFFICES ASSUME Out # {} PROVE FALSE
  OBVIOUS
<1> HIDE DEF Lt
<1>3. PICK n \in Out : \A m \in Out : ~(<<m, n>> \in Lt)
  BY <1>1, <1>2, WFMin
<1>4. n # 0 /\ n \in Nat /\ n - 1 \in Nat
  OBVIOUS
<1>5. n - 1 \in Out
  BY <1>4
<1>6. <<n - 1, n>> \in Lt
  BY <1>4 DEF Lt
<1> QED
  BY <1>3, <1>5, <1>6

LEMMA MaxOf ==
  ASSUME NEW x \in SUBSET Int, NEW m \in x, \A y \in x : m >= y
  PROVE  Max(x) = m
<1> DEFINE P(k) == k \in x /\ \A y \in x : k >= y
<1>1. Max(x) = CHOOSE k : P(k)
  BY DEF Max
<1>2. ASSUME NEW k, P(k) PROVE k = m
  <2>1. k \in Int /\ m \in Int /\ k >= m /\ m >= k
    BY <1>2
  <2> QED
    BY <2>1
<1>3. P(m)
  OBVIOUS
<1> HIDE DEF P
<1> QED
  BY <1>1, <1>2, <1>3

LEMMA MaxUpTo ==
  ASSUME NEW n \in Nat, NEW i \in 1 .. n
  PROVE  /\ 1 .. i \in SUBSET (1 .. n) /\ 1 .. i # {}
         /\ Max(1 .. i) = i /\ (1 .. i) \ {i} = 1 .. i - 1
<1> DEFINE d == 1 .. i
<1>1. /\ d \in SUBSET (1 .. n) /\ d # {} /\ d \ {i} = 1 .. i - 1
      /\ d \in SUBSET Int /\ i \in d /\ \A y \in d : i >= y
  OBVIOUS
<1> HIDE DEF d
<1>2. Max(d) = i
  BY <1>1, MaxOf
<1> QED
  BY <1>1, <1>2 DEF d

LEMMA Greatest ==
  ASSUME NEW n \in Nat, NEW d \in SUBSET (1 .. n), d # {}
  PROVE  \E m \in d : \A y \in d : y <= m
<1> DEFINE Upper == {k \in Nat : \E y \in d : y + k = n}
<1>1. Upper # {}
  <2>1. PICK y \in d : TRUE
    OBVIOUS
  <2>2. n - y \in Nat /\ y + (n - y) = n
    OBVIOUS
  <2> QED
    BY <2>1, <2>2
<1>2. PICK k \in Upper : \A j \in Upper : ~(j < k)
  <2> DEFINE Lt == {p \in Nat \X Nat : p[1] < p[2]}
  <2>1. IsWellFoundedOn(Lt, Nat)
    BY NatLessThanWellFounded DEF OpToRel
  <2> HIDE DEF Lt
  <2>2. PICK k \in Upper : \A j \in Upper : ~(<<j, k>> \in Lt)
    BY <1>1, <2>1, WFMin
  <2>3. ASSUME NEW j \in Upper, j < k PROVE FALSE
    BY <2>2, <2>3 DEF Lt
  <2> QED
    BY <2>3
<1>3. PICK m \in d : m + k = n
  BY <1>2
<1>4. ASSUME NEW y \in d PROVE y <= m
  <2>1. n - y \in Nat /\ y + (n - y) = n
    OBVIOUS
  <2>2. n - y \in Upper
    BY <2>1
  <2>3. ~(n - y < k)
    BY <1>2, <2>2
  <2> QED
    BY <1>3, <2>1, <2>3
<1> QED
  BY <1>4

(* The table of a fold, for one element more.                              *)
Lengthens(k, g, w, n) ==
  /\ k = [d \in SUBSET (1 .. n + 1) |-> k[d]]
  /\ k[{}] = g[{}]
  /\ \A d \in SUBSET (1 .. n + 1) : d # {} =>
       /\ d \ {Max(d)} \in SUBSET (1 .. n)
       /\ k[d \ {Max(d)}] = g[d \ {Max(d)}]
       /\ \/ d \in SUBSET (1 .. n) /\ k[d] = g[d]
          \/ Max(d) = n + 1 /\ k[d] = w[d \ {Max(d)}]

LEMMA Longer ==
  ASSUME NEW n \in Nat, NEW g, NEW w
  PROVE  \E k : Lengthens(k, g, w, n)
<1> DEFINE D == SUBSET (1 .. n + 1)
           k == [d \in D |-> IF d \subseteq 1 .. n THEN g[d]
                             ELSE w[d \ {n + 1}]]
<1>1. ASSUME NEW d \in SUBSET (1 .. n) PROVE d \in D /\ k[d] = g[d]
  <2>1. d \in D /\ d \subseteq 1 .. n
    OBVIOUS
  <2> HIDE DEF D
  <2> QED
    BY <2>1
<1>2. ASSUME NEW d \in D, d # {}
      PROVE  /\ d \ {Max(d)} \in SUBSET (1 .. n)
             /\ k[d \ {Max(d)}] = g[d \ {Max(d)}]
             /\ \/ d \in SUBSET (1 .. n) /\ k[d] = g[d]
                \/ Max(d) = n + 1 /\ k[d] = w[d \ {Max(d)}]
  <2>1. CASE d \subseteq 1 .. n
    <3>1. d \ {Max(d)} \in SUBSET (1 .. n)
      BY <2>1
    <3> HIDE DEF k
    <3> QED
      BY <1>1, <2>1, <3>1
  <2>2. CASE ~(d \subseteq 1 .. n)
    <3>1. n + 1 \in d /\ d \in SUBSET Int /\ \A y \in d : n + 1 >= y
      BY <2>2
    <3>2. Max(d) = n + 1
      BY <3>1, MaxOf
    <3>3. d \ {n + 1} \in SUBSET (1 .. n)
      OBVIOUS
    <3>4. k[d] = w[d \ {n + 1}]
      BY <2>2
    <3> HIDE DEF k
    <3> QED
      BY <1>1, <3>2, <3>3, <3>4
  <2> QED
    BY <2>1, <2>2
<1>3. k = [d \in D |-> k[d]]
  OBVIOUS
<1>4. {} \in SUBSET (1 .. n)
  OBVIOUS
<1> HIDE DEF k
<1> QED
  BY <1>1, <1>2, <1>3, <1>4 DEF Lengthens

(* What the table says of the elements in their order.                     *)
Passes(h, f, w, n) ==
  /\ h[0] = f[{}] /\ h[n] = f[1 .. n]
  /\ \A i \in 1 .. n :
       /\ 1 .. i \in SUBSET (1 .. n) /\ Max(1 .. i) = i
       /\ h[i] = w[1 .. i]
       /\ h[i - 1] = f[(1 .. i) \ {Max(1 .. i)}]

LEMMA InOrder ==
  ASSUME NEW n \in Nat, NEW base, NEW f, NEW w,
         f = [d \in SUBSET (1 .. n) |-> IF d = {} THEN base ELSE w[d]]
  PROVE  (\E h : Passes(h, f, w, n)) /\ f[{}] = base
<1> DEFINE h == [i \in 0 .. n |-> f[1 .. i]]
<1>1. h[0] = f[{}] /\ f[{}] = base
  <2>1. 1 .. 0 = {} /\ 0 \in 0 .. n /\ {} \in SUBSET (1 .. n)
    OBVIOUS
  <2> QED
    BY <2>1
<1>2. ASSUME NEW i \in 1 .. n
      PROVE  /\ 1 .. i \in SUBSET (1 .. n) /\ Max(1 .. i) = i
             /\ h[i] = w[1 .. i]
             /\ h[i - 1] = f[(1 .. i) \ {Max(1 .. i)}]
  <2>1. i \in 0 .. n /\ i - 1 \in 0 .. n
    OBVIOUS
  <2>2. h[i] = f[1 .. i] /\ h[i - 1] = f[1 .. i - 1]
    BY <2>1
  <2> HIDE DEF h
  <2>3. /\ 1 .. i \in SUBSET (1 .. n) /\ 1 .. i # {}
        /\ Max(1 .. i) = i /\ (1 .. i) \ {i} = 1 .. i - 1
    BY MaxUpTo
  <2>4. f[1 .. i] = w[1 .. i]
    BY <2>3
  <2> QED
    BY <2>2, <2>3, <2>4
<1>3. h[n] = f[1 .. n]
  OBVIOUS
<1> HIDE DEF h
<1> QED
  BY <1>1, <1>2, <1>3 DEF Passes

(* Frame after frame, to the controller.                                   *)
DeliveredRun(h, base, s, n) ==
  /\ h[0] = base
  /\ h[n] = Delivered(base, s)
  /\ \A i \in 1 .. n :
       h[i] = Answered(h[i - 1], K!FeedCall(h[i - 1].ctl, s[i]))

LEMMA DeliveredRuns ==
  ASSUME NEW base, NEW s, IsSeq(s), NEW n, n = Len(s)
  PROVE  \E h : DeliveredRun(h, base, s, n)
<1> DEFINE Op(q, x) == Answered(q, K!FeedCall(q.ctl, x))
           Iter(g, dom) ==
             g = [e \in SUBSET dom |->
                    IF e = {} THEN base ELSE Op(g[e \ {Max(e)}], s[Max(e)])]
           f == CHOOSE g : Iter(g, DOMAIN s)
<1>1. Delivered(base, s) = f[DOMAIN s]
  BY DEF Delivered, FoldLeft, MapThenFoldSet
<1>2. DOMAIN s = 1 .. n /\ n \in Nat
  BY SeqLength
<1> HIDE DEF Op
<1> DEFINE Some == {m \in Nat : \E g : Iter(g, 1 .. m)}
<1>3. 0 \in Some
  <2>1. 1 .. 0 = {}
    OBVIOUS
  <2> DEFINE g == [e \in SUBSET {} |-> base]
  <2>2. Iter(g, {})
    OBVIOUS
  <2> HIDE DEF Iter
  <2> QED
    BY <2>1, <2>2
<1>4. ASSUME NEW m \in Nat, m \in Some PROVE m + 1 \in Some
  <2>1. PICK g : Iter(g, 1 .. m)
    BY <1>4
  <2> DEFINE w == [e \in SUBSET (1 .. m) |-> Op(g[e], s[m + 1])]
  <2>2. ASSUME NEW e \in SUBSET (1 .. m)
        PROVE  /\ g[e] = IF e = {} THEN base
                         ELSE Op(g[e \ {Max(e)}], s[Max(e)])
               /\ w[e] = Op(g[e], s[m + 1])
    BY <2>1
  <2> HIDE DEF w
  <2>3. PICK j : Lengthens(j, g, w, m)
    BY Longer
  <2>4. ASSUME NEW e \in SUBSET (1 .. m + 1)
        PROVE  j[e] = IF e = {} THEN base
                      ELSE Op(j[e \ {Max(e)}], s[Max(e)])
    BY <2>3, <2>2 DEF Lengthens
  <2>5. Iter(j, 1 .. m + 1)
    BY <2>3, <2>4 DEF Lengthens
  <2> HIDE DEF Iter
  <2> QED
    BY <2>5
<1>5. Iter(f, 1 .. n)
  <2> HIDE DEF Iter
  <2>1. Nat \subseteq Some
    <3> HIDE DEF Some
    <3> QED
      BY <1>3, <1>4, SetInduction
  <2> QED
    BY <1>2, <2>1
<1> HIDE DEF f
<1> DEFINE w == [e \in SUBSET (1 .. n) |-> Op(f[e \ {Max(e)}], s[Max(e)])]
<1>6. f = [e \in SUBSET (1 .. n) |-> IF e = {} THEN base ELSE w[e]]
  BY <1>5
<1>7. ASSUME NEW e \in SUBSET (1 .. n)
      PROVE  w[e] = Op(f[e \ {Max(e)}], s[Max(e)])
  OBVIOUS
<1> HIDE DEF w
<1>8. (\E h : Passes(h, f, w, n)) /\ f[{}] = base
  BY <1>2, <1>6, InOrder
<1>9. PICK h : Passes(h, f, w, n)
  BY <1>8
<1>10. \A i \in 1 .. n : h[i] = Op(h[i - 1], s[i])
  BY <1>7, <1>9 DEF Passes
<1>11. h[0] = base /\ (h[n] = Delivered(base, s))
  BY <1>1, <1>2, <1>8, <1>9 DEF Passes
<1> QED
  BY <1>10, <1>11 DEF Op, DeliveredRun

-----------------------------------------------------------------------------
(* Frame after frame, through the link.                                    *)
ShapedOn(acc, now, fault, frame) ==
  [dir |-> L!FrameShaped(acc.dir, now, fault, frame).dir,
   out |-> acc.out \o L!FrameShaped(acc.dir, now, fault, frame).out]

ShapedRun(h, d, now, fault, base, s, n) ==
  /\ h[0] = base
  /\ base = [dir |-> d, out |-> <<>>] => h[n] = L!Shaped(d, now, fault, s)
  /\ \A i \in 1 .. n : h[i] = ShapedOn(h[i - 1], now, fault, s[i])

LEMMA ShapedRuns ==
  ASSUME NEW d, NEW now, NEW fault, NEW base, NEW s, IsSeq(s),
         NEW n, n = Len(s)
  PROVE  \E h : ShapedRun(h, d, now, fault, base, s, n)
<1> DEFINE Op(q, x) == ShapedOn(q, now, fault, x)
           Iter(g, dom) ==
             g = [e \in SUBSET dom |->
                    IF e = {} THEN base ELSE Op(g[e \ {Max(e)}], s[Max(e)])]
           f == CHOOSE g : Iter(g, DOMAIN s)
<1>1. base = [dir |-> d, out |-> <<>>] =>
        L!Shaped(d, now, fault, s) = f[DOMAIN s]
  BY DEF ShapedOn, L!Shaped, L!FoldLeft, L!MapThenFoldSet, L!Max, Max,
         FoldLeft, MapThenFoldSet
<1>2. DOMAIN s = 1 .. n /\ n \in Nat
  BY SeqLength
<1> HIDE DEF Op
<1> DEFINE Some == {m \in Nat : \E g : Iter(g, 1 .. m)}
<1>3. 0 \in Some
  <2>1. 1 .. 0 = {}
    OBVIOUS
  <2> DEFINE g == [e \in SUBSET {} |-> base]
  <2>2. Iter(g, {})
    OBVIOUS
  <2> HIDE DEF Iter
  <2> QED
    BY <2>1, <2>2
<1>4. ASSUME NEW m \in Nat, m \in Some PROVE m + 1 \in Some
  <2>1. PICK g : Iter(g, 1 .. m)
    BY <1>4
  <2> DEFINE w == [e \in SUBSET (1 .. m) |-> Op(g[e], s[m + 1])]
  <2>2. ASSUME NEW e \in SUBSET (1 .. m)
        PROVE  /\ g[e] = IF e = {} THEN base
                         ELSE Op(g[e \ {Max(e)}], s[Max(e)])
               /\ w[e] = Op(g[e], s[m + 1])
    BY <2>1
  <2> HIDE DEF w
  <2>3. PICK j : Lengthens(j, g, w, m)
    BY Longer
  <2>4. ASSUME NEW e \in SUBSET (1 .. m + 1)
        PROVE  j[e] = IF e = {} THEN base
                      ELSE Op(j[e \ {Max(e)}], s[Max(e)])
    BY <2>3, <2>2 DEF Lengthens
  <2>5. Iter(j, 1 .. m + 1)
    BY <2>3, <2>4 DEF Lengthens
  <2> HIDE DEF Iter
  <2> QED
    BY <2>5
<1>5. Iter(f, 1 .. n)
  <2> HIDE DEF Iter
  <2>1. Nat \subseteq Some
    <3> HIDE DEF Some
    <3> QED
      BY <1>3, <1>4, SetInduction
  <2> QED
    BY <1>2, <2>1
<1> HIDE DEF f
<1> DEFINE w == [e \in SUBSET (1 .. n) |-> Op(f[e \ {Max(e)}], s[Max(e)])]
<1>6. f = [e \in SUBSET (1 .. n) |-> IF e = {} THEN base ELSE w[e]]
  BY <1>5
<1>7. ASSUME NEW e \in SUBSET (1 .. n)
      PROVE  w[e] = Op(f[e \ {Max(e)}], s[Max(e)])
  OBVIOUS
<1> HIDE DEF w
<1>8. (\E h : Passes(h, f, w, n)) /\ f[{}] = base
  BY <1>2, <1>6, InOrder
<1>9. PICK h : Passes(h, f, w, n)
  BY <1>8
<1>10. \A i \in 1 .. n : h[i] = Op(h[i - 1], s[i])
  BY <1>7, <1>9 DEF Passes
<1>11. /\ h[0] = base
       /\ base = [dir |-> d, out |-> <<>>] =>
            h[n] = L!Shaped(d, now, fault, s)
  BY <1>1, <1>2, <1>8, <1>9 DEF Passes
<1> QED
  BY <1>10, <1>11 DEF Op, ShapedRun

(* Packet after packet, to the session of the host.                        *)
ReadOn(acc, p) ==
  [host   |-> PacketRead(acc.host, p),
   events |-> IF LetThrough(acc.host, p) /\ p.decodes
                THEN Append(acc.events, p) ELSE acc.events]

PacketRun(h, d, base, s, n) ==
  /\ h[0] = base
  /\ base = [host |-> d, events |-> <<>>] => h[n] = PacketsRead(d, s)
  /\ \A i \in 1 .. n : h[i] = ReadOn(h[i - 1], s[i])

LEMMA PacketsRun ==
  ASSUME NEW d, NEW base, NEW s, IsSeq(s), NEW n, n = Len(s)
  PROVE  \E h : PacketRun(h, d, base, s, n)
<1> DEFINE Op(q, x) == ReadOn(q, x)
           Iter(g, dom) ==
             g = [e \in SUBSET dom |->
                    IF e = {} THEN base ELSE Op(g[e \ {Max(e)}], s[Max(e)])]
           f == CHOOSE g : Iter(g, DOMAIN s)
<1>1. base = [host |-> d, events |-> <<>>] => PacketsRead(d, s) = f[DOMAIN s]
  BY DEF ReadOn, PacketsRead, FoldLeft, MapThenFoldSet
<1>2. DOMAIN s = 1 .. n /\ n \in Nat
  BY SeqLength
<1> HIDE DEF Op
<1> DEFINE Some == {m \in Nat : \E g : Iter(g, 1 .. m)}
<1>3. 0 \in Some
  <2>1. 1 .. 0 = {}
    OBVIOUS
  <2> DEFINE g == [e \in SUBSET {} |-> base]
  <2>2. Iter(g, {})
    OBVIOUS
  <2> HIDE DEF Iter
  <2> QED
    BY <2>1, <2>2
<1>4. ASSUME NEW m \in Nat, m \in Some PROVE m + 1 \in Some
  <2>1. PICK g : Iter(g, 1 .. m)
    BY <1>4
  <2> DEFINE w == [e \in SUBSET (1 .. m) |-> Op(g[e], s[m + 1])]
  <2>2. ASSUME NEW e \in SUBSET (1 .. m)
        PROVE  /\ g[e] = IF e = {} THEN base
                         ELSE Op(g[e \ {Max(e)}], s[Max(e)])
               /\ w[e] = Op(g[e], s[m + 1])
    BY <2>1
  <2> HIDE DEF w
  <2>3. PICK j : Lengthens(j, g, w, m)
    BY Longer
  <2>4. ASSUME NEW e \in SUBSET (1 .. m + 1)
        PROVE  j[e] = IF e = {} THEN base
                      ELSE Op(j[e \ {Max(e)}], s[Max(e)])
    BY <2>3, <2>2 DEF Lengthens
  <2>5. Iter(j, 1 .. m + 1)
    BY <2>3, <2>4 DEF Lengthens
  <2> HIDE DEF Iter
  <2> QED
    BY <2>5
<1>5. Iter(f, 1 .. n)
  <2> HIDE DEF Iter
  <2>1. Nat \subseteq Some
    <3> HIDE DEF Some
    <3> QED
      BY <1>3, <1>4, SetInduction
  <2> QED
    BY <1>2, <2>1
<1> HIDE DEF f
<1> DEFINE w == [e \in SUBSET (1 .. n) |-> Op(f[e \ {Max(e)}], s[Max(e)])]
<1>6. f = [e \in SUBSET (1 .. n) |-> IF e = {} THEN base ELSE w[e]]
  BY <1>5
<1>7. ASSUME NEW e \in SUBSET (1 .. n)
      PROVE  w[e] = Op(f[e \ {Max(e)}], s[Max(e)])
  OBVIOUS
<1> HIDE DEF w
<1>8. (\E h : Passes(h, f, w, n)) /\ f[{}] = base
  BY <1>2, <1>6, InOrder
<1>9. PICK h : Passes(h, f, w, n)
  BY <1>8
<1>10. \A i \in 1 .. n : h[i] = Op(h[i - 1], s[i])
  BY <1>7, <1>9 DEF Passes
<1>11. /\ h[0] = base
       /\ base = [host |-> d, events |-> <<>>] => h[n] = PacketsRead(d, s)
  BY <1>1, <1>2, <1>8, <1>9 DEF Passes
<1> QED
  BY <1>10, <1>11 DEF Op, PacketRun

(* Event after event, to the last command.                                 *)
CommandRun(h, k, base, s, n) ==
  /\ h[0] = base
  /\ base = last => h[n] = LastCommand(s, k)
  /\ \A i \in 1 .. n : h[i] = NextCommand(h[i - 1], s[i], k)

LEMMA CommandsRun ==
  ASSUME NEW k, NEW base, NEW s, IsSeq(s), NEW n, n = Len(s)
  PROVE  \E h : CommandRun(h, k, base, s, n)
<1> DEFINE Op(q, x) == NextCommand(q, x, k)
           Iter(g, dom) ==
             g = [e \in SUBSET dom |->
                    IF e = {} THEN base ELSE Op(g[e \ {Max(e)}], s[Max(e)])]
           f == CHOOSE g : Iter(g, DOMAIN s)
<1>1. base = last => LastCommand(s, k) = f[DOMAIN s]
  BY DEF LastCommand, FoldLeft, MapThenFoldSet
<1>2. DOMAIN s = 1 .. n /\ n \in Nat
  BY SeqLength
<1> HIDE DEF Op
<1> DEFINE Some == {m \in Nat : \E g : Iter(g, 1 .. m)}
<1>3. 0 \in Some
  <2>1. 1 .. 0 = {}
    OBVIOUS
  <2> DEFINE g == [e \in SUBSET {} |-> base]
  <2>2. Iter(g, {})
    OBVIOUS
  <2> HIDE DEF Iter
  <2> QED
    BY <2>1, <2>2
<1>4. ASSUME NEW m \in Nat, m \in Some PROVE m + 1 \in Some
  <2>1. PICK g : Iter(g, 1 .. m)
    BY <1>4
  <2> DEFINE w == [e \in SUBSET (1 .. m) |-> Op(g[e], s[m + 1])]
  <2>2. ASSUME NEW e \in SUBSET (1 .. m)
        PROVE  /\ g[e] = IF e = {} THEN base
                         ELSE Op(g[e \ {Max(e)}], s[Max(e)])
               /\ w[e] = Op(g[e], s[m + 1])
    BY <2>1
  <2> HIDE DEF w
  <2>3. PICK j : Lengthens(j, g, w, m)
    BY Longer
  <2>4. ASSUME NEW e \in SUBSET (1 .. m + 1)
        PROVE  j[e] = IF e = {} THEN base
                      ELSE Op(j[e \ {Max(e)}], s[Max(e)])
    BY <2>3, <2>2 DEF Lengthens
  <2>5. Iter(j, 1 .. m + 1)
    BY <2>3, <2>4 DEF Lengthens
  <2> HIDE DEF Iter
  <2> QED
    BY <2>5
<1>5. Iter(f, 1 .. n)
  <2> HIDE DEF Iter
  <2>1. Nat \subseteq Some
    <3> HIDE DEF Some
    <3> QED
      BY <1>3, <1>4, SetInduction
  <2> QED
    BY <1>2, <2>1
<1> HIDE DEF f
<1> DEFINE w == [e \in SUBSET (1 .. n) |-> Op(f[e \ {Max(e)}], s[Max(e)])]
<1>6. f = [e \in SUBSET (1 .. n) |-> IF e = {} THEN base ELSE w[e]]
  BY <1>5
<1>7. ASSUME NEW e \in SUBSET (1 .. n)
      PROVE  w[e] = Op(f[e \ {Max(e)}], s[Max(e)])
  OBVIOUS
<1> HIDE DEF w
<1>8. (\E h : Passes(h, f, w, n)) /\ f[{}] = base
  BY <1>2, <1>6, InOrder
<1>9. PICK h : Passes(h, f, w, n)
  BY <1>8
<1>10. \A i \in 1 .. n : h[i] = Op(h[i - 1], s[i])
  BY <1>7, <1>9 DEF Passes
<1>11. h[0] = base /\ (base = last => h[n] = LastCommand(s, k))
  BY <1>1, <1>2, <1>8, <1>9 DEF Passes
<1> QED
  BY <1>10, <1>11 DEF Op, CommandRun

(* Chunk after chunk, into the transmit buffer of the host.                *)
SentOn(g, c) == IF g.raised THEN g ELSE Sent(g, c)

RouteRun(h, base, s, n) ==
  /\ h[0] = base
  /\ base.state = "Active" => h[n] = SentRoute(base, s)
  /\ \A i \in 1 .. n : h[i] = SentOn(h[i - 1], s[i])

LEMMA RouteRuns ==
  ASSUME NEW base, NEW s, IsSeq(s), NEW n, n = Len(s)
  PROVE  \E h : RouteRun(h, base, s, n)
<1> DEFINE Op(q, x) == SentOn(q, x)
           Iter(g, dom) ==
             g = [e \in SUBSET dom |->
                    IF e = {} THEN base ELSE Op(g[e \ {Max(e)}], s[Max(e)])]
           f == CHOOSE g : Iter(g, DOMAIN s)
<1>1. base.state = "Active" => SentRoute(base, s) = f[DOMAIN s]
  BY DEF SentOn, SentRoute, FoldLeft, MapThenFoldSet
<1>2. DOMAIN s = 1 .. n /\ n \in Nat
  BY SeqLength
<1> HIDE DEF Op
<1> DEFINE Some == {m \in Nat : \E g : Iter(g, 1 .. m)}
<1>3. 0 \in Some
  <2>1. 1 .. 0 = {}
    OBVIOUS
  <2> DEFINE g == [e \in SUBSET {} |-> base]
  <2>2. Iter(g, {})
    OBVIOUS
  <2> HIDE DEF Iter
  <2> QED
    BY <2>1, <2>2
<1>4. ASSUME NEW m \in Nat, m \in Some PROVE m + 1 \in Some
  <2>1. PICK g : Iter(g, 1 .. m)
    BY <1>4
  <2> DEFINE w == [e \in SUBSET (1 .. m) |-> Op(g[e], s[m + 1])]
  <2>2. ASSUME NEW e \in SUBSET (1 .. m)
        PROVE  /\ g[e] = IF e = {} THEN base
                         ELSE Op(g[e \ {Max(e)}], s[Max(e)])
               /\ w[e] = Op(g[e], s[m + 1])
    BY <2>1
  <2> HIDE DEF w
  <2>3. PICK j : Lengthens(j, g, w, m)
    BY Longer
  <2>4. ASSUME NEW e \in SUBSET (1 .. m + 1)
        PROVE  j[e] = IF e = {} THEN base
                      ELSE Op(j[e \ {Max(e)}], s[Max(e)])
    BY <2>3, <2>2 DEF Lengthens
  <2>5. Iter(j, 1 .. m + 1)
    BY <2>3, <2>4 DEF Lengthens
  <2> HIDE DEF Iter
  <2> QED
    BY <2>5
<1>5. Iter(f, 1 .. n)
  <2> HIDE DEF Iter
  <2>1. Nat \subseteq Some
    <3> HIDE DEF Some
    <3> QED
      BY <1>3, <1>4, SetInduction
  <2> QED
    BY <1>2, <2>1
<1> HIDE DEF f
<1> DEFINE w == [e \in SUBSET (1 .. n) |-> Op(f[e \ {Max(e)}], s[Max(e)])]
<1>6. f = [e \in SUBSET (1 .. n) |-> IF e = {} THEN base ELSE w[e]]
  BY <1>5
<1>7. ASSUME NEW e \in SUBSET (1 .. n)
      PROVE  w[e] = Op(f[e \ {Max(e)}], s[Max(e)])
  OBVIOUS
<1> HIDE DEF w
<1>8. (\E h : Passes(h, f, w, n)) /\ f[{}] = base
  BY <1>2, <1>6, InOrder
<1>9. PICK h : Passes(h, f, w, n)
  BY <1>8
<1>10. \A i \in 1 .. n : h[i] = Op(h[i - 1], s[i])
  BY <1>7, <1>9 DEF Passes
<1>11. h[0] = base /\ (base.state = "Active" => h[n] = SentRoute(base, s))
  BY <1>1, <1>2, <1>8, <1>9 DEF Passes
<1> QED
  BY <1>10, <1>11 DEF Op, RouteRun

(* Sensor after sensor.                                                    *)
SampleRun(h, faults, k, base, s, n) ==
  /\ h[0] = base
  /\ s = SensorOrder => h[n] = S!Sampled(base, faults, k)
  /\ \A i \in 1 .. n : h[i] = S!SampledOne(h[i - 1], faults, s[i], k)

LEMMA SamplesRun ==
  ASSUME NEW faults, NEW k, NEW base, NEW s, IsSeq(s), NEW n, n = Len(s)
  PROVE  \E h : SampleRun(h, faults, k, base, s, n)
<1> DEFINE Op(q, x) == S!SampledOne(q, faults, x, k)
           Iter(g, dom) ==
             g = [e \in SUBSET dom |->
                    IF e = {} THEN base ELSE Op(g[e \ {Max(e)}], s[Max(e)])]
           f == CHOOSE g : Iter(g, DOMAIN s)
<1>1. s = SensorOrder => S!Sampled(base, faults, k) = f[DOMAIN s]
  BY DEF S!Sampled, S!FoldLeft, S!MapThenFoldSet, S!Max, Max,
         FoldLeft, MapThenFoldSet
<1>2. DOMAIN s = 1 .. n /\ n \in Nat
  BY SeqLength
<1> HIDE DEF Op
<1> DEFINE Some == {m \in Nat : \E g : Iter(g, 1 .. m)}
<1>3. 0 \in Some
  <2>1. 1 .. 0 = {}
    OBVIOUS
  <2> DEFINE g == [e \in SUBSET {} |-> base]
  <2>2. Iter(g, {})
    OBVIOUS
  <2> HIDE DEF Iter
  <2> QED
    BY <2>1, <2>2
<1>4. ASSUME NEW m \in Nat, m \in Some PROVE m + 1 \in Some
  <2>1. PICK g : Iter(g, 1 .. m)
    BY <1>4
  <2> DEFINE w == [e \in SUBSET (1 .. m) |-> Op(g[e], s[m + 1])]
  <2>2. ASSUME NEW e \in SUBSET (1 .. m)
        PROVE  /\ g[e] = IF e = {} THEN base
                         ELSE Op(g[e \ {Max(e)}], s[Max(e)])
               /\ w[e] = Op(g[e], s[m + 1])
    BY <2>1
  <2> HIDE DEF w
  <2>3. PICK j : Lengthens(j, g, w, m)
    BY Longer
  <2>4. ASSUME NEW e \in SUBSET (1 .. m + 1)
        PROVE  j[e] = IF e = {} THEN base
                      ELSE Op(j[e \ {Max(e)}], s[Max(e)])
    BY <2>3, <2>2 DEF Lengthens
  <2>5. Iter(j, 1 .. m + 1)
    BY <2>3, <2>4 DEF Lengthens
  <2> HIDE DEF Iter
  <2> QED
    BY <2>5
<1>5. Iter(f, 1 .. n)
  <2> HIDE DEF Iter
  <2>1. Nat \subseteq Some
    <3> HIDE DEF Some
    <3> QED
      BY <1>3, <1>4, SetInduction
  <2> QED
    BY <1>2, <2>1
<1> HIDE DEF f
<1> DEFINE w == [e \in SUBSET (1 .. n) |-> Op(f[e \ {Max(e)}], s[Max(e)])]
<1>6. f = [e \in SUBSET (1 .. n) |-> IF e = {} THEN base ELSE w[e]]
  BY <1>5
<1>7. ASSUME NEW e \in SUBSET (1 .. n)
      PROVE  w[e] = Op(f[e \ {Max(e)}], s[Max(e)])
  OBVIOUS
<1> HIDE DEF w
<1>8. (\E h : Passes(h, f, w, n)) /\ f[{}] = base
  BY <1>2, <1>6, InOrder
<1>9. PICK h : Passes(h, f, w, n)
  BY <1>8
<1>10. \A i \in 1 .. n : h[i] = Op(h[i - 1], s[i])
  BY <1>7, <1>9 DEF Passes
<1>11. h[0] = base /\ (s = SensorOrder => h[n] = S!Sampled(base, faults, k))
  BY <1>1, <1>2, <1>8, <1>9 DEF Passes
<1> QED
  BY <1>10, <1>11 DEF Op, SampleRun

-----------------------------------------------------------------------------
(* One direction of the link.  What comes out was put in, or replayed, or  *)
(* is a frame that the receiver refuses.                                   *)
IsDirection(d) ==
  /\ d = [previous |-> d.previous, delayed |-> d.delayed]
  /\ IsSeq(d.delayed)

Held(d) == {e.frame : e \in Range(d.delayed)}
Before(d) == {d.previous} \ {L!NoFrame}
Passing(d, frames) == Before(d) \cup frames \cup {L!Corrupted}

CarriesOne(d, fault, frame, one) ==
  /\ IsDirection(one.dir) /\ one.dir.previous = frame
  /\ Held(one.dir) \subseteq Held(d) \cup Passing(d, {frame})
  /\ \/ one.out = <<>>
     \/ \E x \in Passing(d, {frame}) : one.out = <<x>>
  /\ fault = L!Healthy => one.out = <<frame>>
  /\ Len(one.dir.delayed) + Len(one.out) <= Len(d.delayed) + 1

(* The arithmetic of the two lemmas below, on numbers.                     *)
LEMMA AddsOne ==
  ASSUME NEW v \in Nat, NEW y, NEW z,
         \/ y = v /\ z \in {0, 1}
         \/ y = v + 1 /\ z = 0
  PROVE  y + z <= v + 1
<1>1. y \in Int /\ z \in Int
  OBVIOUS
<1> QED
  BY <1>1

LEMMA AddsMore ==
  ASSUME NEW v \in Nat, NEW w \in Nat, NEW x \in Nat, NEW y \in Nat,
         NEW z \in Nat, NEW i \in Nat, y + z <= w + 1, w + x <= v + i
  PROVE  y + (x + z) <= v + (i + 1)
  OBVIOUS

LEMMA FrameShapes ==
  ASSUME NEW d, IsDirection(d), NEW now, NEW fault, NEW frame,
         NEW one, one = L!FrameShaped(d, now, fault, frame)
  PROVE  CarriesOne(d, fault, frame, one)
<1> DEFINE x == IF fault.stale /\ d.previous # L!NoFrame
                  THEN d.previous ELSE frame
           y == IF fault.corrupt THEN L!Corrupted ELSE x
           kept == [d EXCEPT !.previous = frame]
           late == [due |-> now + fault.delay, frame |-> y]
           more == Append(d.delayed, late)
           held == [kept EXCEPT !.delayed = more]
<1>1. \/ one = [dir |-> kept, out |-> <<>>] /\ (fault.down \/ fault.loss)
      \/ /\ one = [dir |-> held, out |-> <<>>]
         /\ ~(fault.down \/ fault.loss) /\ fault.delay > 0
      \/ /\ one = [dir |-> kept, out |-> <<y>>]
  <2>1. kept.delayed = d.delayed
    BY DEF IsDirection
  <2> QED
    BY <2>1 DEF L!FrameShaped
<1>2. y \in Passing(d, {frame})
  BY DEF Passing, Before
<1>3. fault = L!Healthy => one = [dir |-> kept, out |-> <<frame>>]
  BY DEF L!FrameShaped, L!Healthy
<1>4. /\ IsDirection(kept) /\ kept.previous = frame
      /\ kept.delayed = d.delayed
  BY DEF IsDirection
<1> HIDE DEF y, kept
<1>5. late.frame = y
  OBVIOUS
<1> HIDE DEF late
<1>6. /\ IsSeq(more) /\ Range(more) = Range(d.delayed) \cup {late}
      /\ Len(more) = Len(d.delayed) + 1 /\ Len(d.delayed) \in Nat
  BY SeqAppend DEF IsDirection
<1> HIDE DEF more
<1>7. IsDirection(held) /\ held.previous = frame /\ held.delayed = more
  BY <1>4, <1>6 DEF IsDirection
<1> HIDE DEF held
<1>8. /\ Held(kept) = Held(d)
      /\ Held(held) \subseteq Held(d) \cup Passing(d, {frame})
  BY <1>2, <1>4, <1>5, <1>6, <1>7 DEF Held
<1>9. fault = L!Healthy => one.out = <<frame>>
  BY <1>3
<1>10. \/ one.dir = kept /\ one.out = <<>>
       \/ one.dir = held /\ one.out = <<>>
       \/ one.dir = kept /\ one.out = <<y>>
  BY <1>1
<1>11. CASE one.dir = kept /\ one.out = <<>>
  <2>1. Len(one.dir.delayed) = Len(d.delayed) /\ Len(one.out) = 0
    BY <1>4, <1>11, NoCells
  <2> QED
    BY <1>4, <1>6, <1>8, <1>9, <1>11, <2>1, AddsOne DEF CarriesOne
<1>12. CASE one.dir = held /\ one.out = <<>>
  <2>1. Len(one.dir.delayed) = Len(d.delayed) + 1 /\ Len(one.out) = 0
    BY <1>6, <1>7, <1>12, NoCells
  <2>2. Len(one.dir.delayed) + Len(one.out) <= Len(d.delayed) + 1
    BY <1>6, <2>1, AddsOne
  <2> QED
    BY <1>7, <1>8, <1>9, <1>12, <2>2 DEF CarriesOne
<1>13. CASE one.dir = kept /\ one.out = <<y>>
  <2>1. Len(one.dir.delayed) = Len(d.delayed) /\ Len(one.out) = 1
    BY <1>4, <1>13, OneCell
  <2> QED
    BY <1>2, <1>4, <1>6, <1>8, <1>9, <1>13, <2>1, AddsOne DEF CarriesOne
<1> QED
  BY <1>10, <1>11, <1>12, <1>13

(* The frames of a call, one after the other.                              *)
Carries(d, frames, acc) ==
  /\ IsDirection(acc.dir) /\ IsSeq(acc.out)
  /\ acc.dir.previous \in {d.previous} \cup frames
  /\ Held(acc.dir) \subseteq Held(d) \cup Passing(d, frames)
  /\ Range(acc.out) \subseteq Passing(d, frames)

(* No frame becomes two, and none is missing behind a healthy link.        *)
Burden(dir, out) == Len(dir.delayed) + Len(out)

Counts(d, fault, s, i, acc) ==
  /\ Burden(acc.dir, acc.out) <= Len(d.delayed) + i
  /\ fault = L!Healthy => \A j \in 1 .. i : s[j] \in Range(acc.out)

LEMMA ShapesOn ==
  ASSUME NEW d, NEW frames, NEW acc, Carries(d, frames, acc),
         NEW now, NEW fault, NEW frame \in frames
  PROVE  /\ Carries(d, frames, ShapedOn(acc, now, fault, frame))
         /\ \A s, i : i \in Nat /\ IsDirection(d)
                     /\ Counts(d, fault, s, i, acc) /\ frame = s[i + 1] =>
              Counts(d, fault, s, i + 1, ShapedOn(acc, now, fault, frame))
<1> DEFINE one == L!FrameShaped(acc.dir, now, fault, frame)
           out == acc.out \o one.out
           n == ShapedOn(acc, now, fault, frame)
<1>1. CarriesOne(acc.dir, fault, frame, one)
  BY FrameShapes DEF Carries
<1>2. n = [dir |-> one.dir, out |-> out]
  BY DEF ShapedOn
<1> HIDE DEF one
<1>3. Passing(acc.dir, {frame}) \subseteq Passing(d, frames)
  BY DEF Carries, Passing, Before
<1>4. IsSeq(one.out) /\ Range(one.out) \subseteq Passing(d, frames)
  <2>1. CASE one.out = <<>>
    BY <2>1, NoCells
  <2>2. ASSUME NEW x \in Passing(acc.dir, {frame}), one.out = <<x>>
        PROVE  IsSeq(one.out) /\ Range(one.out) \subseteq Passing(d, frames)
    BY <1>3, <2>2, OneCell
  <2> QED
    BY <1>1, <2>1, <2>2 DEF CarriesOne
<1>5. /\ IsSeq(out) /\ Len(out) = Len(acc.out) + Len(one.out)
      /\ Range(out) = Range(acc.out) \cup Range(one.out)
  BY <1>4, SeqConcat DEF Carries
<1> HIDE DEF out, n
<1>6. n.dir = one.dir /\ n.out = out
  BY <1>2
<1>7. ASSUME NEW s, NEW i \in Nat, IsDirection(d),
             Counts(d, fault, s, i, acc), frame = s[i + 1]
      PROVE  Counts(d, fault, s, i + 1, n)
  <2>1. /\ Len(acc.dir.delayed) \in Nat /\ Len(acc.out) \in Nat
        /\ Len(one.dir.delayed) \in Nat /\ Len(one.out) \in Nat
        /\ Len(d.delayed) \in Nat
    BY <1>1, <1>4, <1>7, SeqLength DEF Carries, CarriesOne, IsDirection
  <2>2. Burden(n.dir, n.out) <= Len(d.delayed) + (i + 1)
    <3>1. /\ Len(one.dir.delayed) + Len(one.out) <= Len(acc.dir.delayed) + 1
          /\ Len(acc.dir.delayed) + Len(acc.out) <= Len(d.delayed) + i
      BY <1>1, <1>7 DEF Counts, Burden, CarriesOne
    <3>2. Burden(n.dir, n.out)
            = Len(one.dir.delayed) + (Len(acc.out) + Len(one.out))
      BY <1>5, <1>6 DEF Burden
    <3>3. Len(one.dir.delayed) + (Len(acc.out) + Len(one.out))
            <= Len(d.delayed) + (i + 1)
      BY <1>7, <2>1, <3>1, AddsMore
    <3> QED
      BY <3>2, <3>3
  <2>3. ASSUME fault = L!Healthy, NEW j \in 1 .. i + 1
        PROVE  s[j] \in Range(n.out)
    <3>1. CASE j = i + 1
      <4>1. one.out = <<frame>>
        BY <1>1, <2>3 DEF CarriesOne
      <4>2. Range(one.out) = {frame}
        BY <4>1, OneCell
      <4> QED
        BY <1>5, <1>6, <1>7, <3>1, <4>2
    <3>2. CASE j # i + 1
      <4>1. j \in 1 .. i
        BY <3>2
      <4> QED
        BY <1>5, <1>6, <1>7, <2>3, <4>1 DEF Counts
    <3> QED
      BY <3>1, <3>2
  <2> QED
    BY <2>2, <2>3 DEF Counts
<1>8. Carries(d, frames, n)
  BY <1>1, <1>3, <1>4, <1>5, <1>6 DEF Carries, CarriesOne
<1> QED
  BY <1>7, <1>8 DEF n

LEMMA Shapes ==
  ASSUME NEW d, IsDirection(d), NEW now, NEW fault, NEW s, IsSeq(s),
         NEW shaped, shaped = L!Shaped(d, now, fault, s)
  PROVE  Carries(d, Range(s), shaped) /\ Counts(d, fault, s, Len(s), shaped)
<1> DEFINE base == [dir |-> d, out |-> <<>>]
           n == Len(s)
           frames == Range(s)
<1>1. base = [dir |-> d, out |-> <<>>]
  OBVIOUS
<1> HIDE DEF base
<1>2. PICK h : ShapedRun(h, d, now, fault, base, s, n)
  BY ShapedRuns
<1>3. Carries(d, frames, base) /\ Counts(d, fault, s, 0, base)
  <2>1. base.dir = d /\ base.out = <<>>
    BY <1>1
  <2>2. IsSeq(base.out) /\ Range(base.out) = {} /\ Len(base.out) = 0
    BY <2>1, NoCells
  <2>3. Len(d.delayed) \in Nat
    BY SeqLength DEF IsDirection
  <2>4. Burden(base.dir, base.out) <= Len(d.delayed) + 0
    BY <2>1, <2>2, <2>3 DEF Burden
  <2> QED
    BY <2>1, <2>2, <2>4 DEF Carries, Counts
<1>4. n \in Nat /\ \A i \in 1 .. n : s[i] \in frames
  BY SeqLength
<1> HIDE DEF frames, n
<1> DEFINE Done == {i \in Nat : i <= n => /\ Carries(d, frames, h[i])
                                         /\ Counts(d, fault, s, i, h[i])}
<1>5. 0 \in Done
  BY <1>2, <1>3 DEF ShapedRun
<1>6. ASSUME NEW i \in Nat, i \in Done PROVE i + 1 \in Done
  <2> SUFFICES ASSUME i + 1 <= n
               PROVE  /\ Carries(d, frames, h[i + 1])
                      /\ Counts(d, fault, s, i + 1, h[i + 1])
    OBVIOUS
  <2>1. i <= n /\ i + 1 \in 1 .. n /\ (i + 1) - 1 = i
    BY <1>4
  <2>2. Carries(d, frames, h[i]) /\ Counts(d, fault, s, i, h[i])
    BY <1>6, <2>1
  <2>3. h[i + 1] = ShapedOn(h[i], now, fault, s[i + 1])
    BY <1>2, <2>1 DEF ShapedRun
  <2> QED
    BY <1>4, <2>1, <2>2, <2>3, ShapesOn
<1>7. Nat \subseteq Done
  <2> HIDE DEF Done
  <2> QED
    BY <1>5, <1>6, SetInduction
<1>8. Carries(d, frames, h[n]) /\ Counts(d, fault, s, n, h[n])
  <2>1. n <= n
    BY <1>4
  <2> QED
    BY <1>4, <1>7, <2>1
<1> QED
  BY <1>1, <1>2, <1>8 DEF frames, n, ShapedRun

(* No frame, and a single one.                                             *)
LEMMA ShapesNone ==
  ASSUME NEW d, NEW now, NEW fault, NEW s, s = <<>>
  PROVE  L!Shaped(d, now, fault, s) = [dir |-> d, out |-> <<>>]
<1> DEFINE base == [dir |-> d, out |-> <<>>]
<1>1. base = [dir |-> d, out |-> <<>>]
  OBVIOUS
<1> HIDE DEF base
<1>2. IsSeq(s) /\ Len(s) = 0
  BY NoCells
<1>3. PICK h : ShapedRun(h, d, now, fault, base, s, 0)
  BY <1>2, ShapedRuns
<1> QED
  BY <1>1, <1>3 DEF ShapedRun

PassesOne(d, fault, frame, out) ==
  /\ \/ out = <<>>
     \/ \E x \in Passing(d, {frame}) : out = <<x>>
  /\ fault = L!Healthy => out = <<frame>>

LEMMA ShapesOne ==
  ASSUME NEW d, IsDirection(d), NEW now, NEW fault, NEW frame,
         NEW s, s = <<frame>>,
         NEW shaped, shaped = L!Shaped(d, now, fault, s)
  PROVE  /\ shaped.dir.previous = frame
         /\ PassesOne(d, fault, frame, shaped.out)
<1> DEFINE base == [dir |-> d, out |-> <<>>]
           one == L!FrameShaped(d, now, fault, frame)
<1>1. base = [dir |-> d, out |-> <<>>]
  OBVIOUS
<1> HIDE DEF base
<1>2. IsSeq(s) /\ Len(s) = 1 /\ s[1] = frame
  BY OneCell
<1>3. PICK h : ShapedRun(h, d, now, fault, base, s, 1)
  BY <1>2, ShapedRuns
<1>4. /\ shaped = ShapedOn(base, now, fault, frame)
  <2>1. 1 \in 1 .. 1 /\ 1 - 1 = 0
    OBVIOUS
  <2> QED
    BY <1>1, <1>2, <1>3, <2>1 DEF ShapedRun
<1>5. base.dir = d /\ base.out = <<>>
  BY <1>1
<1>6. shaped = [dir |-> one.dir, out |-> <<>> \o one.out]
  BY <1>4, <1>5 DEF ShapedOn
<1>7. CarriesOne(d, fault, frame, one)
  BY FrameShapes
<1> HIDE DEF one
<1>8. IsSeq(one.out)
  BY <1>7, NoCells, OneCell DEF CarriesOne
<1>9. <<>> \o one.out = one.out
  BY <1>8, ConcatEmptySeq DEF IsSeq
<1>10. shaped.dir = one.dir /\ shaped.out = one.out
  BY <1>6, <1>9
<1> QED
  BY <1>7, <1>10 DEF CarriesOne, PassesOne

(* What was delayed leaves, from the head of the queue.                    *)
LEMMA Releases ==
  ASSUME NEW d, IsDirection(d), NEW now, NEW fault,
         NEW r, r = L!Released(d, now, fault)
  PROVE  /\ IsDirection(r.dir) /\ r.dir.previous = d.previous
         /\ Held(r.dir) \subseteq Held(d)
         /\ IsSeq(r.out) /\ Range(r.out) \subseteq Held(d)
         /\ d.delayed = <<>> => r.out = <<>> /\ r.dir.delayed = <<>>
         /\ Burden(r.dir, r.out) <= Len(d.delayed)
<1> DEFINE q == d.delayed
           n == Len(q)
           due == L!Due(d, now)
           top == IF due = {} THEN 0
                  ELSE CHOOSE i \in due : \A j \in due : j <= i
           rest == SubSeq(q, top + 1, n)
           left == [i \in 1 .. top |-> q[i].frame]
           dir == [d EXCEPT !.delayed = rest]
           out == IF fault.down THEN <<>> ELSE left
<1>1. IsSeq(q) /\ n \in Nat /\ DOMAIN q = 1 .. n
      /\ Range(q) = {q[i] : i \in 1 .. n}
  BY SeqLength DEF IsDirection
<1>2. r = [dir |-> dir, out |-> out]
  <2>1. dir = [d EXCEPT !.delayed = SubSeq(@, top + 1, Len(@))]
    BY DEF IsDirection
  <2> QED
    BY <2>1 DEF L!Released
<1>3. due \in SUBSET (1 .. n)
  BY <1>1 DEF L!Due
<1> HIDE DEF due, q, n
<1>4. top \in 0 .. n
  <2>1. CASE due = {}
    BY <1>1, <2>1
  <2>2. CASE due # {}
    <3>1. \E m \in due : \A y \in due : y <= m
      BY <1>1, <1>3, <2>2, Greatest
    <3>2. top \in due
      BY <2>2, <3>1
    <3> HIDE DEF top
    <3>3. top \in 1 .. n
      BY <1>3, <3>2
    <3> QED
      BY <1>1, <3>3
  <2> QED
    BY <2>1, <2>2
<1> HIDE DEF top
<1>5. /\ rest \in Seq(Range(q)) /\ Len(rest) = n - top
      /\ n = 0 => rest = <<>>
  <2>1. \A i \in top + 1 .. n : q[i] \in Range(q)
    BY <1>1, <1>4
  <2>2. top + 1 \in Int /\ n \in Int
    BY <1>1, <1>4
  <2>3. n = 0 => n < top + 1
    BY <1>4
  <2> QED
    BY <1>4, <2>1, <2>2, <2>3, SubSeqProperties, SubSeqEmpty
<1>6. left \in Seq(Held(d)) /\ (n = 0 => left = <<>>) /\ Len(left) = top
  <2>1. \A i \in 1 .. top : q[i].frame \in Held(d)
    BY <1>1, <1>4 DEF Held, q
  <2>2. top \in Nat
    BY <1>1, <1>4
  <2> HIDE DEF left
  <2>3. left = [i \in 1 .. top |-> q[i].frame]
    BY DEF left
  <2>4. \A i \in 1 .. top : left[i] \in Held(d)
    BY <2>1, <2>3
  <2>5. left = [i \in 1 .. top |-> left[i]]
    BY <2>3
  <2>6. left \in Seq(Held(d))
    BY <2>2, <2>4, <2>5, IsASeq
  <2>7. Len(left) = top /\ (n = 0 => Len(left) = 0)
    BY <1>4, <2>2, <2>3
  <2> QED
    BY <2>6, <2>7, EmptySeq
<1>7. /\ IsSeq(out) /\ Range(out) \subseteq Held(d) /\ Len(out) \in {0, top}
      /\ n = 0 => out = <<>>
  BY <1>6, NoCells, SeqOver
<1> HIDE DEF out, left
<1>8. IsSeq(rest) /\ Range(rest) \subseteq Range(q)
  BY <1>5, SeqOver
<1> HIDE DEF rest
<1>9. /\ IsDirection(dir) /\ dir.previous = d.previous
      /\ dir.delayed = rest
  BY <1>8 DEF IsDirection
<1> HIDE DEF dir
<1>10. Held(dir) \subseteq Held(d)
  BY <1>8, <1>9 DEF Held, q
<1>11. r.dir = dir /\ r.out = out
  BY <1>2
<1>12. d.delayed = <<>> => n = 0
  BY NoCells DEF q, n
<1>13. Len(rest) + Len(out) <= n
  BY <1>1, <1>4, <1>5, <1>7
<1>14. Burden(r.dir, r.out) <= Len(d.delayed)
  BY <1>9, <1>11, <1>13 DEF Burden, q, n
<1> QED
  BY <1>5, <1>7, <1>9, <1>10, <1>11, <1>12, <1>14

-----------------------------------------------------------------------------
(* The session of the host.  What counts here is what it hands to the      *)
(* link, and that a poll hands on only what it was given.                  *)
IsHost(h) ==
  h = [state |-> h.state, tracker |-> h.tracker, txSeq |-> h.txSeq,
       tx |-> h.tx, silence |-> h.silence, negotiated |-> h.negotiated,
       raised |-> h.raised]

LEMMA HostChanges ==
  ASSUME NEW h, IsHost(h), NEW v, NEW n,
         \/ n = [h EXCEPT !.raised = v] \/ n = [h EXCEPT !.state = v]
         \/ n = [h EXCEPT !.tracker = v] \/ n = [h EXCEPT !.silence = v]
         \/ n = [h EXCEPT !.negotiated = v]
  PROVE  IsHost(n) /\ n.tx = h.tx
<1>1. CASE n = [h EXCEPT !.raised = v]
  BY <1>1 DEF IsHost
<1>2. CASE n = [h EXCEPT !.state = v]
  BY <1>2 DEF IsHost
<1>3. CASE n = [h EXCEPT !.tracker = v]
  BY <1>3 DEF IsHost
<1>4. CASE n = [h EXCEPT !.silence = v]
  BY <1>4 DEF IsHost
<1>5. CASE n = [h EXCEPT !.negotiated = v]
  BY <1>5 DEF IsHost
<1> QED
  BY <1>1, <1>2, <1>3, <1>4, <1>5

(* A frame of a type, for a step.                                          *)
Is(f, type, k) == f.type = type /\ f.step = k /\ f.ok
Message(m, type, k) == {"type", "step", "ok"} \subseteq DOMAIN m
                         /\ Is(m, type, k)

LEMMA Stamps ==
  ASSUME NEW m, NEW type, NEW k, Message(m, type, k), NEW x,
         NEW f, f = Stamped(m, x)
  PROVE  Is(f, type, k)
<1>1. \A y \in DOMAIN m : f[y] = m[y]
  BY DEF Stamped
<1>2. "type" \in DOMAIN m /\ "step" \in DOMAIN m /\ "ok" \in DOMAIN m
  BY DEF Message
<1>3. f.type = m.type /\ f.step = m.step /\ f.ok = m.ok
  BY <1>1, <1>2
<1> QED
  BY <1>3 DEF Message, Is

(* One message more to send, if it fits.                                   *)
HostSent(h, type, k, n) ==
  /\ IsHost(n) /\ n.state = h.state /\ n.tracker = h.tracker
  /\ IsSeq(n.tx)
  /\ \A f \in Range(n.tx) : f \in Range(h.tx) \/ Is(f, type, k)
  /\ h.tx = <<>> => \E f : n.tx = <<f>> /\ Is(f, type, k)
  /\ Len(n.tx) <= Len(h.tx) + 1
  /\ Len(h.tx) < TxBuffer => n.raised = h.raised

LEMMA HostSends ==
  ASSUME NEW h, IsHost(h), IsSeq(h.tx),
         NEW m, NEW type, NEW k, Message(m, type, k),
         NEW n, n = Sent(h, m)
  PROVE  HostSent(h, type, k, n)
<1> DEFINE f == Stamped(m, [seq |-> h.txSeq])
           tx == Append(h.tx, f)
           more == [h EXCEPT !.tx = tx, !.txSeq = (h.txSeq + 1) % SeqSize]
<1>1. \/ n = more
      \/ n = [h EXCEPT !.raised = TRUE] /\ ~(Len(h.tx) < TxBuffer)
  BY DEF Sent, Raise, IsHost
<1>2. Is(f, type, k)
  BY Stamps
<1> HIDE DEF f
<1>3. /\ IsSeq(tx) /\ Range(tx) = Range(h.tx) \cup {f}
      /\ Len(tx) = Len(h.tx) + 1 /\ Len(h.tx) \in Nat
  BY SeqAppend, SeqLength
<1>4. h.tx = <<>> => tx = <<f>> /\ Len(h.tx) < TxBuffer
  BY HostSessionAssumption
<1>10. Len(h.tx) <= Len(h.tx) + 1 /\ Len(tx) <= Len(h.tx) + 1
  BY <1>3
<1> HIDE DEF tx
<1>5. more = [h EXCEPT !.tx = tx, !.txSeq = (h.txSeq + 1) % SeqSize]
  OBVIOUS
<1> HIDE DEF more
<1>6. IsHost(more) /\ more.state = h.state /\ more.tx = tx
      /\ more.tracker = h.tracker /\ more.raised = h.raised
  BY <1>5 DEF IsHost
<1>7. ASSUME n = [h EXCEPT !.raised = TRUE]
      PROVE  /\ IsHost(n) /\ n.state = h.state /\ n.tx = h.tx
             /\ n.tracker = h.tracker
  BY <1>7 DEF IsHost
<1>8. CASE n = more
  BY <1>2, <1>3, <1>4, <1>6, <1>8, <1>10 DEF HostSent
<1>9. CASE n = [h EXCEPT !.raised = TRUE] /\ ~(Len(h.tx) < TxBuffer)
  BY <1>4, <1>7, <1>9, <1>10 DEF HostSent
<1> QED
  BY <1>1, <1>8, <1>9

(* A message or none, of a session that had nothing to send.               *)
Single(n, type, k) ==
  /\ IsHost(n)
  /\ n.tx = <<>> \/ \E f : n.tx = <<f>> /\ Is(f, type, k)

LEMMA Raises ==
  ASSUME NEW h, IsHost(h)
  PROVE  /\ IsHost(Raise(h)) /\ Raise(h).tx = h.tx
         /\ Raise(h).tracker = h.tracker
<1> DEFINE n == Raise(h)
<1>1. n = [h EXCEPT !.raised = TRUE]
  BY DEF Raise
<1> HIDE DEF n
<1>2. n.tracker = h.tracker
  BY <1>1 DEF IsHost
<1> QED
  BY <1>1, <1>2, HostChanges DEF n

LEMMA Messages ==
  ASSUME NEW k
  PROVE  /\ Message(Hello, "Hello", 0)
         /\ Message(ManualStop(k), "SafeStop", k)
         /\ \A i : Message(RouteChunk(k, i), "Route", k)
         /\ \A s : Message(SensorFrame(k, s), "Sensor", k)
BY DEF Message, Is, Hello, ManualStop, RouteChunk, SensorFrame

LEMMA HostStarts ==
  ASSUME NEW h, IsHost(h), h.tx = <<>>, NEW n, n = Started(h, Hello)
  PROVE  /\ Single(n, "Hello", 0)
         /\ h.state # "Closed" =>
              /\ n.tx # <<>> /\ n.tracker = Unseen
              /\ n.state = "HelloSent" /\ n.raised = FALSE
<1> DEFINE d == Disconnected
           m == Sent(d, Hello)
<1>1. /\ IsHost(d) /\ d.tx = <<>> /\ IsSeq(d.tx) /\ d.tracker = Unseen
      /\ d.raised = FALSE /\ Len(d.tx) < TxBuffer
  BY NoCells, HostSessionAssumption DEF Disconnected, IsHost
<1> HIDE DEF d
<1>2. HostSent(d, "Hello", 0, m)
  BY <1>1, Messages, HostSends
<1>3. \/ h.state = "Closed" /\ n = Raise(h)
      \/ h.state # "Closed" /\ n = [m EXCEPT !.state = "HelloSent"]
  BY DEF Started, d
<1> HIDE DEF m
<1>4. CASE h.state = "Closed" /\ n = Raise(h)
  BY <1>4, Raises DEF Single
<1>5. CASE h.state # "Closed" /\ n = [m EXCEPT !.state = "HelloSent"]
  <2>1. /\ IsHost(m) /\ m.tracker = Unseen /\ m.raised = FALSE
        /\ \E f : m.tx = <<f>> /\ Is(f, "Hello", 0)
    BY <1>1, <1>2 DEF HostSent
  <2>2. /\ IsHost(n) /\ n.tx = m.tx /\ n.tracker = m.tracker
        /\ n.state = "HelloSent" /\ n.raised = m.raised
    BY <1>5, <2>1 DEF IsHost
  <2>3. \A f : <<f>> # <<>>
    OBVIOUS
  <2> QED
    BY <2>1, <2>2, <2>3 DEF Single
<1> QED
  BY <1>3, <1>4, <1>5

LEMMA HostSendsSensor ==
  ASSUME NEW h, IsHost(h), h.tx = <<>>, NEW k, NEW samples,
         NEW n, n = SentActive(h, SensorFrame(k, samples))
  PROVE  /\ Single(n, "Sensor", k) /\ n.tracker = h.tracker
         /\ h.state = "Active" =>
              n.state = "Active" /\ n.raised = h.raised
<1> DEFINE m == Sent(h, SensorFrame(k, samples))
<1>1. IsSeq(h.tx) /\ Len(h.tx) < TxBuffer
  BY NoCells, HostSessionAssumption
<1>2. HostSent(h, "Sensor", k, m)
  BY <1>1, Messages, HostSends
<1>3. IF h.state = "Active" THEN n = m ELSE n = Raise(h)
  BY DEF SentActive
<1> HIDE DEF m
<1> QED
  BY <1>1, <1>2, <1>3, Raises DEF HostSent, Single

LEMMA HostStops ==
  ASSUME NEW h, IsHost(h), h.tx = <<>>, NEW k,
         NEW n, n = StopRequested(h, ManualStop(k))
  PROVE  /\ Single(n, "SafeStop", k) /\ n.tracker = h.tracker
         /\ h.state \notin {"Closed", "Error"} /\ h.raised = FALSE =>
              n.state = "SafeStop" /\ n.raised = FALSE
<1> DEFINE m == Sent(h, ManualStop(k))
           s == [m EXCEPT !.state = "SafeStop"]
<1>1. IsSeq(h.tx) /\ Len(h.tx) < TxBuffer
  BY NoCells, HostSessionAssumption
<1>2. HostSent(h, "SafeStop", k, m)
  BY <1>1, Messages, HostSends
<1>3. IF h.state \in {"Closed", "Error"} THEN n = Raise(h)
      ELSE n = IF m.raised THEN m ELSE s
  BY DEF StopRequested
<1> HIDE DEF m
<1>4. /\ IsHost(m) /\ m.raised = h.raised /\ m.tracker = h.tracker
      /\ Single(m, "SafeStop", k)
  BY <1>1, <1>2 DEF HostSent, Single
<1>5. /\ IsHost(s) /\ s.tx = m.tx /\ s.tracker = m.tracker
      /\ s.state = "SafeStop" /\ s.raised = m.raised
  BY <1>4 DEF IsHost
<1> HIDE DEF s
<1>6. CASE h.state \in {"Closed", "Error"}
  BY <1>3, <1>6, Raises DEF Single
<1>7. CASE h.state \notin {"Closed", "Error"}
  <2>1. CASE m.raised
    BY <1>3, <1>4, <1>7, <2>1
  <2>2. CASE ~m.raised
    BY <1>3, <1>4, <1>5, <1>7, <2>2 DEF Single
  <2> QED
    BY <2>1, <2>2
<1> QED
  BY <1>6, <1>7

(* The chunks of a route, as far as they fit.                              *)
Chunks(h, n, k) ==
  /\ IsHost(n) /\ n.tracker = h.tracker
  /\ IsSeq(n.tx) /\ \A f \in Range(n.tx) : Is(f, "Route", k)

LEMMA RouteGoesOn ==
  ASSUME NEW h, NEW g, NEW k, Chunks(h, g, k),
         NEW c, Message(c, "Route", k)
  PROVE  Chunks(h, SentOn(g, c), k)
<1>1. HostSent(g, "Route", k, Sent(g, c))
  BY HostSends DEF Chunks
<1>2. SentOn(g, c) = g \/ SentOn(g, c) = Sent(g, c)
  BY DEF SentOn
<1> QED
  BY <1>1, <1>2 DEF HostSent, Chunks

(* As many frames as chunks at most, and no failure while they fit.        *)
Filled(h, g, i) ==
  /\ Len(g.tx) <= i /\ g.state = h.state
  /\ i <= TxBuffer => g.raised = h.raised

LEMMA RouteFills ==
  ASSUME NEW h, NEW g, NEW k, Chunks(h, g, k), NEW i \in Nat,
         Filled(h, g, i), NEW c, Message(c, "Route", k),
         NEW n, n = SentOn(g, c)
  PROVE  Filled(h, n, i + 1)
<1>1. HostSent(g, "Route", k, Sent(g, c)) /\ Len(g.tx) \in Nat
  BY HostSends, SeqLength DEF Chunks
<1>2. TxBuffer \in Nat /\ Len(g.tx) <= i
  BY HostSessionAssumption DEF Filled
<1>3. i + 1 <= TxBuffer => i <= TxBuffer /\ Len(g.tx) < TxBuffer
  BY <1>1, <1>2
<1>4. CASE n = g
  BY <1>1, <1>2, <1>3, <1>4 DEF Filled
<1>5. CASE n = Sent(g, c)
  <2>1. Len(n.tx) <= Len(g.tx) + 1 /\ IsSeq(n.tx)
    BY <1>1, <1>5 DEF HostSent
  <2>2. Len(n.tx) <= i + 1
    BY <1>1, <1>2, <2>1, SeqLength
  <2> QED
    BY <1>1, <1>3, <1>5, <2>2 DEF HostSent, Filled
<1> QED
  BY <1>4, <1>5 DEF SentOn

LEMMA HostSendsRoute ==
  ASSUME NEW h, IsHost(h), h.tx = <<>>, h.state = "Active", NEW k,
         NEW n, n = SentRoute(h, Route(k))
  PROVE  Chunks(h, n, k) /\ Filled(h, n, RouteChunks)
<1> DEFINE s == Route(k)
           m == RouteChunks
<1>1. m \in Nat
  BY ClosedLoopAssumption
<1>2. s = [i \in 1 .. m |-> RouteChunk(k, i)]
  BY DEF Route
<1> HIDE DEF s, m
<1>3. IsSeq(s) /\ Len(s) = m /\ \A i \in 1 .. m : s[i] = RouteChunk(k, i)
  <2>1. s \in Seq({RouteChunk(k, i) : i \in 1 .. m}) /\ Len(s) = m
    BY <1>1, <1>2
  <2> QED
    BY <1>2, <2>1, SeqOver
<1>4. PICK r : RouteRun(r, h, s, m)
  BY <1>3, RouteRuns
<1> DEFINE Done ==
             {i \in Nat : i <= m => Chunks(h, r[i], k) /\ Filled(h, r[i], i)}
<1>5. 0 \in Done
  <2>1. r[0] = h /\ Len(h.tx) = 0 /\ IsSeq(h.tx) /\ Range(h.tx) = {}
    BY <1>4, NoCells DEF RouteRun
  <2>2. Chunks(h, r[0], k)
    BY <2>1 DEF Chunks
  <2>3. Filled(h, r[0], 0)
    BY <2>1 DEF Filled
  <2> QED
    BY <2>2, <2>3
<1>6. ASSUME NEW i \in Nat, i \in Done PROVE i + 1 \in Done
  <2> SUFFICES ASSUME i + 1 <= m
               PROVE  Chunks(h, r[i + 1], k) /\ Filled(h, r[i + 1], i + 1)
    OBVIOUS
  <2>1. i <= m /\ i + 1 \in 1 .. m /\ (i + 1) - 1 = i
    BY <1>1
  <2>2. r[i + 1] = SentOn(r[i], s[i + 1])
    BY <1>4, <2>1 DEF RouteRun
  <2>3. /\ Chunks(h, r[i], k) /\ Filled(h, r[i], i)
        /\ Message(s[i + 1], "Route", k)
    BY <1>3, <1>6, <2>1, Messages
  <2> QED
    BY <2>2, <2>3, RouteGoesOn, RouteFills
<1>7. Nat \subseteq Done
  <2> HIDE DEF Done
  <2> QED
    BY <1>5, <1>6, SetInduction
<1>8. Chunks(h, r[m], k) /\ Filled(h, r[m], m)
  <2>1. m <= m
    BY <1>1
  <2> QED
    BY <1>1, <1>7, <2>1
<1> QED
  BY <1>4, <1>8 DEF RouteRun, s, m

-----------------------------------------------------------------------------
(* What the controller sends is numbered, and dated up to step k; so is    *)
(* what the tracker remembers of it.                                       *)
Dated(p, k) == p.type # "Corrupt" => p.seq # None /\ p.step \in 0 .. k

Remembers(t, k) ==
  /\ t.step \in {None} \cup 0 .. k
  /\ t.sequence = None => t.step = None

(* A poll.  The session does not go back to an older step as long as the   *)
(* steps do not reach half of their range.                                 *)
LEMMA AcceptsInStep ==
  ASSUME NEW k \in Nat, NEW t, Remembers(t, k),
         NEW p, Dated(p, k), p.type # "Corrupt"
  PROVE  /\ Remembers(Remembering(t, p), k)
         /\ Accepts(t, p) /\ 2 * k < SeqSize =>
              /\ Remembering(t, p).step >= t.step
              /\ StepBound(p) => p.step >= t.step
<1> DEFINE u == Remembering(t, p)
<1>1. /\ u.sequence = p.seq
      /\ u.step = IF StepBound(p) THEN p.step ELSE t.step
  BY DEF Remembering
<1> HIDE DEF u
<1>2. p.seq # None /\ p.step \in 0 .. k
  BY DEF Dated
<1>3. Remembers(u, k)
  BY <1>1, <1>2 DEF Remembers
<1>4. ASSUME Accepts(t, p), 2 * k < SeqSize, StepBound(p), t.step # None
      PROVE  p.step >= t.step
  <2>1. ~Past(p.step, t.step) /\ t.step \in 0 .. k
    BY <1>4 DEF Accepts, Remembers
  <2>2. SUFFICES ASSUME p.step < t.step PROVE FALSE
    BY <1>2, <2>1
  <2> DEFINE d == p.step - t.step
  <2>3. d \in Int /\ -SeqSize < d /\ d < 0 /\ 2 * (d + SeqSize) >= SeqSize
    BY <1>2, <1>4, <2>1, <2>2, HostSessionAssumption
  <2>4. d % SeqSize = d + SeqSize
    <3> HIDE DEF d
    <3> QED
      BY <2>3, OnceRound, HostSessionAssumption
  <2> QED
    BY <2>1, <2>2, <2>3, <2>4 DEF Past
<1>5. ASSUME t.step = None PROVE p.step >= t.step
  BY <1>2, <1>5 DEF None
<1>6. t.step \in Int /\ t.step >= t.step
  BY DEF Remembers, None
<1> QED
  BY <1>1, <1>3, <1>4, <1>5, <1>6 DEF u

LEMMA HostReads ==
  ASSUME NEW h, IsHost(h), NEW p
  PROVE  /\ IsHost(PacketRead(h, p)) /\ PacketRead(h, p).tx = h.tx
         /\ PacketRead(h, p).tracker =
              IF LetThrough(h, p) THEN Remembering(h.tracker, p)
                                  ELSE h.tracker
<1> DEFINE n == PacketRead(h, p)
           t == Remembering(h.tracker, p)
           seen == [h EXCEPT !.tracker = t]
           heard == [seen EXCEPT !.silence = 0]
           e == [seen EXCEPT !.state = "Error"]
           f == [heard EXCEPT !.state = "Error"]
           o == [heard EXCEPT !.negotiated = TRUE]
           a == [o EXCEPT !.state = "Active"]
<1>1. seen = [h EXCEPT !.tracker = Remembering(@, p)]
  BY DEF IsHost
<1>2. IF LetThrough(h, p) THEN n \in {seen, e, Handled(heard, p)} ELSE n = h
  BY <1>1 DEF PacketRead
<1>3. Handled(heard, p) \in {heard, a, f}
  BY DEF Handled
<1>4. IsHost(seen) /\ seen.tx = h.tx /\ seen.tracker = t
  BY HostChanges DEF IsHost
<1> HIDE DEF seen, t
<1>5. IsHost(heard) /\ heard.tx = h.tx /\ heard.tracker = t
  BY <1>4, HostChanges DEF IsHost
<1> HIDE DEF heard
<1>6. /\ IsHost(e) /\ e.tx = h.tx /\ e.tracker = t
      /\ IsHost(f) /\ f.tx = h.tx /\ f.tracker = t
      /\ IsHost(o) /\ o.tx = h.tx /\ o.tracker = t
  <2>1. e.tracker = t /\ f.tracker = t /\ o.tracker = t
    BY <1>4, <1>5 DEF IsHost
  <2> QED
    BY <1>4, <1>5, <2>1, HostChanges
<1> HIDE DEF e, f, o
<1>7. IsHost(a) /\ a.tx = h.tx /\ a.tracker = t
  BY <1>6, HostChanges DEF IsHost
<1> HIDE DEF n, a
<1> QED
  BY <1>2, <1>3, <1>4, <1>5, <1>6, <1>7 DEF n, t

(* From session h to g: what was read, in packets, and handed on.          *)
InStep(h, k, g, events) ==
  /\ Remembers(g.tracker, k)
  /\ 2 * k < SeqSize =>
       /\ g.tracker.step >= h.tracker.step
       /\ \A p \in Range(events) : StepBound(p) => p.step >= h.tracker.step

Read(h, packets, k, acc) ==
  /\ IsHost(acc.host) /\ acc.host.tx = h.tx
  /\ IsSeq(acc.events) /\ Range(acc.events) \subseteq packets
  /\ InStep(h, k, acc.host, acc.events)
  /\ acc = [host |-> acc.host, events |-> acc.events]

LEMMA InStepOn ==
  ASSUME NEW k \in Nat, NEW h, Remembers(h.tracker, k),
         NEW g, NEW events, InStep(h, k, g, events),
         NEW n, NEW more, InStep(g, k, n, more),
         NEW all, Range(all) \subseteq Range(events) \cup Range(more),
         \A p \in Range(more) : Dated(p, k)
  PROVE  InStep(h, k, n, all)
<1>1. Remembers(g.tracker, k) /\ Remembers(n.tracker, k)
  BY DEF InStep
<1>2. h.tracker.step \in Int /\ g.tracker.step \in Int
      /\ n.tracker.step \in Int
  BY <1>1 DEF Remembers, None
<1>3. ASSUME 2 * k < SeqSize, NEW p \in Range(all), StepBound(p)
      PROVE  p.step >= h.tracker.step
  <2>1. CASE p \in Range(events)
    BY <1>3, <2>1 DEF InStep
  <2>2. CASE p \in Range(more)
    <3>1. p.step \in 0 .. k
      BY <1>3, <2>2 DEF Dated, StepBound
    <3> QED
      BY <1>2, <1>3, <2>2, <3>1 DEF InStep
  <2> QED
    BY <2>1, <2>2
<1> QED
  BY <1>1, <1>2, <1>3 DEF InStep

LEMMA ReadsOn ==
  ASSUME NEW k \in Nat, NEW h, Remembers(h.tracker, k), NEW packets,
         NEW acc, Read(h, packets, k, acc), NEW p \in packets, Dated(p, k)
  PROVE  Read(h, packets, k, ReadOn(acc, p))
<1> DEFINE g == PacketRead(acc.host, p)
           through == LetThrough(acc.host, p) /\ p.decodes
           more == IF through THEN Append(acc.events, p) ELSE acc.events
           new == IF through THEN <<p>> ELSE <<>>
           n == ReadOn(acc, p)
<1>1. n = [host |-> g, events |-> more]
  BY DEF ReadOn
<1>2. /\ IsHost(g) /\ g.tx = h.tx
      /\ g.tracker = IF LetThrough(acc.host, p)
                       THEN Remembering(acc.host.tracker, p)
                       ELSE acc.host.tracker
  BY HostReads DEF Read
<1>3. IsSeq(more) /\ Range(more) \subseteq packets
  BY SeqAppend DEF Read
<1>4. /\ Range(more) \subseteq Range(acc.events) \cup Range(new)
      /\ Range(new) = IF through THEN {p} ELSE {}
  <2>1. CASE through
    <3>1. Range(more) = Range(acc.events) \cup {p}
      BY <2>1, SeqAppend DEF Read
    <3>2. Range(new) = {p}
      BY <2>1, OneCell
    <3> QED
      BY <2>1, <3>1, <3>2
  <2>2. CASE ~through
    <3>1. more = acc.events /\ Range(new) = {}
      BY <2>2, NoCells
    <3> QED
      BY <2>2, <3>1
  <2> QED
    BY <2>1, <2>2
<1> HIDE DEF g, more, new, n
<1>5. n.host = g /\ n.events = more
  BY <1>1
<1>6. Remembers(acc.host.tracker, k)
  BY DEF Read, InStep
<1>7. acc.host.tracker.step >= acc.host.tracker.step
  BY <1>6 DEF Remembers, None
<1>8. InStep(acc.host, k, g, new)
  <2>1. CASE ~LetThrough(acc.host, p)
    BY <1>2, <1>4, <1>6, <1>7, <2>1 DEF InStep
  <2>2. CASE LetThrough(acc.host, p)
    <3>1. p.type # "Corrupt" /\ Accepts(acc.host.tracker, p)
      BY <2>2 DEF LetThrough
    <3>2. /\ Remembers(g.tracker, k)
          /\ 2 * k < SeqSize =>
               /\ g.tracker.step >= acc.host.tracker.step
               /\ StepBound(p) => p.step >= acc.host.tracker.step
      BY <1>2, <1>6, <2>2, <3>1, AcceptsInStep
    <3> QED
      BY <1>4, <3>2 DEF InStep
  <2> QED
    BY <2>1, <2>2
<1>9. InStep(h, k, g, more)
  <2>1. InStep(h, k, acc.host, acc.events)
    BY DEF Read
  <2>2. \A x \in Range(new) : Dated(x, k)
    BY <1>4
  <2> QED
    BY <1>4, <1>8, <2>1, <2>2, InStepOn
<1> QED
  BY <1>1, <1>2, <1>3, <1>5, <1>9 DEF Read, n

LEMMA HostReadsAll ==
  ASSUME NEW k \in Nat, NEW h, IsHost(h), Remembers(h.tracker, k),
         NEW s, IsSeq(s), \A p \in Range(s) : Dated(p, k)
  PROVE  Read(h, Range(s), k, PacketsRead(h, s))
<1> DEFINE base == [host |-> h, events |-> <<>>]
           packets == Range(s)
           n == Len(s)
<1>1. base = [host |-> h, events |-> <<>>]
  OBVIOUS
<1>2. n \in Nat /\ \A i \in 1 .. n : s[i] \in packets /\ Dated(s[i], k)
  BY SeqLength
<1>3. base.host = h /\ base.events = <<>>
  OBVIOUS
<1> HIDE DEF base, packets, n
<1>4. PICK r : PacketRun(r, h, base, s, n)
  BY PacketsRun DEF n
<1>5. Read(h, packets, k, base)
  <2>1. h.tracker.step >= h.tracker.step
    BY DEF Remembers, None
  <2> QED
    BY <1>1, <1>3, <2>1, NoCells DEF Read, InStep
<1> DEFINE Done == {i \in Nat : i <= n => Read(h, packets, k, r[i])}
<1>6. 0 \in Done
  BY <1>4, <1>5 DEF PacketRun
<1>7. ASSUME NEW i \in Nat, i \in Done PROVE i + 1 \in Done
  <2> SUFFICES ASSUME i + 1 <= n PROVE Read(h, packets, k, r[i + 1])
    OBVIOUS
  <2>1. i <= n /\ i + 1 \in 1 .. n /\ (i + 1) - 1 = i
    BY <1>2
  <2>2. r[i + 1] = ReadOn(r[i], s[i + 1])
    BY <1>4, <2>1 DEF PacketRun
  <2>3. Read(h, packets, k, r[i]) /\ s[i + 1] \in packets
        /\ Dated(s[i + 1], k)
    BY <1>2, <1>7, <2>1
  <2> QED
    BY <2>2, <2>3, ReadsOn
<1>8. Nat \subseteq Done
  <2> HIDE DEF Done
  <2> QED
    BY <1>6, <1>7, SetInduction
<1>9. n <= n
  BY <1>2
<1> QED
  BY <1>1, <1>2, <1>4, <1>8, <1>9 DEF PacketRun, packets

LEMMA HostPolls ==
  ASSUME NEW k \in Nat, NEW h, IsHost(h), Remembers(h.tracker, k),
         NEW s, IsSeq(s), \A p \in Range(s) : Dated(p, k),
         NEW polled, polled = Polled(h, s)
  PROVE  Read(h, Range(s), k, polled)
<1> DEFINE r == PacketsRead(h, s)
           t == TimedOut(r.host)
           n == [r EXCEPT !.host = t]
           none == [host |-> h, events |-> <<>>]
<1>1. Read(h, Range(s), k, r)
  BY HostReadsAll
<1>2. polled = none \/ polled = [r EXCEPT !.host = TimedOut(@)]
  BY DEF Polled
<1> HIDE DEF r
<1>3. polled = none \/ polled = n
  BY <1>1, <1>2 DEF Read
<1>4. t = r.host \/ t = [r.host EXCEPT !.state = "TimedOut"]
  BY DEF TimedOut
<1>5. IsHost(t) /\ t.tx = h.tx /\ t.tracker = r.host.tracker
  BY <1>1, <1>4 DEF Read, IsHost
<1> HIDE DEF t
<1>6. n.host = t /\ n.events = r.events
      /\ n = [host |-> n.host, events |-> n.events]
  BY <1>1 DEF Read
<1> HIDE DEF n
<1>7. Read(h, Range(s), k, n)
  BY <1>1, <1>5, <1>6 DEF Read, InStep
<1>8. Read(h, Range(s), k, none)
  <2>1. h.tracker.step >= h.tracker.step
    BY DEF Remembers, None
  <2> QED
    BY <2>1, NoCells DEF Read, InStep
<1> QED
  BY <1>3, <1>7, <1>8

-----------------------------------------------------------------------------
(* The link with its two ends.  Flight is all that is under way to the     *)
(* host, what the link may still replay included.                          *)
IsRun(r) ==
  /\ r = [host |-> r.host, tx |-> r.tx, rx |-> r.rx, ctl |-> r.ctl,
          fault |-> r.fault, now |-> r.now, answered |-> r.answered,
          ready |-> r.ready]
  /\ IsHost(r.host) /\ IsDirection(r.tx) /\ IsDirection(r.rx)
  /\ IsController(r.ctl) /\ IsSeq(r.answered) /\ IsSeq(r.ready)

Flight(r) ==
  Range(r.answered) \cup Range(r.ready) \cup Before(r.rx) \cup Held(r.rx)

LEMMA AnswersRun ==
  ASSUME NEW r, IsRun(r), NEW call, IsController(call.ctl), IsSeq(call.out),
         NEW n, n = Answered(r, call)
  PROVE  /\ IsRun(n) /\ n.ctl = call.ctl
         /\ n.host = r.host /\ n.tx = r.tx /\ n.rx = r.rx
         /\ n.fault = r.fault /\ n.now = r.now /\ n.ready = r.ready
         /\ Flight(n) \subseteq Flight(r) \cup Range(call.out)
         /\ Range(call.out) \subseteq Range(n.answered)
<1> DEFINE q == r.answered \o call.out
<1>1. n = [r EXCEPT !.ctl = call.ctl, !.answered = q]
  BY DEF Answered, IsRun
<1>2. IsSeq(q) /\ Range(q) = Range(r.answered) \cup Range(call.out)
  BY SeqConcat DEF IsRun
<1> HIDE DEF q
<1>3. /\ n.ctl = call.ctl /\ n.answered = q
      /\ n.host = r.host /\ n.tx = r.tx /\ n.rx = r.rx
      /\ n.fault = r.fault /\ n.now = r.now /\ n.ready = r.ready
  BY <1>1 DEF IsRun
<1>4. n = [host |-> n.host, tx |-> n.tx, rx |-> n.rx, ctl |-> n.ctl,
           fault |-> n.fault, now |-> n.now, answered |-> n.answered,
           ready |-> n.ready]
  BY <1>1, <1>3 DEF IsRun
<1>5. IsRun(n)
  BY <1>2, <1>3, <1>4 DEF IsRun
<1> QED
  BY <1>2, <1>3, <1>5 DEF Flight

LEMMA RunOfHost ==
  ASSUME NEW r, IsRun(r), NEW h, IsHost(h), NEW n, n = [r EXCEPT !.host = h]
  PROVE  /\ IsRun(n) /\ n.host = h /\ n.ctl = r.ctl
         /\ n.tx = r.tx /\ n.rx = r.rx
         /\ n.fault = r.fault /\ n.now = r.now
         /\ Flight(n) = Flight(r)
<1>1. /\ n.host = h /\ n.ctl = r.ctl /\ n.tx = r.tx /\ n.rx = r.rx
      /\ n.fault = r.fault /\ n.now = r.now
      /\ n.answered = r.answered /\ n.ready = r.ready
  BY DEF IsRun
<1>2. n = [host |-> n.host, tx |-> n.tx, rx |-> n.rx, ctl |-> n.ctl,
           fault |-> n.fault, now |-> n.now, answered |-> n.answered,
           ready |-> n.ready]
  BY <1>1 DEF IsRun
<1> QED
  BY <1>1, <1>2 DEF IsRun, Flight

(* Taken, before the frames are delivered.                                 *)
Emptying(r, dir) == [r EXCEPT !.tx = dir, !.host.tx = <<>>]

LEMMA Empties ==
  ASSUME NEW r, IsRun(r), NEW dir, IsDirection(dir),
         NEW n, n = Emptying(r, dir)
  PROVE  /\ IsRun(n) /\ n.host.tx = <<>> /\ n.tx = dir /\ n.ctl = r.ctl
         /\ n.rx = r.rx /\ n.fault = r.fault /\ n.now = r.now
         /\ Flight(n) = Flight(r)
         /\ n.host.state = r.host.state
         /\ n.host.tracker = r.host.tracker
         /\ n.host.raised = r.host.raised /\ n.answered = r.answered
<1> DEFINE h == [r.host EXCEPT !.tx = <<>>]
<1>1. n = [r EXCEPT !.tx = dir, !.host = h]
  BY DEF Emptying, IsRun
<1>2. /\ IsHost(h) /\ h.tx = <<>> /\ h.state = r.host.state
      /\ h.tracker = r.host.tracker /\ h.raised = r.host.raised
  <2>1. h = [r.host EXCEPT !.tx = <<>>]
    OBVIOUS
  <2> HIDE DEF h
  <2> QED
    BY <2>1 DEF IsRun, IsHost
<1> HIDE DEF h
<1>3. /\ n.host = h /\ n.ctl = r.ctl /\ n.tx = dir /\ n.rx = r.rx
      /\ n.fault = r.fault /\ n.now = r.now
      /\ n.answered = r.answered /\ n.ready = r.ready
  BY <1>1 DEF IsRun
<1>4. n = [host |-> n.host, tx |-> n.tx, rx |-> n.rx, ctl |-> n.ctl,
           fault |-> n.fault, now |-> n.now, answered |-> n.answered,
           ready |-> n.ready]
  BY <1>1, <1>3 DEF IsRun
<1> QED
  BY <1>2, <1>3, <1>4 DEF IsRun, Flight

LEMMA FlushedIs ==
  ASSUME NEW r, NEW shaped,
         shaped = L!Shaped(r.tx, r.now, r.fault, r.host.tx)
  PROVE  Flushed(r) = Delivered(Emptying(r, shaped.dir), shaped.out)
BY DEF Flushed, Taken, Emptying

LEMMA FlushesNothing ==
  ASSUME NEW r, IsRun(r), r.host.tx = <<>>
  PROVE  Flushed(r) = r
<1> DEFINE shaped == [dir |-> r.tx, out |-> <<>>]
           s == <<>>
           n == Emptying(r, r.tx)
<1>1. shaped = L!Shaped(r.tx, r.now, r.fault, r.host.tx)
  BY ShapesNone
<1>2. Flushed(r) = Delivered(n, s)
  BY <1>1, FlushedIs
<1>3. n = r
  <2>1. r.host = [r.host EXCEPT !.tx = <<>>]
    BY DEF IsRun, IsHost
  <2>2. r = [r EXCEPT !.tx = r.tx, !.host = r.host]
    BY DEF IsRun
  <2> QED
    BY <2>1, <2>2 DEF Emptying, IsRun
<1> HIDE DEF n
<1>4. IsSeq(s) /\ Len(s) = 0
  BY NoCells
<1> HIDE DEF s
<1>5. PICK h : DeliveredRun(h, n, s, 0)
  BY <1>4, DeliveredRuns
<1> QED
  BY <1>2, <1>3, <1>5 DEF DeliveredRun

LEMMA DeliversOne ==
  ASSUME NEW r, NEW f, NEW s, s = <<f>>
  PROVE  Delivered(r, s) = Answered(r, K!FeedCall(r.ctl, f))
<1>1. IsSeq(s) /\ Len(s) = 1 /\ s[1] = f
  BY OneCell
<1>2. PICK h : DeliveredRun(h, r, s, 1)
  BY <1>1, DeliveredRuns
<1>3. 1 \in 1 .. 1 /\ 1 - 1 = 0
  OBVIOUS
<1> QED
  BY <1>1, <1>2, <1>3 DEF DeliveredRun

LEMMA DeliversNone ==
  ASSUME NEW r, NEW s, s = <<>>
  PROVE  Delivered(r, s) = r
<1>1. IsSeq(s) /\ Len(s) = 0
  BY NoCells
<1>2. PICK h : DeliveredRun(h, r, s, 0)
  BY <1>1, DeliveredRuns
<1> QED
  BY <1>2 DEF DeliveredRun

(* What a poll of the session hears.                                       *)
HeardBy(r, k, n) ==
  /\ InStep(r.host, k, n.run.host, n.events)
  /\ IsRun(n.run) /\ n.run.ctl = r.ctl /\ n.run.tx = r.tx
  /\ n.run.fault = r.fault /\ n.run.now = r.now
  /\ n.run.host.tx = r.host.tx
  /\ Flight(n.run) \subseteq Flight(r) \cup {L!Corrupted}
  /\ IsSeq(n.events)
  /\ Range(n.events) \subseteq Flight(r) \cup {L!Corrupted}

LEMMA Arrives ==
  ASSUME NEW r, IsRun(r), NEW n, n = Arrived(r)
  PROVE  /\ IsRun(n) /\ n.ctl = r.ctl /\ n.tx = r.tx /\ n.host = r.host
         /\ n.fault = r.fault /\ n.now = r.now
         /\ Flight(n) \subseteq Flight(r) \cup {L!Corrupted}
         /\ r.fault = L!Healthy => Range(r.answered) \subseteq Range(n.ready)
<1> DEFINE shaped == L!Shaped(r.rx, r.now, r.fault, r.answered)
           q == r.ready \o shaped.out
           all == Flight(r) \cup {L!Corrupted}
<1>1. n = [r EXCEPT !.rx = shaped.dir, !.ready = q]
  BY DEF Arrived, Carried, IsRun
<1>2. /\ Carries(r.rx, Range(r.answered), shaped)
      /\ Counts(r.rx, r.fault, r.answered, Len(r.answered), shaped)
  BY Shapes DEF IsRun
<1> HIDE DEF shaped
<1>3. Passing(r.rx, Range(r.answered)) \subseteq all
  BY DEF Passing, Before, Flight
<1>4. /\ IsSeq(q)
      /\ Range(q) = Range(r.ready) \cup Range(shaped.out)
  BY <1>2, SeqConcat DEF Carries, IsRun
<1> HIDE DEF q
<1>5. /\ n.rx = shaped.dir /\ n.ready = q /\ n.ctl = r.ctl /\ n.tx = r.tx
      /\ n.host = r.host /\ n.fault = r.fault /\ n.now = r.now
      /\ n.answered = r.answered
  BY <1>1 DEF IsRun
<1>6. n = [host |-> n.host, tx |-> n.tx, rx |-> n.rx, ctl |-> n.ctl,
           fault |-> n.fault, now |-> n.now, answered |-> n.answered,
           ready |-> n.ready]
  BY <1>1, <1>5 DEF IsRun
<1>7. IsRun(n)
  BY <1>2, <1>4, <1>5, <1>6 DEF IsRun, Carries
<1>8. Range(q) \subseteq all
  BY <1>2, <1>3, <1>4 DEF Carries, Flight
<1>9. Held(n.rx) \cup Before(n.rx) \subseteq all
  BY <1>2, <1>3, <1>5 DEF Carries, Flight, Before
<1>10. r.fault = L!Healthy => Range(r.answered) \subseteq Range(n.ready)
  <2>1. /\ DOMAIN r.answered = 1 .. Len(r.answered)
        /\ Range(r.answered) = {r.answered[i] : i \in DOMAIN r.answered}
    BY SeqLength DEF IsRun, Range
  <2> QED
    BY <1>2, <1>4, <1>5, <2>1 DEF Counts
<1>11. Flight(n) \subseteq Flight(r) \cup {L!Corrupted}
  BY <1>5, <1>8, <1>9 DEF Flight
<1> QED
  BY <1>5, <1>7, <1>10, <1>11

(* What a poll leaves of the run.                                          *)
LEMMA HearsRun ==
  ASSUME NEW r, IsRun(r), NEW polled, IsHost(polled.host),
         NEW n, n = Heard(r, polled)
  PROVE  /\ IsRun(n.run) /\ n.run.host = polled.host /\ n.run.ctl = r.ctl
         /\ n.run.tx = r.tx /\ n.run.fault = r.fault /\ n.run.now = r.now
         /\ Flight(n.run) \subseteq Flight(r)
         /\ n.events = polled.events
<1> DEFINE m == [r EXCEPT !.host = polled.host, !.answered = <<>>,
                          !.ready = <<>>]
<1>1. n = [run |-> m, events |-> polled.events]
  BY DEF Heard
<1>2. m = [r EXCEPT !.host = polled.host, !.answered = <<>>, !.ready = <<>>]
  OBVIOUS
<1> HIDE DEF m
<1>3. /\ m.rx = r.rx /\ m.ctl = r.ctl /\ m.tx = r.tx
      /\ m.host = polled.host /\ m.fault = r.fault /\ m.now = r.now
      /\ m.answered = <<>> /\ m.ready = <<>>
  BY <1>2 DEF IsRun
<1>4. m = [host |-> m.host, tx |-> m.tx, rx |-> m.rx, ctl |-> m.ctl,
           fault |-> m.fault, now |-> m.now, answered |-> m.answered,
           ready |-> m.ready]
  BY <1>2, <1>3 DEF IsRun
<1>5. /\ IsSeq(m.answered) /\ Range(m.answered) = {}
      /\ IsSeq(m.ready) /\ Range(m.ready) = {}
  BY <1>3, NoCells
<1>6. IsRun(m)
  BY <1>3, <1>4, <1>5 DEF IsRun
<1>7. Flight(m) \subseteq Flight(r)
  BY <1>3, <1>5 DEF Flight
<1>8. n.run = m /\ n.events = polled.events
  BY <1>1
<1> QED
  BY <1>3, <1>6, <1>7, <1>8

LEMMA Receives ==
  ASSUME NEW k \in Nat, NEW r, IsRun(r), Remembers(r.host.tracker, k),
         \A p \in Flight(r) : Dated(p, k), NEW n, n = Received(r)
  PROVE  HeardBy(r, k, n)
<1> DEFINE polled == Polled(r.host, r.ready)
<1>1. n = Heard(r, polled)
  BY DEF Received
<1>2. Read(r.host, Range(r.ready), k, polled)
  BY HostPolls DEF IsRun, Flight
<1> HIDE DEF polled
<1>3. /\ IsRun(n.run) /\ n.run.host = polled.host /\ n.run.ctl = r.ctl
      /\ n.run.tx = r.tx /\ n.run.fault = r.fault /\ n.run.now = r.now
      /\ Flight(n.run) \subseteq Flight(r)
      /\ n.events = polled.events
  BY <1>1, <1>2, HearsRun DEF Read
<1> QED
  BY <1>2, <1>3 DEF HeardBy, Read, Flight

LEMMA Polls ==
  ASSUME NEW k \in Nat, NEW r, IsRun(r), r.host.tx = <<>>,
         Remembers(r.host.tracker, k), \A p \in Flight(r) : Dated(p, k),
         NEW n, n = HostPoll(r)
  PROVE  HeardBy(r, k, n)
<1> DEFINE a == Arrived(r)
<1>1. n = Received(a)
  BY FlushesNothing DEF HostPoll
<1>2. /\ IsRun(a) /\ a.ctl = r.ctl /\ a.tx = r.tx /\ a.host = r.host
      /\ a.fault = r.fault /\ a.now = r.now
      /\ Flight(a) \subseteq Flight(r) \cup {L!Corrupted}
  BY Arrives
<1> HIDE DEF a
<1>3. HeardBy(a, k, n)
  <2>1. Dated(L!Corrupted, k)
    BY DEF Dated, L!Corrupted
  <2> QED
    BY <1>1, <1>2, <2>1, Receives
<1> QED
  BY <1>2, <1>3 DEF HeardBy

-----------------------------------------------------------------------------
(* The first part of an iteration: what is sent carries an older step than *)
(* that of the iteration, k, or cannot make the controller drive.  a is    *)
(* how long the controller had stopped when the iteration began.           *)
Known(f, k) == f.type = "Corrupt" \/ (FromHost(f) /\ f.step \in 0 .. k)

(* A sensor frame gets the controller to step.                             *)
Prior(f, k) == Known(f, k) /\ (f.type = "Sensor" => f.step < k)

Lagging(c, k) ==
  /\ IsController(c) /\ c.lastStep \in 0 .. k
  /\ Range(c.queued) \subseteq 0 .. k - 1
  /\ c.fw.initialized => Idle(c.fw) \/ c.lastStep < k

Fits(c, f, k) ==
  /\ Known(f, k)
  /\ \/ f.type = "Corrupt"
     \/ f.step < k
     \/ f.type # "Sensor" /\ (k = 0 \/ f.type = "SafeStop" \/ Idle(c.fw))

Bygone(p, k, a) == Dated(p, k) /\ (Drive(p) => p.step + a < k)

StoppedSince(c, a) == a > 0 => Halted(c.fw)

Early(r, k, a) ==
  /\ IsRun(r) /\ Lagging(r.ctl, k) /\ StoppedSince(r.ctl, a)
  /\ Remembers(r.host.tracker, k)
  /\ \A f \in Held(r.tx) : Prior(f, k)
  /\ \A f \in Before(r.tx) : Fits(r.ctl, f, k)
  /\ \A p \in Flight(r) : Bygone(p, k, a)

FedEarly(c, f, k, call) ==
  /\ Lagging(call.ctl, k) /\ IsSeq(call.out)
  /\ Idle(c.fw) \/ f.type = "Hello" => Idle(call.ctl.fw)
  /\ Halted(c.fw) => Halted(call.ctl.fw)
  /\ \A o \in Range(call.out) :
       Dated(o, k) /\ (Drive(o) => o.step < k /\ ~Halted(c.fw))

LEMMA FeedsEarly ==
  ASSUME NEW k \in Nat, NEW c, Lagging(c, k), NEW f, Fits(c, f, k),
         NEW call, call = K!FeedCall(c, f)
  PROVE  FedEarly(c, f, k, call)
<1>1. IsController(c) /\ Own(f)
  BY DEF Lagging, Fits, Known, Own
<1>2. CallMade(c, f, call)
  BY <1>1, Feeds
<1> DEFINE d == call.ctl
<1>3. d.lastStep \in 0 .. k
  BY <1>2 DEF CallMade, Lagging, Fits, Known
<1>4. Joining(f) \subseteq 0 .. k - 1
  <2>1. CASE f.type = "Sensor"
    <3>1. f.step \in 0 .. k /\ f.step < k
      BY <2>1 DEF Fits, Known, FromHost
    <3> QED
      BY <2>1, <3>1 DEF Joining
  <2>2. CASE f.type # "Sensor"
    BY <2>2 DEF Joining
  <2> QED
    BY <2>1, <2>2
<1>5. Range(c.queued) \subseteq 0 .. k - 1
  BY DEF Lagging
<1>6. /\ c.lastStep \in 0 .. k
      /\ c.fw.initialized => Idle(c.fw) \/ c.lastStep < k
  BY DEF Lagging
<1>7. f.type # "Corrupt" => f.step \in 0 .. k
  BY DEF Fits, Known
<1>8. c.fw.initialized => Idle(d.fw) \/ d.lastStep < k
  <2> SUFFICES ASSUME c.fw.initialized, ~Idle(d.fw) PROVE d.lastStep < k
    OBVIOUS
  <2>1. ~Idle(c.fw) /\ c.lastStep < k
    BY <1>2, <1>6 DEF CallMade
  <2>2. CASE d.lastStep = c.lastStep
    BY <2>1, <2>2
  <2>3. CASE d.lastStep # c.lastStep
    <3>1. f.type # "Corrupt" /\ d.lastStep = f.step /\ f.type # "SafeStop"
      BY <1>2, <2>3 DEF CallMade
    <3>2. k # 0
      BY <1>6, <2>1
    <3>3. f.step < k
      BY <2>1, <3>1, <3>2 DEF Fits
    <3> QED
      BY <3>1, <3>3
  <2> QED
    BY <2>2, <2>3
<1>9. d.fw.initialized => Idle(d.fw) \/ d.lastStep < k
  BY <1>2, <1>8 DEF CallMade
<1>10. Lagging(d, k)
  BY <1>2, <1>3, <1>4, <1>5, <1>9 DEF CallMade, Lagging
<1>11. ASSUME NEW o \in Range(call.out), Drive(o)
       PROVE  o.step \in Nat /\ o.step < k /\ ~Halted(c.fw)
  <2>1. /\ ~Halted(d.fw) /\ Idle(d.fw) /\ ~Idle(c.fw)
        /\ \/ o.step \in Range(c.queued) \cup Joining(f)
           \/ /\ c.fw.initialized /\ o.step = d.lastStep
              /\ f.type = "SafeStop" => o.step = c.lastStep
    BY <1>2, <1>11 DEF CallMade
  <2>2. ~Halted(c.fw)
    BY <1>2, <2>1 DEF CallMade
  <2>3. CASE o.step \in Range(c.queued) \cup Joining(f)
    BY <1>4, <1>5, <2>2, <2>3
  <2>4. CASE /\ c.fw.initialized /\ o.step = d.lastStep
             /\ f.type = "SafeStop" => o.step = c.lastStep
    <3>1. c.lastStep < k /\ k # 0
      BY <1>6, <2>1, <2>4
    <3>2. CASE o.step = c.lastStep
      BY <1>6, <2>2, <3>1, <3>2
    <3>3. CASE o.step # c.lastStep
      <4>1. f.type # "SafeStop" /\ f.type # "Corrupt" /\ o.step = f.step
        BY <1>2, <2>4, <3>3 DEF CallMade
      <4>2. f.step < k
        BY <2>1, <3>1, <4>1 DEF Fits
      <4> QED
        BY <1>7, <2>2, <4>1, <4>2
    <3> QED
      BY <3>2, <3>3
  <2> QED
    BY <2>1, <2>3, <2>4
<1>12. ASSUME NEW o \in Range(call.out) PROVE Dated(o, k)
  <2>1. /\ o.step \in Range(c.queued) \cup Joining(f) \cup {d.lastStep}
        /\ o.seq # None
    BY <1>2 DEF CallMade
  <2>2. 0 .. k - 1 \subseteq 0 .. k
    OBVIOUS
  <2>3. o.step \in 0 .. k
    BY <1>3, <1>4, <1>5, <2>1, <2>2
  <2> QED
    BY <2>1, <2>3 DEF Dated
<1> QED
  BY <1>2, <1>10, <1>11, <1>12 DEF CallMade, FedEarly

(* Frame after frame.                                                      *)
GoneOn(r, n, k, a) ==
  /\ Early(n, k, a)
  /\ n.host = r.host /\ n.tx = r.tx /\ n.fault = r.fault /\ n.now = r.now
  /\ Idle(r.ctl.fw) => Idle(n.ctl.fw)

LEMMA FitsOn ==
  ASSUME NEW c, NEW d, Idle(c.fw) => Idle(d.fw), NEW k, NEW f, Fits(c, f, k)
  PROVE  Fits(d, f, k)
BY DEF Fits

LEMMA DeliversOneEarly ==
  ASSUME NEW k \in Nat, NEW a \in Nat, NEW r, Early(r, k, a),
         NEW f, Fits(r.ctl, f, k),
         NEW n, n = Answered(r, K!FeedCall(r.ctl, f))
  PROVE  /\ GoneOn(r, n, k, a)
         /\ f.type = "Hello" => Idle(n.ctl.fw)
<1> DEFINE call == K!FeedCall(r.ctl, f)
<1>1. n = Answered(r, call) /\ IsRun(r) /\ Lagging(r.ctl, k)
  BY DEF Early
<1>2. FedEarly(r.ctl, f, k, call)
  BY <1>1, FeedsEarly
<1> HIDE DEF call
<1>3. /\ IsRun(n) /\ n.ctl = call.ctl
      /\ n.host = r.host /\ n.tx = r.tx /\ n.rx = r.rx
      /\ n.fault = r.fault /\ n.now = r.now /\ n.ready = r.ready
      /\ Flight(n) \subseteq Flight(r) \cup Range(call.out)
  BY <1>1, <1>2, AnswersRun DEF FedEarly, Lagging
<1>4. Lagging(n.ctl, k) /\ StoppedSince(n.ctl, a)
  BY <1>2, <1>3 DEF FedEarly, StoppedSince, Early
<1>5. \A p \in Flight(n) : Bygone(p, k, a)
  <2> SUFFICES ASSUME NEW p \in Flight(n) PROVE Bygone(p, k, a)
    OBVIOUS
  <2>1. CASE p \in Flight(r)
    BY <2>1 DEF Early
  <2>2. CASE p \in Range(call.out)
    <3>1. Dated(p, k)
      BY <1>2, <2>2 DEF FedEarly
    <3> SUFFICES ASSUME Drive(p) PROVE p.step + a < k
      BY <3>1 DEF Bygone
    <3>2. p.step \in 0 .. k
      BY <3>1 DEF Dated, Drive
    <3>3. p.step < k /\ ~Halted(r.ctl.fw)
      BY <1>2, <2>2 DEF FedEarly
    <3>4. a = 0
      BY <3>3 DEF Early, StoppedSince
    <3> QED
      BY <3>2, <3>3, <3>4
  <2> QED
    BY <1>3, <2>1, <2>2
<1>6. /\ Idle(r.ctl.fw) => Idle(n.ctl.fw)
      /\ f.type = "Hello" => Idle(n.ctl.fw)
  BY <1>2, <1>3 DEF FedEarly
<1>7. \A x \in Before(n.tx) : Fits(n.ctl, x, k)
  BY <1>3, <1>6, FitsOn DEF Early
<1> QED
  BY <1>3, <1>4, <1>5, <1>6, <1>7 DEF GoneOn, Early

LEMMA DeliversEarly ==
  ASSUME NEW k \in Nat, NEW a \in Nat, NEW r, Early(r, k, a),
         NEW s, IsSeq(s), \A f \in Range(s) : Fits(r.ctl, f, k)
  PROVE  GoneOn(r, Delivered(r, s), k, a)
<1> DEFINE n == Len(s)
<1>1. PICK h : DeliveredRun(h, r, s, n)
  BY DeliveredRuns
<1>2. GoneOn(r, r, k, a)
  BY DEF GoneOn
<1>3. n \in Nat /\ \A i \in 1 .. n : s[i] \in Range(s)
  BY SeqLength
<1> HIDE DEF n
<1> DEFINE Done == {i \in Nat : i <= n => GoneOn(r, h[i], k, a)}
<1>4. 0 \in Done
  BY <1>1, <1>2 DEF DeliveredRun
<1>5. ASSUME NEW i \in Nat, i \in Done PROVE i + 1 \in Done
  <2> SUFFICES ASSUME i + 1 <= n PROVE GoneOn(r, h[i + 1], k, a)
    OBVIOUS
  <2>1. i <= n /\ i + 1 \in 1 .. n /\ (i + 1) - 1 = i
    BY <1>3
  <2>2. GoneOn(r, h[i], k, a)
    BY <1>5, <2>1
  <2>3. h[i + 1] = Answered(h[i], K!FeedCall(h[i].ctl, s[i + 1]))
    BY <1>1, <2>1 DEF DeliveredRun
  <2>4. Fits(h[i].ctl, s[i + 1], k)
    BY <1>3, <2>1, <2>2, FitsOn DEF GoneOn
  <2>5. GoneOn(h[i], h[i + 1], k, a)
    <3>1. Early(h[i], k, a)
      BY <2>2 DEF GoneOn
    <3> QED
      BY <2>3, <2>4, <3>1, DeliversOneEarly
  <2> QED
    BY <2>2, <2>5 DEF GoneOn
<1>6. Nat \subseteq Done
  <2> HIDE DEF Done
  <2> QED
    BY <1>4, <1>5, SetInduction
<1>7. GoneOn(r, h[n], k, a)
  <2>1. n <= n
    BY <1>3
  <2> QED
    BY <1>3, <1>6, <2>1
<1> QED
  BY <1>1, <1>7 DEF DeliveredRun

-----------------------------------------------------------------------------
(* What the host sends, and what the link had delayed.                     *)
LEMMA CorruptedFits ==
  ASSUME NEW c, NEW k
  PROVE  Fits(c, L!Corrupted, k) /\ Known(L!Corrupted, k)
BY DEF Fits, Known, L!Corrupted

LEMMA CorruptedIsBygone ==
  ASSUME NEW k, NEW a
  PROVE  Bygone(L!Corrupted, k, a)
BY DEF Bygone, Dated, Drive, L!Corrupted

LEMMA HostEarly ==
  ASSUME NEW k \in Nat, NEW a \in Nat, NEW r, Early(r, k, a),
         NEW h, IsHost(h), Remembers(h.tracker, k),
         NEW n, n = [r EXCEPT !.host = h]
  PROVE  /\ Early(n, k, a) /\ n.host = h /\ n.tx = r.tx /\ n.ctl = r.ctl
         /\ n.fault = r.fault
<1>1. IsRun(r)
  BY DEF Early
<1>2. /\ IsRun(n) /\ n.host = h /\ n.ctl = r.ctl
      /\ n.tx = r.tx /\ n.rx = r.rx
      /\ n.fault = r.fault /\ n.now = r.now
      /\ Flight(n) = Flight(r)
  BY <1>1, RunOfHost
<1> QED
  BY <1>2 DEF Early

Sendable(r, k) ==
  /\ IsSeq(r.host.tx)
  /\ \A f \in Range(r.host.tx) : Fits(r.ctl, f, k)

FlushedEarly(r, n, k, a) ==
  /\ Early(n, k, a)
  /\ n.host.tx = <<>> /\ n.host.state = r.host.state
  /\ n.host.tracker = r.host.tracker
  /\ n.fault = r.fault
  /\ Idle(r.ctl.fw) => Idle(n.ctl.fw)

LEMMA EmptiesEarly ==
  ASSUME NEW k \in Nat, NEW a \in Nat, NEW r, Early(r, k, a),
         Sendable(r, k),
         NEW shaped, Carries(r.tx, Range(r.host.tx), shaped),
         NEW n, n = Emptying(r, shaped.dir)
  PROVE  /\ FlushedEarly(r, n, k, a) /\ n.ctl = r.ctl
         /\ IsSeq(shaped.out)
         /\ \A f \in Range(shaped.out) : Fits(n.ctl, f, k)
<1> DEFINE dir == shaped.dir
           passing == Passing(r.tx, Range(r.host.tx))
<1>1. /\ IsDirection(dir) /\ IsSeq(shaped.out)
      /\ dir.previous \in {r.tx.previous} \cup Range(r.host.tx)
      /\ Held(dir) \subseteq Held(r.tx) \cup passing
      /\ Range(shaped.out) \subseteq passing
  BY DEF Carries
<1>2. IsRun(r)
  BY DEF Early
<1>3. /\ IsRun(n) /\ n.host.tx = <<>> /\ n.tx = dir /\ n.ctl = r.ctl
      /\ n.rx = r.rx /\ n.fault = r.fault /\ n.now = r.now
      /\ Flight(n) = Flight(r)
      /\ n.host.state = r.host.state
      /\ n.host.tracker = r.host.tracker
  BY <1>1, <1>2, Empties
<1> HIDE DEF dir
<1>4. \A f \in passing : Fits(r.ctl, f, k)
  BY CorruptedFits DEF Passing, Early, Sendable
<1>5. \A f \in Before(dir) : Fits(r.ctl, f, k)
  <2>1. Before(dir) \subseteq Before(r.tx) \cup Range(r.host.tx)
    BY <1>1 DEF Before
  <2> QED
    BY <2>1 DEF Early, Sendable
<1>6. \A f \in Held(dir) : Prior(f, k)
  BY <1>1, <1>4 DEF Early, Fits, Prior
<1>7. Early(n, k, a)
  BY <1>3, <1>5, <1>6 DEF Early
<1> QED
  BY <1>1, <1>3, <1>4, <1>7 DEF FlushedEarly

LEMMA FlushesEarly ==
  ASSUME NEW k \in Nat, NEW a \in Nat, NEW r, Early(r, k, a),
         Sendable(r, k), NEW n, n = Flushed(r)
  PROVE  FlushedEarly(r, n, k, a)
<1> DEFINE shaped == L!Shaped(r.tx, r.now, r.fault, r.host.tx)
           m == Emptying(r, shaped.dir)
<1>1. Carries(r.tx, Range(r.host.tx), shaped)
  BY Shapes DEF Early, IsRun, Sendable
<1>2. n = Delivered(m, shaped.out)
  BY FlushedIs
<1> HIDE DEF shaped
<1>3. /\ FlushedEarly(r, m, k, a) /\ m.ctl = r.ctl
      /\ IsSeq(shaped.out)
      /\ \A f \in Range(shaped.out) : Fits(m.ctl, f, k)
  BY <1>1, EmptiesEarly
<1> HIDE DEF m
<1>4. Early(m, k, a)
  BY <1>3 DEF FlushedEarly
<1>5. GoneOn(m, n, k, a)
  BY <1>2, <1>3, <1>4, DeliversEarly
<1> QED
  BY <1>3, <1>5 DEF GoneOn, FlushedEarly

LEMMA HealthyPasses ==
  ASSUME NEW d, IsDirection(d), NEW now, NEW fault, NEW f, NEW s, s = <<f>>,
         NEW shaped, shaped = L!Shaped(d, now, fault, s)
  PROVE  fault = L!Healthy => shaped.out = <<f>>
<1>1. PassesOne(d, fault, f, shaped.out)
  BY ShapesOne
<1> QED
  BY <1>1 DEF PassesOne

(* A HELLO that arrives leaves the controller without a release.           *)
LEMMA HelloStops ==
  ASSUME NEW k \in Nat, NEW a \in Nat, NEW r, Early(r, k, a),
         Sendable(r, k), r.fault = L!Healthy,
         NEW f, r.host.tx = <<f>>, f.type = "Hello", NEW n, n = Flushed(r)
  PROVE  Idle(n.ctl.fw)
<1> DEFINE shaped == L!Shaped(r.tx, r.now, r.fault, r.host.tx)
           m == Emptying(r, shaped.dir)
<1>1. Carries(r.tx, Range(r.host.tx), shaped)
  BY Shapes DEF Early, IsRun, Sendable
<1>2. shaped.out = <<f>>
  <2>1. IsDirection(r.tx)
    BY DEF Early, IsRun
  <2>2. shaped = L!Shaped(r.tx, r.now, r.fault, r.host.tx)
    OBVIOUS
  <2> HIDE DEF shaped
  <2> QED
    BY <2>1, <2>2, HealthyPasses
<1>3. n = Delivered(m, shaped.out)
  BY FlushedIs
<1> HIDE DEF shaped
<1>4. /\ FlushedEarly(r, m, k, a) /\ m.ctl = r.ctl
      /\ \A x \in Range(shaped.out) : Fits(m.ctl, x, k)
  BY <1>1, EmptiesEarly
<1> HIDE DEF m
<1>5. Early(m, k, a) /\ Fits(m.ctl, f, k)
  BY <1>2, <1>4, OneCell DEF FlushedEarly
<1>6. n = Answered(m, K!FeedCall(m.ctl, f))
  BY <1>2, <1>3, DeliversOne
<1> QED
  BY <1>5, <1>6, DeliversOneEarly

(* The frames that fall due.                                               *)
Start(r, k, a) == Early(r, k, a) /\ \A f \in Held(r.tx) : Fits(r.ctl, f, k)

(* The link of the step, before what falls due is delivered.               *)
Tuning(r, k, fault) ==
  [r EXCEPT !.now = k, !.fault = fault,
            !.tx = L!Released(r.tx, k, fault).dir,
            !.rx = L!Released(r.rx, k, fault).dir,
            !.ready = r.ready \o L!Released(r.rx, k, fault).out]

TunedTo(r, m, out) ==
  /\ IsRun(m) /\ m.ctl = r.ctl /\ m.host = r.host
  /\ m.tx.previous = r.tx.previous
  /\ Held(m.tx) \subseteq Held(r.tx)
  /\ Flight(m) \subseteq Flight(r)
  /\ IsSeq(out) /\ Range(out) \subseteq Held(r.tx)
  /\ Burden(m.tx, out) <= Len(r.tx.delayed)

LEMMA Tunes ==
  ASSUME NEW k, NEW r, IsRun(r), NEW fault, NEW m, m = Tuning(r, k, fault),
         NEW out, out = L!Released(r.tx, k, fault).out
  PROVE  Linked(r, k, fault) = Delivered(m, out) /\ TunedTo(r, m, out)
<1> DEFINE tx == L!Released(r.tx, k, fault)
           rx == L!Released(r.rx, k, fault)
           q == r.ready \o rx.out
<1>1. /\ Linked(r, k, fault) = Delivered(m, tx.out)
      /\ out = tx.out
  BY DEF Linked, Tuned, Tuning, L!Configured, IsRun
<1>2. m = [r EXCEPT !.now = k, !.fault = fault, !.tx = tx.dir,
                    !.rx = rx.dir, !.ready = q]
  BY DEF Tuning
<1>3. /\ IsDirection(tx.dir) /\ tx.dir.previous = r.tx.previous
      /\ Held(tx.dir) \subseteq Held(r.tx)
      /\ IsSeq(tx.out) /\ Range(tx.out) \subseteq Held(r.tx)
      /\ Burden(tx.dir, tx.out) <= Len(r.tx.delayed)
  BY Releases DEF IsRun
<1>4. /\ IsDirection(rx.dir) /\ rx.dir.previous = r.rx.previous
      /\ Held(rx.dir) \subseteq Held(r.rx)
      /\ IsSeq(rx.out) /\ Range(rx.out) \subseteq Held(r.rx)
  BY Releases DEF IsRun
<1> HIDE DEF tx, rx
<1>5. IsSeq(q) /\ Range(q) \subseteq Range(r.ready) \cup Range(rx.out)
  BY <1>4, SeqConcat DEF IsRun
<1> HIDE DEF q
<1>7. /\ m.tx = tx.dir /\ m.rx = rx.dir /\ m.ready = q /\ m.ctl = r.ctl
      /\ m.host = r.host /\ m.fault = fault /\ m.now = k
      /\ m.answered = r.answered
  BY <1>2 DEF IsRun
<1>8. m = [host |-> m.host, tx |-> m.tx, rx |-> m.rx, ctl |-> m.ctl,
           fault |-> m.fault, now |-> m.now, answered |-> m.answered,
           ready |-> m.ready]
  BY <1>2, <1>7 DEF IsRun
<1>9. IsRun(m)
  BY <1>3, <1>4, <1>5, <1>7, <1>8 DEF IsRun
<1>10. Flight(m) \subseteq Flight(r)
  BY <1>4, <1>5, <1>7 DEF Flight, Before
<1> QED
  BY <1>1, <1>3, <1>7, <1>9, <1>10 DEF TunedTo

LEMMA LinksEarly ==
  ASSUME NEW k \in Nat, NEW a \in Nat, NEW r, Start(r, k, a),
         NEW fault, NEW n, n = Linked(r, k, fault)
  PROVE  Early(n, k, a) /\ n.host = r.host
<1> DEFINE m == Tuning(r, k, fault)
           out == L!Released(r.tx, k, fault).out
<1>1. IsRun(r)
  BY DEF Start, Early
<1>2. n = Delivered(m, out) /\ TunedTo(r, m, out)
  BY <1>1, Tunes
<1> HIDE DEF m, out
<1>3. /\ \A f \in Before(m.tx) : Fits(m.ctl, f, k)
      /\ \A f \in Held(m.tx) : Prior(f, k)
      /\ \A f \in Range(out) : Fits(m.ctl, f, k)
  BY <1>2 DEF Before, Start, Early, TunedTo
<1>4. Early(m, k, a)
  BY <1>2, <1>3 DEF Start, Early, TunedTo
<1>5. GoneOn(m, n, k, a)
  BY <1>2, <1>3, <1>4, DeliversEarly DEF TunedTo
<1> QED
  BY <1>2, <1>5 DEF GoneOn, TunedTo

-----------------------------------------------------------------------------
(* The parts of an iteration before the exchange.                          *)
Ready(r, k, a) == Early(r, k, a) /\ r.host.tx = <<>>

LEMMA SinglesFit ==
  ASSUME NEW k \in Nat, NEW c, NEW f,
         \/ Is(f, "Hello", 0) \/ Is(f, "SafeStop", k)
         \/ Is(f, "Route", k) /\ Idle(c.fw)
  PROVE  Fits(c, f, k)
BY DEF Fits, Known, FromHost, Is

LEMMA SingleSendable ==
  ASSUME NEW k \in Nat, NEW r, NEW type, NEW j, Single(r.host, type, j),
         \/ type = "Hello" /\ j = 0
         \/ type = "SafeStop" /\ j = k
  PROVE  Sendable(r, k)
<1>1. CASE r.host.tx = <<>>
  BY <1>1, NoCells DEF Sendable
<1>2. ASSUME NEW f, r.host.tx = <<f>>, Is(f, type, j)
      PROVE  Sendable(r, k)
  <2>1. Fits(r.ctl, f, k)
    BY <1>2, SinglesFit
  <2>2. IsSeq(r.host.tx) /\ Range(r.host.tx) = {f}
    BY <1>2, OneCell
  <2> QED
    BY <2>1, <2>2 DEF Sendable
<1> QED
  BY <1>1, <1>2 DEF Single

LEMMA GreetsEarly ==
  ASSUME NEW k \in Nat, NEW a \in Nat, NEW r, Ready(r, k, a),
         r.host.state # "Closed", r.fault = L!Healthy,
         NEW n, n = Greeted(r)
  PROVE  Ready(n, k, a) /\ Idle(n.ctl.fw)
<1> DEFINE h == Started(r.host, Hello)
           m == [r EXCEPT !.host = h]
<1>1. n = Flushed(m)
  BY DEF Greeted, Ready, Early, IsRun
<1>2. IsHost(r.host) /\ r.host.tx = <<>>
  BY DEF Ready, Early, IsRun
<1>3. Single(h, "Hello", 0) /\ h.tx # <<>> /\ h.tracker = Unseen
  BY <1>2, HostStarts
<1> HIDE DEF h
<1>4. IsHost(h) /\ Remembers(h.tracker, k)
  BY <1>3 DEF Single, Remembers, Unseen
<1>5. Early(m, k, a) /\ m.host = h /\ m.fault = r.fault
  BY <1>4, HostEarly DEF Ready
<1> HIDE DEF m
<1>6. Sendable(m, k)
  BY <1>3, <1>5, SingleSendable
<1>7. FlushedEarly(m, n, k, a)
  BY <1>1, <1>5, <1>6, FlushesEarly
<1>8. PICK f : h.tx = <<f>> /\ Is(f, "Hello", 0)
  BY <1>3 DEF Single
<1>9. m.fault = L!Healthy /\ m.host.tx = <<f>> /\ f.type = "Hello"
  BY <1>5, <1>8 DEF Is
<1>10. Idle(n.ctl.fw)
  BY <1>1, <1>5, <1>6, <1>9, HelloStops
<1> QED
  BY <1>7, <1>10 DEF FlushedEarly, Ready

LEMMA PollsEarly ==
  ASSUME NEW k \in Nat, NEW a \in Nat, NEW r, Ready(r, k, a),
         NEW n, n = HostPoll(r)
  PROVE  Ready(n.run, k, a) /\ n.run.ctl = r.ctl
<1>1. HeardBy(r, k, n)
  BY Polls DEF Ready, Early, Bygone
<1>2. \A p \in Flight(n.run) : Bygone(p, k, a)
  BY <1>1, CorruptedIsBygone DEF HeardBy, Ready, Early
<1> QED
  BY <1>1, <1>2 DEF HeardBy, InStep, Ready, Early

LEMMA RoutesEarly ==
  ASSUME NEW k \in Nat, NEW a \in Nat, NEW r, Ready(r, k, a),
         Idle(r.ctl.fw), NEW n, n = Routed(r, k)
  PROVE  Ready(n, k, a)
<1>1. CASE r.host.state # "Active"
  BY <1>1 DEF Routed
<1>2. CASE r.host.state = "Active"
  <2> DEFINE h == SentRoute(r.host, Route(k))
             m == [r EXCEPT !.host = h]
  <2>1. n = Flushed(m)
    BY <1>2 DEF Routed, Ready, Early, IsRun
  <2>2. IsHost(r.host) /\ r.host.tx = <<>>
    BY DEF Ready, Early, IsRun
  <2>3. Chunks(r.host, h, k)
    BY <1>2, <2>2, HostSendsRoute
  <2> HIDE DEF h
  <2>4. Early(m, k, a) /\ m.host = h /\ m.ctl = r.ctl
    BY <2>3, HostEarly DEF Ready, Early, Chunks
  <2> HIDE DEF m
  <2>5. Sendable(m, k)
    BY <2>3, <2>4, SinglesFit DEF Sendable, Chunks
  <2>6. FlushedEarly(m, n, k, a)
    BY <2>1, <2>4, <2>5, FlushesEarly
  <2> QED
    BY <2>6 DEF FlushedEarly, Ready
<1> QED
  BY <1>1, <1>2

LEMMA ConnectsEarly ==
  ASSUME NEW k \in Nat, NEW a \in Nat, NEW r, Ready(r, k, a),
         r.host.state # "Closed", r.fault = L!Healthy,
         NEW n, n = Connected(r, k)
  PROVE  Ready(n, k, a)
<1> DEFINE g == Greeted(r)
           polled == HostPoll(g)
<1>1. Ready(g, k, a) /\ Idle(g.ctl.fw)
  BY GreetsEarly
<1> HIDE DEF g
<1>2. Ready(polled.run, k, a) /\ polled.run.ctl = g.ctl
  BY <1>1, PollsEarly
<1>3. n = Routed(polled.run, k)
  BY DEF Connected, g
<1> HIDE DEF polled
<1> QED
  BY <1>1, <1>2, <1>3, RoutesEarly

(* Where an iteration begins.                                              *)
Waiting(r, k) == IF k = 0 THEN r ELSE Waited(r)

LEMMA BeginsEarly ==
  ASSUME NEW k \in Nat, NEW a \in Nat, NEW r, Start(Waiting(r, k), k, a),
         Waiting(r, k).host.tx = <<>>, NEW n, n = Begun(r, k)
  PROVE  /\ Ready(n, k, a)
         /\ Waiting(r, k).host.state # "TimedOut" =>
              n.host.tracker = Waiting(r, k).host.tracker
<1> DEFINE w == Waiting(r, k)
           m == Linked(w, k, LinkFaultState(k))
<1>1. n = Tended(m, k)
  BY DEF Begun, Waiting
<1>2. Start(w, k, a) /\ w.host.tx = <<>>
  OBVIOUS
<1> HIDE DEF w
<1>3. Ready(m, k, a) /\ m.host = w.host
  <2>1. Early(m, k, a) /\ m.host = w.host
    BY <1>2, LinksEarly
  <2> QED
    BY <1>2, <2>1 DEF Ready
<1> HIDE DEF m
<1>4. CASE m.host.state = "TimedOut" /\ m.fault = L!Healthy
  <2>1. n = Connected(m, k)
    BY <1>1, <1>4 DEF Tended, LinkIsHealthy
  <2> QED
    BY <1>3, <1>4, <2>1, ConnectsEarly DEF w
<1>5. CASE ~(m.host.state = "TimedOut" /\ m.fault = L!Healthy)
  BY <1>1, <1>3, <1>5 DEF Tended, LinkIsHealthy, w
<1> QED
  BY <1>4, <1>5

LEMMA StopsEarly ==
  ASSUME NEW k \in Nat, NEW a \in Nat, NEW r, Ready(r, k, a),
         NEW n, n = Stopped(r, k)
  PROVE  Ready(n, k, a) /\ n.host.tracker = r.host.tracker
<1>1. CASE ~StopDue(k)
  BY <1>1 DEF Stopped
<1>2. CASE StopDue(k)
  <2> DEFINE h == StopRequested(r.host, ManualStop(k))
             m == [r EXCEPT !.host = h]
  <2>1. n = Flushed(m)
    BY <1>2 DEF Stopped, Ready, Early, IsRun
  <2>2. IsHost(r.host) /\ r.host.tx = <<>>
    BY DEF Ready, Early, IsRun
  <2>3. Single(h, "SafeStop", k) /\ h.tracker = r.host.tracker
    BY <2>2, HostStops
  <2> HIDE DEF h
  <2>4. Early(m, k, a) /\ m.host = h
    BY <2>3, HostEarly DEF Ready, Early, Single
  <2> HIDE DEF m
  <2>5. Sendable(m, k)
    BY <2>3, <2>4, SingleSendable
  <2>6. FlushedEarly(m, n, k, a)
    BY <2>1, <2>4, <2>5, FlushesEarly
  <2> QED
    BY <2>3, <2>4, <2>6 DEF FlushedEarly, Ready
<1> QED
  BY <1>1, <1>2

-----------------------------------------------------------------------------
(* The exchange: now a drive command may carry the step of the iteration,  *)
(* but then the controller has not stopped, and sends no other before the  *)
(* clock goes on.                                                          *)
Lawful(p, c, k, a) ==
  /\ Dated(p, k)
  /\ Drive(p) => p.step + a < k \/ (~Halted(c.fw) /\ Idle(c.fw))

UpTo(c, k) ==
  IsController(c) /\ c.lastStep \in 0 .. k /\ Range(c.queued) \subseteq 0 .. k

Late(r, k, a) ==
  /\ IsRun(r) /\ UpTo(r.ctl, k) /\ StoppedSince(r.ctl, a)
  /\ Remembers(r.host.tracker, k)
  /\ \A f \in Held(r.tx) \cup Before(r.tx) : Known(f, k)
  /\ \A p \in Flight(r) : Lawful(p, r.ctl, k, a)

Open(r, k, a) == Late(r, k, a) /\ r.host.tx = <<>>

LEMMA BygoneIsLawful ==
  ASSUME NEW p, NEW c, NEW k, NEW a, Bygone(p, k, a)
  PROVE  Lawful(p, c, k, a)
BY DEF Bygone, Lawful

LEMMA EarlyIsLate ==
  ASSUME NEW k \in Nat, NEW a \in Nat, NEW r, Early(r, k, a)
  PROVE  Late(r, k, a)
<1>1. UpTo(r.ctl, k)
  <2>1. 0 .. k - 1 \subseteq 0 .. k
    OBVIOUS
  <2> QED
    BY <2>1 DEF Early, Lagging, UpTo
<1>2. \A f \in Held(r.tx) \cup Before(r.tx) : Known(f, k)
  BY DEF Early, Fits, Prior
<1>3. \A p \in Flight(r) : Lawful(p, r.ctl, k, a)
  BY BygoneIsLawful DEF Early
<1> QED
  BY <1>1, <1>2, <1>3 DEF Early, Late

LEMMA CorruptedIsLawful ==
  ASSUME NEW c, NEW k, NEW a
  PROVE  Lawful(L!Corrupted, c, k, a)
BY CorruptedIsBygone, BygoneIsLawful

LEMMA PollsLate ==
  ASSUME NEW k \in Nat, NEW a \in Nat, NEW r, Open(r, k, a),
         NEW n, n = HostPoll(r)
  PROVE  /\ Open(n.run, k, a) /\ n.run.ctl = r.ctl
         /\ IsSeq(n.events)
         /\ \A p \in Range(n.events) : Lawful(p, r.ctl, k, a)
         /\ InStep(r.host, k, n.run.host, n.events)
<1>1. HeardBy(r, k, n)
  BY Polls DEF Open, Late, Lawful
<1>2. \A p \in Flight(r) \cup {L!Corrupted} : Lawful(p, r.ctl, k, a)
  BY CorruptedIsLawful DEF Open, Late
<1> QED
  BY <1>1, <1>2 DEF HeardBy, InStep, Open, Late

(* A tick without a frame.                                                 *)
LEMMA TicksLate ==
  ASSUME NEW k \in Nat, NEW a \in Nat, NEW r, Open(r, k, a),
         NEW n, n = TickedCall(r, k)
  PROVE  /\ Open(n, k, a) /\ n.host = r.host
         /\ \A p : Lawful(p, r.ctl, k, a) => Lawful(p, n.ctl, k, a)
<1> DEFINE c == r.ctl
           b == K!Called(c)
           call == K!Ticked(b, k)
<1>1. n = Answered(r, call)
  BY DEF TickedCall
<1>2. IsRun(r) /\ UpTo(c, k) /\ StoppedSince(c, a)
  BY DEF Open, Late
<1>3. /\ IsController(b) /\ SameCore(c.fw, b.fw) /\ b.queued = c.queued
  BY <1>2, Calls DEF UpTo
<1>4. /\ (Halted(c.fw) <=> Halted(b.fw)) /\ (Idle(c.fw) <=> Idle(b.fw))
      /\ b.fw.rt = c.fw.rt
  BY <1>3 DEF SameCore, Halted, Idle
<1> HIDE DEF b
<1>5. CallTicked(b, k, call)
  BY <1>3, Ticks
<1> HIDE DEF call
<1>6. IsController(call.ctl) /\ IsSeq(call.out)
  BY <1>5 DEF CallTicked
<1>7. /\ IsRun(n) /\ n.ctl = call.ctl
      /\ n.host = r.host /\ n.tx = r.tx
      /\ Flight(n) \subseteq Flight(r) \cup Range(call.out)
  BY <1>1, <1>2, <1>6, AnswersRun
<1>8. UpTo(n.ctl, k) /\ StoppedSince(n.ctl, a)
  BY <1>2, <1>3, <1>4, <1>5, <1>7 DEF CallTicked, UpTo, StoppedSince
<1>9. ASSUME NEW p, Lawful(p, c, k, a) PROVE Lawful(p, n.ctl, k, a)
  <2>1. Idle(c.fw) => n.ctl.fw.rt = c.fw.rt /\ Idle(n.ctl.fw)
    BY <1>4, <1>5, <1>7 DEF CallTicked
  <2> QED
    BY <1>9, <2>1 DEF Lawful, Halted
<1>10. ASSUME NEW p \in Range(call.out) PROVE Lawful(p, n.ctl, k, a)
  <2>1. p.step \in Range(b.queued) \cup {k} /\ p.seq # None
    BY <1>5, <1>10 DEF CallTicked
  <2>2. p.step \in 0 .. k
    BY <1>2, <1>3, <2>1 DEF UpTo
  <2>3. Drive(p) => ~Halted(n.ctl.fw) /\ Idle(n.ctl.fw)
    BY <1>5, <1>7, <1>10 DEF CallTicked
  <2> QED
    BY <2>1, <2>2, <2>3 DEF Lawful, Dated
<1>11. \A p \in Flight(n) : Lawful(p, n.ctl, k, a)
  BY <1>7, <1>9, <1>10 DEF Open, Late
<1> QED
  BY <1>7, <1>8, <1>9, <1>11 DEF Open, Late

-----------------------------------------------------------------------------
(* One frame, which may be of this step.                                   *)
LEMMA AnswersLate ==
  ASSUME NEW k \in Nat, NEW a \in Nat, NEW r, IsRun(r), r.host.tx = <<>>,
         UpTo(r.ctl, k), StoppedSince(r.ctl, a),
         Remembers(r.host.tracker, k),
         \A x \in Held(r.tx) \cup Before(r.tx) : Known(x, k),
         \A p \in Flight(r) : Bygone(p, k, a),
         NEW f, Known(f, k),
         NEW n, n = Answered(r, K!FeedCall(r.ctl, f))
  PROVE  Open(n, k, a) /\ n.host = r.host
<1> DEFINE c == r.ctl
           call == K!FeedCall(c, f)
<1>1. n = Answered(r, call)
  OBVIOUS
<1>2. IsController(c) /\ Own(f)
  BY DEF UpTo, Known, Own
<1>3. CallMade(c, f, call)
  BY <1>2, Feeds
<1> HIDE DEF call
<1>4. IsController(call.ctl) /\ IsSeq(call.out)
  BY <1>3 DEF CallMade
<1>5. /\ IsRun(n) /\ n.ctl = call.ctl
      /\ n.host = r.host /\ n.tx = r.tx
      /\ Flight(n) \subseteq Flight(r) \cup Range(call.out)
  BY <1>1, <1>4, AnswersRun
<1>6. Joining(f) \subseteq 0 .. k /\ (f.type # "Corrupt" => f.step \in 0 .. k)
  BY DEF Known, FromHost, Joining
<1>7. UpTo(n.ctl, k) /\ StoppedSince(n.ctl, a)
  BY <1>3, <1>5, <1>6 DEF CallMade, UpTo, StoppedSince
<1>8. ASSUME NEW p \in Range(call.out) PROVE Lawful(p, n.ctl, k, a)
  <2>1. /\ p.step \in Range(c.queued) \cup Joining(f) \cup {n.ctl.lastStep}
        /\ p.seq # None
        /\ Drive(p) => ~Halted(n.ctl.fw) /\ Idle(n.ctl.fw)
    BY <1>3, <1>5, <1>8 DEF CallMade
  <2>2. p.step \in 0 .. k
    BY <1>6, <1>7, <2>1 DEF UpTo
  <2> QED
    BY <2>1, <2>2 DEF Lawful, Dated
<1>9. \A p \in Flight(n) : Lawful(p, n.ctl, k, a)
  BY <1>5, <1>8, BygoneIsLawful
<1> QED
  BY <1>5, <1>7, <1>9 DEF Open, Late

LEMMA SendsLate ==
  ASSUME NEW k \in Nat, NEW a \in Nat, NEW r, Early(r, k, a),
         NEW f, r.host.tx = <<f>>, Is(f, "Sensor", k),
         NEW n, n = Flushed(r)
  PROVE  Open(n, k, a) /\ n.host.tracker = r.host.tracker
<1> DEFINE s == r.host.tx
           shaped == L!Shaped(r.tx, r.now, r.fault, s)
           m == Emptying(r, shaped.dir)
<1>1. IsRun(r) /\ IsDirection(r.tx)
  BY DEF Early, IsRun
<1>2. s = <<f>> /\ IsSeq(s) /\ Range(s) = {f}
  BY OneCell
<1>3. n = Delivered(m, shaped.out)
  BY FlushedIs
<1> HIDE DEF s
<1>4. Carries(r.tx, {f}, shaped)
  BY <1>1, <1>2, Shapes
<1>5. PassesOne(r.tx, r.fault, f, shaped.out)
  BY <1>1, <1>2, ShapesOne
<1> HIDE DEF shaped
<1>6. IsDirection(shaped.dir)
  BY <1>4 DEF Carries
<1>7. /\ IsRun(m) /\ m.host.tx = <<>> /\ m.tx = shaped.dir /\ m.ctl = r.ctl
      /\ Flight(m) = Flight(r) /\ m.host.tracker = r.host.tracker
  BY <1>1, <1>6, Empties
<1> HIDE DEF m
<1>8. Known(f, k)
  BY DEF Is, Known, FromHost
<1>9. \A x \in Passing(r.tx, {f}) : Known(x, k)
  BY <1>8, CorruptedFits DEF Passing, Early, Fits
<1>10. \A x \in Held(m.tx) \cup Before(m.tx) : Known(x, k)
  <2>1. Before(m.tx) \subseteq Before(r.tx) \cup {f}
    BY <1>4, <1>7 DEF Before, Carries
  <2> QED
    BY <1>4, <1>7, <1>8, <1>9, <2>1 DEF Carries, Early, Fits, Prior
<1>11. /\ UpTo(m.ctl, k) /\ StoppedSince(m.ctl, a)
       /\ Remembers(m.host.tracker, k)
  BY <1>7, EarlyIsLate DEF Late
<1>12. \A p \in Flight(m) : Bygone(p, k, a)
  BY <1>7 DEF Early
<1>13. CASE shaped.out = <<>>
  <2>1. n = m
    BY <1>3, <1>13, DeliversNone
  <2> QED
    BY <1>7, <1>10, <1>11, <1>12, <2>1, BygoneIsLawful DEF Open, Late
<1>14. ASSUME NEW x \in Passing(r.tx, {f}), shaped.out = <<x>>
       PROVE  Open(n, k, a) /\ n.host.tracker = r.host.tracker
  <2>1. n = Answered(m, K!FeedCall(m.ctl, x))
    BY <1>3, <1>14, DeliversOne
  <2>2. Known(x, k)
    BY <1>9
  <2> QED
    BY <1>7, <1>10, <1>11, <1>12, <2>1, <2>2, AnswersLate
<1> QED
  BY <1>5, <1>13, <1>14 DEF PassesOne

LEMMA OffersLate ==
  ASSUME NEW k \in Nat, NEW a \in Nat, NEW r, Ready(r, k, a),
         NEW samples, NEW n, n = Offered(r, k, samples)
  PROVE  Open(n, k, a) /\ n.host.tracker = r.host.tracker
<1>1. CASE ~Sends(r, k, samples)
  <2>1. n = TickedCall(r, k)
    BY <1>1 DEF Offered
  <2>2. Open(r, k, a)
    BY EarlyIsLate DEF Ready, Open
  <2> QED
    BY <2>1, <2>2, TicksLate
<1>2. CASE Sends(r, k, samples)
  <2> DEFINE h == SentActive(r.host, SensorFrame(k, samples))
             m == [r EXCEPT !.host = h]
  <2>1. n = Flushed(m)
    BY <1>2 DEF Offered, Ready, Early, IsRun
  <2>2. IsHost(r.host) /\ r.host.tx = <<>>
    BY DEF Ready, Early, IsRun
  <2>3. Single(h, "Sensor", k) /\ h.tracker = r.host.tracker
    BY <2>2, HostSendsSensor
  <2> HIDE DEF h
  <2>4. Early(m, k, a) /\ m.host = h
    BY <2>3, HostEarly DEF Ready, Early, Single
  <2> HIDE DEF m
  <2>5. CASE h.tx = <<>>
    <3>1. n = m
      BY <2>1, <2>4, <2>5, FlushesNothing DEF Early
    <3> QED
      BY <2>3, <2>4, <2>5, <3>1, EarlyIsLate DEF Open
  <2>6. ASSUME NEW f, h.tx = <<f>>, Is(f, "Sensor", k)
        PROVE  Open(n, k, a) /\ n.host.tracker = r.host.tracker
    BY <2>1, <2>3, <2>4, <2>6, SendsLate
  <2> QED
    BY <2>3, <2>5, <2>6 DEF Single
<1> QED
  BY <1>1, <1>2

(* What the exchange leaves, and what the host has heard.                  *)
Exchangeable(e, k, a) ==
  /\ Open(e.run, k, a)
  /\ IsSeq(e.events)
  /\ \A p \in Range(e.events) : Lawful(p, e.run.ctl, k, a)

LEMMA PollIsExchangeable ==
  ASSUME NEW k \in Nat, NEW a \in Nat, NEW r, Open(r, k, a),
         NEW e, e = HostPoll(r)
  PROVE  /\ Exchangeable(e, k, a) /\ e.run.ctl = r.ctl
         /\ InStep(r.host, k, e.run.host, e.events)
BY PollsLate DEF Exchangeable

LEMMA JoinsEvents ==
  ASSUME NEW k \in Nat, NEW a \in Nat, NEW second, Exchangeable(second, k, a),
         second = [run |-> second.run, events |-> second.events],
         NEW s, IsSeq(s), \A p \in Range(s) : Lawful(p, second.run.ctl, k, a),
         NEW e, e = Also(s, second)
  PROVE  /\ Exchangeable(e, k, a) /\ e.run = second.run
         /\ Range(e.events) \subseteq Range(s) \cup Range(second.events)
<1> DEFINE q == s \o second.events
<1>1. e = [second EXCEPT !.events = q]
  BY DEF Also
<1>2. IsSeq(q) /\ Range(q) \subseteq Range(s) \cup Range(second.events)
  BY SeqConcat DEF Exchangeable
<1> HIDE DEF q
<1>3. e.run = second.run /\ e.events = q
  BY <1>1
<1> QED
  BY <1>2, <1>3 DEF Exchangeable

LEMMA ExchangesLate ==
  ASSUME NEW k \in Nat, NEW a \in Nat, NEW r, Ready(r, k, a),
         NEW samples, NEW e, e = Exchanged(r, k, samples)
  PROVE  /\ Exchangeable(e, k, a)
         /\ InStep(r.host, k, e.run.host, e.events)
<1> DEFINE o == Offered(r, k, samples)
           first == HostPoll(o)
           t == TickedCall(first.run, k)
           second == HostPoll(t)
<1>1. e = Completed(first, k)
  BY DEF Exchanged
<1>2. e = first \/ e = Also(first.events, second)
  BY <1>1 DEF Completed
<1>3. Open(o, k, a) /\ o.host.tracker = r.host.tracker
  BY OffersLate
<1> HIDE DEF o
<1>4. /\ Exchangeable(first, k, a)
      /\ InStep(o.host, k, first.run.host, first.events)
  BY <1>3, PollIsExchangeable
<1> HIDE DEF first
<1>5. /\ Open(t, k, a) /\ t.host = first.run.host
      /\ \A p : Lawful(p, first.run.ctl, k, a) => Lawful(p, t.ctl, k, a)
  BY <1>4, TicksLate DEF Exchangeable
<1> HIDE DEF t
<1>6. /\ Exchangeable(second, k, a) /\ second.run.ctl = t.ctl
      /\ InStep(t.host, k, second.run.host, second.events)
  BY <1>5, PollIsExchangeable
<1>7. second = [run |-> second.run, events |-> second.events]
  BY DEF HostPoll, Received, Heard
<1> HIDE DEF second
<1>8. /\ IsSeq(first.events)
      /\ \A p \in Range(first.events) : Lawful(p, second.run.ctl, k, a)
  BY <1>4, <1>5, <1>6 DEF Exchangeable
<1>9. InStep(r.host, k, first.run.host, first.events)
  BY <1>3, <1>4 DEF InStep
<1>10. CASE e = first
  BY <1>4, <1>9, <1>10
<1>11. CASE e = Also(first.events, second)
  <2>1. /\ Exchangeable(e, k, a) /\ e.run = second.run
        /\ Range(e.events) \subseteq Range(first.events) \cup Range(second.events)
    BY <1>6, <1>7, <1>8, <1>11, JoinsEvents
  <2>2. Remembers(r.host.tracker, k)
    BY DEF Ready, Early
  <2>3. InStep(first.run.host, k, second.run.host, second.events)
    BY <1>5, <1>6
  <2>4. \A p \in Range(second.events) : Dated(p, k)
    BY <1>6 DEF Exchangeable, Lawful
  <2>5. InStep(r.host, k, second.run.host, e.events)
    BY <1>9, <2>1, <2>2, <2>3, <2>4, InStepOn
  <2> QED
    BY <2>1, <2>5
<1> QED
  BY <1>2, <1>10, <1>11

-----------------------------------------------------------------------------
(* From one iteration to the next.                                         *)
LEMMA AgesRuntime ==
  ASSUME NEW r \in K!C!RuntimeRecord, NEW n, n = K!C!AgedWhileRead(r, 1)
  PROVE  n \in K!C!RuntimeRecord /\ n.state = r.state
<1> DEFINE v == IF r.state \in K!C!Live /\ r.hostSeen
                  THEN K!C!Older(r.validAge, 1) ELSE 0
           b == IF r.state \in K!C!Driving /\ r.blind
                  THEN K!C!Older(r.blindAge, 1) ELSE 0
<1>1. v \in K!C!Age /\ b \in K!C!Age
  BY ControllerAssumption DEF K!C!Age, K!C!Older, K!C!RuntimeRecord
<1>2. n = [r EXCEPT !.validAge = v, !.blindAge = b]
  BY DEF K!C!AgedWhileRead
<1> HIDE DEF v, b
<1> QED
  BY <1>1, <1>2 DEF K!C!RuntimeRecord

LEMMA WaitsSession ==
  ASSUME NEW s, IsSession(s), NEW n, n = K!C!Waited(s, 1)
  PROVE  /\ IsSession(n) /\ n.tx = s.tx /\ n.sensors = s.sensors
         /\ Halted(s) => Halted(n)
<1> DEFINE rt == K!C!AgedWhileRead(s.rt, 1)
           lead == K!C!Nearer(s.lead, 1)
           health == K!C!AtMost(s.healthAge + 1, HealthPeriod)
           beat == K!C!AtMost(s.beatAge + 1, HeartbeatPeriod)
<1>1. n = [s EXCEPT !.rt = rt, !.lead = lead, !.stepped = FALSE,
                    !.healthAge = health, !.beatAge = beat, !.drives = 0]
  BY DEF K!C!Waited, IsSession
<1>2. rt \in K!C!RuntimeRecord /\ rt.state = s.rt.state
  BY AgesRuntime DEF IsSession
<1> HIDE DEF rt, lead, health, beat
<1>3. /\ n.rt = rt /\ n.stepped = FALSE /\ n.tx = s.tx
      /\ n.sensors = s.sensors /\ n.assembly = s.assembly
      /\ n.active = s.active /\ n.initialized = s.initialized
  BY <1>1 DEF IsSession
<1>4. n = [rt |-> n.rt, lead |-> n.lead, active |-> n.active, tx |-> n.tx,
          sensors |-> n.sensors, tracker |-> n.tracker,
          samples |-> n.samples, assembly |-> n.assembly,
          points |-> n.points, route |-> n.route,
          initialized |-> n.initialized, command |-> n.command,
          drives |-> n.drives, stepped |-> n.stepped,
          healthAge |-> n.healthAge, beatAge |-> n.beatAge,
          emitted |-> n.emitted]
  BY <1>1 DEF IsSession
<1>5. IsSession(n)
  BY <1>2, <1>3, <1>4 DEF IsSession
<1> QED
  BY <1>2, <1>3, <1>5 DEF Halted

Aging(c) == [c EXCEPT !.fw = K!C!Waited(c.fw, 1)]

LEMMA WaitsController ==
  ASSUME NEW c, IsController(c), NEW d, d = Aging(c)
  PROVE  /\ IsController(d) /\ d.lastStep = c.lastStep
         /\ d.queued = c.queued /\ d.seq = c.seq
         /\ Halted(c.fw) => Halted(d.fw)
<1> DEFINE s == K!C!Waited(c.fw, 1)
<1>1. d = [c EXCEPT !.fw = s]
  BY DEF Aging
<1>2. IsSession(c.fw) /\ c.fw.tx = <<>>
  BY DEF IsController, Numbers
<1>3. /\ IsSession(s) /\ s.tx = c.fw.tx /\ s.sensors = c.fw.sensors
      /\ Halted(c.fw) => Halted(s)
  BY <1>2, WaitsSession
<1> HIDE DEF s
<1>4. /\ d.fw = s /\ d.lastStep = c.lastStep /\ d.queued = c.queued
      /\ d.seq = c.seq
  BY <1>1 DEF IsController, Numbers
<1>5. d = [fw |-> d.fw, seq |-> d.seq, lastStep |-> d.lastStep,
           queued |-> d.queued]
  BY <1>1, <1>4 DEF IsController, Numbers
<1> QED
  BY <1>2, <1>3, <1>4, <1>5 DEF IsController, Numbers

LEMMA WaitsRun ==
  ASSUME NEW r, IsRun(r), NEW n, n = Waited(r)
  PROVE  /\ IsRun(n) /\ n.host.tx = r.host.tx
         /\ n.host.tracker = r.host.tracker /\ n.host.state = r.host.state
         /\ n.host.raised = r.host.raised
         /\ n.tx = r.tx /\ Flight(n) = Flight(r) /\ n.ctl.seq = r.ctl.seq
         /\ n.ctl.lastStep = r.ctl.lastStep /\ n.ctl.queued = r.ctl.queued
         /\ Halted(r.ctl.fw) => Halted(n.ctl.fw)
<1> DEFINE c == Aging(r.ctl)
           h == Older(r.host, 1)
<1>1. n = [r EXCEPT !.ctl = c, !.host = h]
  BY DEF Waited, Aging, IsRun, IsController, Numbers
<1>2. IsController(r.ctl) /\ IsHost(r.host)
  BY DEF IsRun
<1>3. /\ IsController(c) /\ c.lastStep = r.ctl.lastStep
      /\ c.queued = r.ctl.queued /\ c.seq = r.ctl.seq
      /\ Halted(r.ctl.fw) => Halted(c.fw)
  BY <1>2, WaitsController
<1> HIDE DEF c
<1>4. /\ IsHost(h) /\ h.tx = r.host.tx /\ h.raised = r.host.raised
      /\ h.tracker = r.host.tracker /\ h.state = r.host.state
  <2> DEFINE v == Least(r.host.silence + 1, HostPatience + 1)
  <2>1. h = [r.host EXCEPT !.silence = v]
    BY <1>2 DEF Older, IsHost
  <2> HIDE DEF v, h
  <2> QED
    BY <1>2, <2>1, HostChanges DEF IsHost
<1> HIDE DEF h
<1>5. /\ n.ctl = c /\ n.host = h /\ n.tx = r.tx /\ n.rx = r.rx
      /\ n.fault = r.fault /\ n.now = r.now /\ n.answered = r.answered
      /\ n.ready = r.ready
  BY <1>1 DEF IsRun
<1>6. n = [host |-> n.host, tx |-> n.tx, rx |-> n.rx, ctl |-> n.ctl,
           fault |-> n.fault, now |-> n.now, answered |-> n.answered,
           ready |-> n.ready]
  BY <1>1, <1>5 DEF IsRun
<1> QED
  BY <1>3, <1>4, <1>5, <1>6 DEF IsRun, Flight

(* An iteration may begin at step k when the controller has stopped for a. *)
Resting(r, k, a) ==
  IsRun(r) /\ Start(Waiting(r, k), k, a) /\ Waiting(r, k).host.tx = <<>>

Latching(c, a) ==
  IF c.fw.rt.state \in K!C!Latched
    THEN Least(a + 1, CommandTimeout + 2) ELSE 0

LEMMA Latches ==
  ASSUME NEW c, NEW a \in Nat, NEW b, b = Latching(c, a)
  PROVE  /\ b \in Nat /\ b <= a + 1 /\ (~Halted(c.fw) => b = 0)
BY ClosedLoopAssumption DEF Latching, Least, Halted

LEMMA LateRests ==
  ASSUME NEW k \in Nat, NEW a \in Nat, NEW r, Open(r, k, a),
         NEW b, b = Latching(r.ctl, a)
  PROVE  Resting(r, k + 1, b)
<1> DEFINE n == Waited(r)
<1>1. Waiting(r, k + 1) = n
  BY DEF Waiting
<1>2. IsRun(r) /\ UpTo(r.ctl, k)
  BY DEF Open, Late
<1>3. /\ IsRun(n) /\ n.host.tx = <<>> /\ n.host.tracker = r.host.tracker
      /\ n.tx = r.tx /\ Flight(n) = Flight(r)
      /\ n.ctl.lastStep = r.ctl.lastStep /\ n.ctl.queued = r.ctl.queued
      /\ Halted(r.ctl.fw) => Halted(n.ctl.fw)
  BY <1>2, WaitsRun DEF Open
<1> HIDE DEF n
<1>4. b \in Nat /\ b <= a + 1 /\ (~Halted(r.ctl.fw) => b = 0)
  BY Latches
<1>5. Lagging(n.ctl, k + 1)
  BY <1>2, <1>3 DEF Lagging, UpTo, IsRun
<1>6. StoppedSince(n.ctl, b)
  BY <1>3, <1>4 DEF StoppedSince
<1>7. ASSUME NEW f \in Held(n.tx) \cup Before(n.tx)
      PROVE  Prior(f, k + 1) /\ Fits(n.ctl, f, k + 1)
  <2>1. Known(f, k)
    BY <1>3, <1>7 DEF Open, Late
  <2> QED
    BY <2>1 DEF Prior, Known, Fits
<1>8. ASSUME NEW p \in Flight(n) PROVE Bygone(p, k + 1, b)
  <2>1. Lawful(p, r.ctl, k, a)
    BY <1>3, <1>8 DEF Open, Late
  <2>2. Dated(p, k + 1)
    BY <2>1 DEF Lawful, Dated
  <2>3. ASSUME Drive(p) PROVE p.step + b < k + 1
    <3>1. p.step \in 0 .. k
      BY <2>1, <2>3 DEF Lawful, Dated, Drive
    <3>2. p.step + a < k \/ ~Halted(r.ctl.fw)
      BY <2>1, <2>3 DEF Lawful
    <3> QED
      BY <1>4, <3>1, <3>2
  <2> QED
    BY <2>2, <2>3 DEF Bygone
<1>9. Remembers(n.host.tracker, k + 1)
  BY <1>3 DEF Open, Late, Remembers
<1> QED
  BY <1>1, <1>2, <1>3, <1>5, <1>6, <1>7, <1>8, <1>9
     DEF Resting, Start, Early

-----------------------------------------------------------------------------
(* The command that is kept: that of before, or one of those that came and *)
(* were fresh.                                                             *)
Renewed(s, k, m) ==
  \E p \in Range(s) :
    /\ p.type = "Command" /\ EventIsFresh(p, k)
    /\ m = [step |-> p.step, mode |-> p.mode]

LEMMA LastIsOneOf ==
  ASSUME NEW k, NEW s, IsSeq(s), NEW m, m = LastCommand(s, k)
  PROVE  m = last \/ Renewed(s, k, m)
<1> DEFINE n == Len(s)
<1>1. PICK h : CommandRun(h, k, last, s, n)
  BY CommandsRun
<1>2. h[0] = last /\ h[n] = m
  BY <1>1 DEF CommandRun
<1>3. n \in Nat /\ \A i \in 1 .. n : s[i] \in Range(s)
  BY SeqLength
<1> HIDE DEF n
<1> DEFINE Done == {i \in Nat : i <= n => h[i] = last \/ Renewed(s, k, h[i])}
<1>4. 0 \in Done
  BY <1>2
<1>5. ASSUME NEW i \in Nat, i \in Done PROVE i + 1 \in Done
  <2> SUFFICES ASSUME i + 1 <= n
               PROVE  h[i + 1] = last \/ Renewed(s, k, h[i + 1])
    OBVIOUS
  <2>1. i <= n /\ i + 1 \in 1 .. n /\ (i + 1) - 1 = i
    BY <1>3
  <2>2. h[i] = last \/ Renewed(s, k, h[i])
    BY <1>5, <2>1
  <2>3. h[i + 1] = NextCommand(h[i], s[i + 1], k) /\ s[i + 1] \in Range(s)
    BY <1>1, <1>3, <2>1 DEF CommandRun
  <2> QED
    BY <2>2, <2>3 DEF NextCommand, Renewed
<1>6. Nat \subseteq Done
  <2> HIDE DEF Done
  <2> QED
    BY <1>4, <1>5, SetInduction
<1>7. n <= n
  BY <1>3
<1> QED
  BY <1>2, <1>3, <1>6, <1>7

(* It was taken when it was fresh, and it is as old as a drive command     *)
(* that arrives.                                                           *)
Behind(m, c, k, a) ==
  /\ m.step \in {None} \cup 0 .. k
  /\ m.mode = "Tracking" => m.step + a < k \/ ~Halted(c.fw)

LEMMA LastIsBehind ==
  ASSUME NEW k \in Nat, NEW a \in Nat, NEW c, Behind(last, c, k, a),
         NEW s, IsSeq(s), \A p \in Range(s) : Lawful(p, c, k, a),
         NEW m, m = LastCommand(s, k)
  PROVE  Behind(m, c, k, a)
<1>1. CASE m = last
  BY <1>1
<1>2. ASSUME NEW p \in Range(s), p.type = "Command",
             m = [step |-> p.step, mode |-> p.mode]
      PROVE  Behind(m, c, k, a)
  BY <1>2 DEF Lawful, Dated, Drive, Behind
<1> QED
  BY <1>1, <1>2, LastIsOneOf DEF Renewed

(* It is not older than the command before as long as the session lasts,   *)
(* and never by the command timeout.                                       *)
LEMMA LastIsInStep ==
  ASSUME NEW k \in Nat, last.step \in {None} \cup 0 .. k - 1,
         NEW s, IsSeq(s), \A p \in Range(s) : Dated(p, k),
         NEW m, m = LastCommand(s, k)
  PROVE  /\ m.step > last.step - CommandTimeout
         /\ (\A p \in Range(s) : StepBound(p) => p.step >= last.step) =>
              m.step >= last.step
<1>1. CommandTimeout \in Nat \ {0} /\ last.step \in Int /\ last.step < k
  BY ClosedLoopAssumption DEF None
<1>2. CASE m = last
  BY <1>1, <1>2
<1>3. ASSUME NEW p \in Range(s), p.type = "Command", EventIsFresh(p, k),
             m = [step |-> p.step, mode |-> p.mode]
      PROVE  /\ m.step > last.step - CommandTimeout
             /\ (StepBound(p) => p.step >= last.step) =>
                  m.step >= last.step
  <2>1. m.step = p.step /\ p.step \in 0 .. k /\ StepBound(p)
    BY <1>3 DEF Dated, StepBound
  <2>2. k - p.step <= CommandTimeout
    BY <1>3 DEF EventIsFresh
  <2> QED
    BY <1>1, <2>1, <2>2
<1> QED
  BY <1>2, <1>3, LastIsOneOf DEF Renewed

(* The start.                                                              *)
LEMMA BootedIsSession ==
  IsSession(K!C!Booted) /\ K!C!Booted.tx = <<>> /\ ~K!C!Booted.initialized
<1> DEFINE s == K!C!Booted
           rt == K!C!Transition(K!C!Begun, "Ready")
           samples == [i \in S!SensorKind |-> K!C!NoStep]
<1>1. rt \in K!C!RuntimeRecord
  <2>1. 0 \in K!C!Age /\ 0 \in 0 .. OverflowThreshold
    BY ControllerAssumption DEF K!C!Age
  <2> QED
    BY <2>1 DEF K!C!Transition, K!C!Begun, K!C!RuntimeRecord, K!C!SafetyState
<1> HIDE DEF rt, samples
<1>2. /\ s.rt = rt /\ s.active = FALSE /\ s.stepped = TRUE
      /\ s.initialized = FALSE /\ s.sensors = <<>> /\ s.tx = <<>>
      /\ s.assembly = K!C!NoRoute
  BY DEF K!C!Booted, rt
<1>3. s = [rt |-> s.rt, lead |-> s.lead, active |-> s.active, tx |-> s.tx,
          sensors |-> s.sensors, tracker |-> s.tracker,
          samples |-> s.samples, assembly |-> s.assembly,
          points |-> s.points, route |-> s.route,
          initialized |-> s.initialized, command |-> s.command,
          drives |-> s.drives, stepped |-> s.stepped,
          healthAge |-> s.healthAge, beatAge |-> s.beatAge,
          emitted |-> s.emitted]
  BY DEF K!C!Booted
<1>4. s.assembly = [id |-> s.assembly.id, expected |-> s.assembly.expected,
                    received |-> s.assembly.received]
  BY <1>2 DEF K!C!NoRoute
<1>5. IsSeq(s.sensors) /\ Len(s.sensors) <= SensorCapacity
  BY <1>2, NoCells, ControllerAssumption
<1> HIDE DEF s
<1>6. IsSession(s)
  BY <1>1, <1>2, <1>3, <1>4, <1>5 DEF IsSession
<1> QED
  BY <1>2, <1>6 DEF s

LEMMA BootedLags ==
  Lagging(K!Booted, 0)
<1> DEFINE c == K!Booted
           s == K!C!Booted
<1>1. c = [fw |-> s, seq |-> 0, lastStep |-> 0, queued |-> <<>>]
  BY DEF K!Booted
<1>2. IsSession(s) /\ s.tx = <<>> /\ ~s.initialized /\ s.sensors = <<>>
  BY BootedIsSession DEF K!C!Booted
<1> HIDE DEF s, c
<1>3. c.fw = s /\ c.seq = 0 /\ c.lastStep = 0 /\ c.queued = <<>>
  BY <1>1
<1>4. IsSeq(c.queued) /\ Range(c.queued) = {} /\ Len(c.queued) = 0
      /\ Len(s.sensors) = 0
  BY <1>2, <1>3, NoCells
<1>5. IsController(c)
  BY <1>1, <1>2, <1>3, <1>4 DEF IsController, Numbers
<1> QED
  BY <1>2, <1>3, <1>4, <1>5 DEF Lagging, c

LEMMA UnconnectedIsReady ==
  /\ Ready(Unconnected, 0, 0)
  /\ Unconnected.host.state # "Closed" /\ Unconnected.fault = L!Healthy
<1> DEFINE r == Unconnected
<1>1. /\ r.host = Disconnected /\ r.tx = L!Quiet /\ r.rx = L!Quiet
      /\ r.ctl = K!Booted /\ r.fault = L!Healthy /\ r.now = 0
      /\ r.answered = <<>> /\ r.ready = <<>>
      /\ r = [host |-> r.host, tx |-> r.tx, rx |-> r.rx, ctl |-> r.ctl,
              fault |-> r.fault, now |-> r.now, answered |-> r.answered,
              ready |-> r.ready]
  BY DEF Unconnected
<1> HIDE DEF r
<1>2. /\ IsHost(Disconnected) /\ Disconnected.tx = <<>>
      /\ Disconnected.state = "Disconnected"
      /\ Disconnected.tracker = Unseen
  BY DEF Disconnected, IsHost
<1>3. /\ IsDirection(L!Quiet) /\ L!Quiet.previous = L!NoFrame
      /\ Held(L!Quiet) = {} /\ Before(L!Quiet) = {}
  <2>1. L!Quiet.delayed = <<>> /\ L!Quiet.previous = L!NoFrame
    BY DEF L!Quiet
  <2>2. IsSeq(L!Quiet.delayed) /\ Range(L!Quiet.delayed) = {}
    BY <2>1, NoCells
  <2> QED
    BY <2>1, <2>2 DEF IsDirection, Held, Before, L!Quiet
<1>4. IsSeq(r.answered) /\ IsSeq(r.ready)
      /\ Range(r.answered) = {} /\ Range(r.ready) = {}
  BY <1>1, NoCells
<1>5. Lagging(r.ctl, 0)
  BY <1>1, BootedLags
<1>6. IsRun(r)
  BY <1>1, <1>2, <1>3, <1>4, <1>5 DEF IsRun, Lagging
<1>7. Flight(r) = {}
  BY <1>1, <1>3, <1>4 DEF Flight
<1>8. Remembers(r.host.tracker, 0)
  BY <1>1, <1>2 DEF Remembers, Unseen
<1>9. Early(r, 0, 0)
  BY <1>1, <1>3, <1>5, <1>6, <1>7, <1>8 DEF Early, StoppedSince
<1> QED
  BY <1>1, <1>2, <1>9 DEF Ready, r

-----------------------------------------------------------------------------
(* The inductive invariant: as long as the run goes on, nothing that is    *)
(* under way or kept can drive the vehicle with a command as young as the  *)
(* stop that the controller has latched.                                   *)
StopInvariant ==
  /\ step \in Nat /\ latchAge \in Nat
  /\ last.step \in {None} \cup 0 .. step - 1
  /\ driven = "Tracking" => latchAge <= CommandTimeout
  /\ ~failed /\ step <= StepCount =>
       /\ Resting(run, step, latchAge)
       /\ last.mode = "Tracking" => last.step + latchAge < step

LEMMA ReadyRests ==
  ASSUME NEW r, Ready(r, 0, 0)
  PROVE  Resting(r, 0, 0)
<1>1. Waiting(r, 0) = r
  BY DEF Waiting
<1>2. \A f \in Held(r.tx) : Fits(r.ctl, f, 0)
  BY DEF Ready, Early, Prior, Known, Fits
<1> QED
  BY <1>1, <1>2 DEF Ready, Resting, Start, Early

LEMMA StopInit ==
  ASSUME Init
  PROVE  StopInvariant
<1> DEFINE r == Connected(Unconnected, 0)
<1>1. /\ step = 0 /\ latchAge = 0 /\ driven = "Neutral"
      /\ last.mode = "Neutral" /\ last.step = None /\ run = r
  BY DEF Init, NoCommand
<1>2. Ready(r, 0, 0)
  BY UnconnectedIsReady, ConnectsEarly
<1> HIDE DEF r
<1>3. Resting(r, 0, 0)
  BY <1>2, ReadyRests
<1> QED
  BY <1>1, <1>3 DEF StopInvariant

(* The age of the command the plant is given bounds that of the stop.      *)
LEMMA BehindIsOld ==
  ASSUME NEW k \in Nat, NEW a \in Nat, NEW c, NEW m, Behind(m, c, k, a),
         NEW b, b = Latching(c, a)
  PROVE  /\ m.step \in {None} \cup 0 .. k
         /\ m.mode = "Tracking" => m.step + b < k + 1
         /\ Effective(m, k) = "Tracking" => b <= CommandTimeout
<1>1. b \in Nat /\ b <= a + 1 /\ (~Halted(c.fw) => b = 0)
  BY Latches
<1>2. /\ m.step \in {None} \cup 0 .. k
      /\ m.mode = "Tracking" => m.step + b < k + 1
  BY <1>1 DEF Behind, None
<1>3. ASSUME Effective(m, k) = "Tracking" PROVE b <= CommandTimeout
  <2>1. CommandIsFresh(m, k) /\ m.mode = "Tracking"
    BY <1>3 DEF Effective, HostStop
  <2>2. /\ m.step \in 0 .. k /\ m.step + b < k + 1
        /\ k - m.step <= CommandTimeout
    BY <1>2, <2>1 DEF CommandIsFresh
  <2> QED
    BY <1>1, <2>2, ClosedLoopAssumption
<1> QED
  BY <1>2, <1>3

LEMMA StopIterate ==
  ASSUME StopInvariant, ~failed, step <= StepCount,
         NEW e, Exchangeable(e, step, latchAge), Iterate(e)
  PROVE  StopInvariant'
<1> DEFINE m == LastCommand(e.events, step)
           b == Latching(e.run.ctl, latchAge)
<1>1. /\ step \in Nat /\ latchAge \in Nat
      /\ Resting(run, step, latchAge)
      /\ last.step \in {None} \cup 0 .. step - 1
      /\ last.mode = "Tracking" => last.step + latchAge < step
  BY DEF StopInvariant
<1>2. /\ last' = m /\ driven' = Effective(m, step) /\ latchAge' = b
      /\ step' = step + 1
      /\ ~failed' => run' = e.run
  BY DEF Iterate, Commanded, Latching
<1>3. Behind(last, e.run.ctl, step, latchAge)
  BY <1>1 DEF Behind
<1>4. Behind(m, e.run.ctl, step, latchAge)
  BY <1>1, <1>3, LastIsBehind DEF Exchangeable
<1> HIDE DEF m
<1>5. b \in Nat
  BY <1>1, Latches
<1>6. Resting(e.run, step + 1, b)
  BY <1>1, LateRests DEF Exchangeable
<1> HIDE DEF b
<1>7. /\ m.step \in {None} \cup 0 .. step
      /\ m.mode = "Tracking" => m.step + b < step + 1
      /\ Effective(m, step) = "Tracking" => b <= CommandTimeout
  BY <1>1, <1>4, BehindIsOld DEF b
<1>8. step + 1 \in Nat /\ (step + 1) - 1 = step
  BY <1>1
<1> QED
  BY <1>2, <1>5, <1>6, <1>7, <1>8 DEF StopInvariant

LEMMA StopStep ==
  ASSUME StopInvariant, Step
  PROVE  StopInvariant'
<1> DEFINE begun == Begun(run, step)
           r == Stopped(begun, step)
           samples == ToSet(S!Stepped(sensors, scenario.faults, step).out)
           e == Exchanged(r, step, samples)
<1>1. step <= StepCount /\ ~failed /\ Exchange(r, samples)
  BY DEF Step, Iteration
<1>2. step \in Nat /\ latchAge \in Nat /\ Resting(run, step, latchAge)
  BY <1>1 DEF StopInvariant
<1>3. Ready(begun, step, latchAge)
  BY <1>2, BeginsEarly DEF Resting
<1> HIDE DEF begun
<1>4. Ready(r, step, latchAge)
  BY <1>2, <1>3, StopsEarly
<1> HIDE DEF r, samples
<1>5. Exchangeable(e, step, latchAge)
  BY <1>2, <1>4, ExchangesLate
<1>6. CASE r.host.raised
  <2>1. Fail
    BY <1>1, <1>6 DEF Exchange
  <2> QED
    BY <2>1 DEF Fail, StopInvariant
<1>7. CASE ~r.host.raised
  <2>1. Iterate(e)
    BY <1>1, <1>7 DEF Exchange
  <2> HIDE DEF e
  <2> QED
    BY <1>1, <1>5, <2>1, StopIterate
<1> QED
  BY <1>6, <1>7

LEMMA StopNext ==
  ASSUME StopInvariant, [Next]_vars
  PROVE  StopInvariant'
<1>1. CASE Step
  BY <1>1, StopStep
<1>2. CASE Finish
  <2>1. /\ step = StepCount + 1 /\ step' = step + 1
        /\ latchAge' = latchAge /\ driven' = driven
    BY <1>2 DEF Finish
  <2>2. step' \in Nat /\ ~(step' <= StepCount)
        /\ step \in 0 .. step' - 1
    BY <2>1, ClosedLoopAssumption
  <2>3. last'.step \in {None} \cup 0 .. step' - 1
    BY <1>2, <2>1, <2>2 DEF StopInvariant, Finish
  <2> QED
    BY <2>1, <2>2, <2>3 DEF StopInvariant
<1>3. CASE UNCHANGED vars
  BY <1>3 DEF vars, StopInvariant
<1> QED
  BY <1>1, <1>2, <1>3 DEF Next

(* A stop the controller has latched reaches the plant within the command  *)
(* timeout (the command guard of run_closed_loop), whatever the link does. *)
THEOREM StopReaches == Spec => []StopReachesPlant
<1>1. Init => StopInvariant
  BY StopInit
<1>2. StopInvariant /\ [Next]_vars => StopInvariant'
  BY StopNext
<1>3. StopInvariant => StopReachesPlant
  BY ClosedLoopAssumption DEF StopInvariant, StopReachesPlant
<1> QED
  BY <1>1, <1>2, <1>3, PTL DEF Spec

(* An iteration takes no command that is older than the one before it, as  *)
(* long as its session lasts.                                              *)
LEMMA StepInOrder ==
  ASSUME 2 * StepCount < SeqSize, StopInvariant, Step
  PROVE  \/ last'.step >= last.step
         \/ Superseded /\ last'.step > last.step - CommandTimeout
<1> DEFINE w == Waiting(run, step)
           begun == Begun(run, step)
           r == Stopped(begun, step)
           samples == ToSet(S!Stepped(sensors, scenario.faults, step).out)
           e == Exchanged(r, step, samples)
           m == LastCommand(e.events, step)
<1>1. step <= StepCount /\ ~failed /\ Exchange(r, samples)
  BY DEF Step, Iteration
<1>2. /\ step \in Nat /\ latchAge \in Nat /\ Start(w, step, latchAge)
      /\ w.host.tx = <<>> /\ last.step \in {None} \cup 0 .. step - 1
  BY <1>1 DEF StopInvariant, Resting
<1>3. /\ w.host.tracker = run.host.tracker
      /\ w.host.state = run.host.state
      /\ Remembers(run.host.tracker, step)
  <2>1. IsRun(run) /\ Remembers(w.host.tracker, step)
    BY <1>1, <1>2 DEF StopInvariant, Resting, Start, Early
  <2>2. w = run \/ w = Waited(run)
    BY DEF Waiting
  <2> HIDE DEF w
  <2>3. w.host.tracker = run.host.tracker /\ w.host.state = run.host.state
    BY <2>1, <2>2, WaitsRun
  <2> QED
    BY <2>1, <2>3
<1>4. /\ Ready(begun, step, latchAge)
      /\ w.host.state # "TimedOut" => begun.host.tracker = w.host.tracker
  BY <1>2, BeginsEarly
<1> HIDE DEF w, begun
<1>5. Ready(r, step, latchAge) /\ r.host.tracker = begun.host.tracker
  BY <1>2, <1>4, StopsEarly
<1> HIDE DEF r, samples
<1>6. Exchangeable(e, step, latchAge)
      /\ InStep(r.host, step, e.run.host, e.events)
  BY <1>2, <1>5, ExchangesLate
<1> HIDE DEF e
<1>7. /\ m.step > last.step - CommandTimeout
      /\ (\A p \in Range(e.events) : StepBound(p) => p.step >= last.step) =>
           m.step >= last.step
  <2>1. IsSeq(e.events) /\ \A p \in Range(e.events) : Dated(p, step)
    BY <1>6 DEF Exchangeable, Lawful
  <2> QED
    BY <1>2, <2>1, LastIsInStep
<1> HIDE DEF m
<1>8. last' = last \/ last' = m
  BY <1>1 DEF Exchange, Fail, Iterate, Commanded, m, e
<1>9. ASSUME ~Superseded PROVE m.step >= last.step
  <2>1. /\ run.host.state # "TimedOut"
        /\ ~(run.host.tracker.step < last.step)
    BY <1>9 DEF Superseded
  <2>2. r.host.tracker = run.host.tracker
    BY <1>3, <1>4, <1>5, <2>1
  <2>3. r.host.tracker.step \in Int /\ r.host.tracker.step >= last.step
    BY <1>2, <1>3, <2>1, <2>2 DEF Remembers, None
  <2>4. 2 * step < SeqSize
    BY <1>1, <1>2, ClosedLoopAssumption, HostSessionAssumption
  <2>5. ASSUME NEW p \in Range(e.events), StepBound(p)
        PROVE  p.step >= last.step
    <3>1. p.step \in 0 .. step
      BY <1>6, <2>5 DEF Exchangeable, Lawful, Dated, StepBound
    <3>2. p.step >= r.host.tracker.step
      BY <1>6, <2>4, <2>5 DEF InStep
    <3> QED
      BY <1>2, <2>3, <3>1, <3>2 DEF None
  <2> QED
    BY <1>7, <2>5
<1>10. last.step >= last.step
  BY <1>2 DEF None
<1> QED
  BY <1>7, <1>8, <1>9, <1>10

(* The plant never goes back to an older command while the session lasts   *)
(* that it came in, and never by the command timeout                       *)
(* (_controller_event_is_fresh, SequenceTracker of protocol.py), if half   *)
(* of the step ids suffice for the run.                                    *)
THEOREM CommandsGoOn ==
  ASSUME 2 * StepCount < SeqSize
  PROVE  Spec => CommandsInOrder
<1> DEFINE Ordered == \/ last'.step >= last.step
                      \/ /\ Superseded
                         /\ last'.step > last.step - CommandTimeout
<1>1. Init => StopInvariant
  BY StopInit
<1>2. StopInvariant /\ [Next]_vars => StopInvariant'
  BY StopNext
<1>3. StopInvariant /\ [Next]_vars => [Ordered]_vars
  <2> SUFFICES ASSUME StopInvariant, [Next]_vars PROVE [Ordered]_vars
    OBVIOUS
  <2>1. CASE Step
    BY <2>1, StepInOrder
  <2>2. CASE Finish
    <3>1. last' = last /\ last.step >= last.step
      BY <2>2 DEF Finish, StopInvariant, None
    <3> QED
      BY <3>1
  <2>3. CASE UNCHANGED vars
    BY <2>3
  <2> QED
    BY <2>1, <2>2, <2>3 DEF Next
<1> QED
  BY <1>1, <1>2, <1>3, PTL DEF Spec, CommandsInOrder

-----------------------------------------------------------------------------
(* The samples: every one that was generated has been delivered, dropped,  *)
(* or is under way, and none twice.                                        *)
Kinds == Range(SensorOrder)
UnderWay(pending, s) == {m \in pending : m.sensor = s}

IsPipe(p) ==
  /\ p = [pending |-> p.pending, ordinal |-> p.ordinal,
          generated |-> p.generated, delivered |-> p.delivered,
          dropped |-> p.dropped]
  /\ IsFiniteSet(p.pending) /\ p.ordinal \in Nat
  /\ \A m \in p.pending : m.ordinal \in Nat /\ m.ordinal <= p.ordinal
  /\ p.generated \in [Kinds -> Nat]
  /\ p.delivered \in [Kinds -> Nat] /\ p.dropped \in [Kinds -> Nat]

Balanced(p) ==
  \A s \in Kinds :
    p.generated[s] = p.delivered[s] + p.dropped[s]
                       + Cardinality(UnderWay(p.pending, s))

Accounted(p) == IsPipe(p) /\ Balanced(p)

LEMMA SameNotions ==
  /\ S!SensorKind = Kinds
  /\ \A x : S!Cardinality(x) = Cardinality(x)
<1>1. S!SensorKind = Kinds
  BY DEF S!SensorKind, S!ToSet, Range, Kinds
<1>2. \A x : S!Cardinality(x) = Cardinality(x)
  BY DEF S!Cardinality, Cardinality
<1> QED
  BY <1>1, <1>2

LEMMA UnderWayFinite ==
  ASSUME NEW pending, IsFiniteSet(pending), NEW s
  PROVE  /\ IsFiniteSet(UnderWay(pending, s))
         /\ Cardinality(UnderWay(pending, s)) \in Nat
<1>1. UnderWay(pending, s) \in SUBSET pending
  BY DEF UnderWay
<1>2. IsFiniteSet(UnderWay(pending, s))
  BY <1>1, FS_Subset
<1> QED
  BY <1>2, FS_CardinalityType

LEMMA FreshAccounted == Accounted(S!Fresh)
<1> DEFINE p == S!Fresh
           none == S!NoSamples
<1>1. none \in [Kinds -> Nat] /\ \A s \in Kinds : none[s] = 0
  BY SameNotions DEF S!NoSamples
<1>2. p = [pending |-> {}, ordinal |-> 0, generated |-> none,
           delivered |-> none, dropped |-> none]
  BY DEF S!Fresh
<1> HIDE DEF p, none
<1>3. /\ p.pending = {} /\ p.ordinal = 0 /\ p.generated = none
      /\ p.delivered = none /\ p.dropped = none
  BY <1>2
<1>4. IsPipe(p)
  BY <1>1, <1>2, <1>3, FS_EmptySet DEF IsPipe
<1>5. ASSUME NEW s \in Kinds
      PROVE  Cardinality(UnderWay(p.pending, s)) = 0
  <2>1. UnderWay(p.pending, s) = {}
    BY <1>3 DEF UnderWay
  <2> QED
    BY <2>1, FS_EmptySet
<1>6. Balanced(p)
  BY <1>1, <1>3, <1>5 DEF Balanced
<1> QED
  BY <1>4, <1>6 DEF Accounted, p

OneUp(f, s) == [f EXCEPT ![s] = @ + 1]

LEMMA DropsSample ==
  ASSUME NEW p, Accounted(p), NEW s \in Kinds,
         NEW n, n = [p EXCEPT !.generated = OneUp(p.generated, s),
                              !.dropped = OneUp(p.dropped, s)]
  PROVE  Accounted(n)
<1> DEFINE g == OneUp(p.generated, s)
           d == OneUp(p.dropped, s)
<1>1. n = [p EXCEPT !.generated = g, !.dropped = d]
  OBVIOUS
<1>2. /\ g \in [Kinds -> Nat] /\ d \in [Kinds -> Nat]
      /\ g[s] = p.generated[s] + 1 /\ d[s] = p.dropped[s] + 1
      /\ \A t \in Kinds \ {s} :
           g[t] = p.generated[t] /\ d[t] = p.dropped[t]
  BY DEF Accounted, IsPipe, OneUp
<1> HIDE DEF g, d
<1>3. /\ n.generated = g /\ n.dropped = d /\ n.pending = p.pending
      /\ n.delivered = p.delivered /\ n.ordinal = p.ordinal
  BY <1>1 DEF Accounted, IsPipe
<1>4. IsPipe(n)
  <2>1. n = [pending |-> n.pending, ordinal |-> n.ordinal,
             generated |-> n.generated, delivered |-> n.delivered,
             dropped |-> n.dropped]
    BY <1>1, <1>3 DEF Accounted, IsPipe
  <2> QED
    BY <1>2, <1>3, <2>1 DEF Accounted, IsPipe
<1>5. ASSUME NEW t \in Kinds
      PROVE  n.generated[t] = n.delivered[t] + n.dropped[t]
                                + Cardinality(UnderWay(n.pending, t))
  <2> DEFINE c == Cardinality(UnderWay(p.pending, t))
  <2>1. c \in Nat /\ p.delivered[t] \in Nat /\ p.dropped[t] \in Nat
    BY UnderWayFinite DEF Accounted, IsPipe
  <2>2. p.generated[t] = p.delivered[t] + p.dropped[t] + c
    BY DEF Accounted, Balanced
  <2> HIDE DEF c
  <2>3. g[t] = p.delivered[t] + d[t] + c
    BY <1>2, <2>1, <2>2
  <2> QED
    BY <1>3, <2>3 DEF c
<1> QED
  BY <1>4, <1>5 DEF Accounted, Balanced

LEMMA TakesSample ==
  ASSUME NEW p, Accounted(p), NEW s \in Kinds,
         NEW m, m.ordinal = p.ordinal + 1, m.sensor = s,
         NEW n, n = [p EXCEPT !.generated = OneUp(p.generated, s),
                              !.ordinal = p.ordinal + 1,
                              !.pending = p.pending \cup {m}]
  PROVE  Accounted(n)
<1> DEFINE g == OneUp(p.generated, s)
           q == p.pending \cup {m}
           o == p.ordinal + 1
<1>1. n = [p EXCEPT !.generated = g, !.ordinal = o, !.pending = q]
  OBVIOUS
<1>2. /\ g \in [Kinds -> Nat] /\ g[s] = p.generated[s] + 1
      /\ \A t \in Kinds \ {s} : g[t] = p.generated[t]
  BY DEF Accounted, IsPipe, OneUp
<1>3. m \notin p.pending
  BY DEF Accounted, IsPipe
<1>4. IsFiniteSet(q)
  BY FS_AddElement DEF Accounted, IsPipe
<1>5. o \in Nat /\ \A x \in q : x.ordinal \in Nat /\ x.ordinal <= o
  BY DEF Accounted, IsPipe
<1>6. ASSUME NEW t \in Kinds
      PROVE  Cardinality(UnderWay(q, t))
               = Cardinality(UnderWay(p.pending, t))
                   + (IF t = s THEN 1 ELSE 0)
  <2>1. /\ IsFiniteSet(UnderWay(p.pending, t))
        /\ Cardinality(UnderWay(p.pending, t)) \in Nat
    BY UnderWayFinite DEF Accounted, IsPipe
  <2>2. CASE t = s
    <3>1. UnderWay(q, t) = UnderWay(p.pending, t) \cup {m}
      BY <2>2 DEF UnderWay
    <3>2. m \notin UnderWay(p.pending, t)
      BY <1>3 DEF UnderWay
    <3>3. Cardinality(UnderWay(p.pending, t) \cup {m})
            = Cardinality(UnderWay(p.pending, t)) + 1
      BY <2>1, <3>2, FS_AddElement
    <3> HIDE DEF q
    <3> QED
      BY <2>2, <3>1, <3>3
  <2>3. CASE t # s
    <3>1. UnderWay(q, t) = UnderWay(p.pending, t)
      BY <2>3 DEF UnderWay
    <3> QED
      BY <2>1, <2>3, <3>1
  <2> QED
    BY <2>2, <2>3
<1> HIDE DEF g, q, o
<1>7. /\ n.generated = g /\ n.dropped = p.dropped /\ n.pending = q
      /\ n.delivered = p.delivered /\ n.ordinal = o
  BY <1>1 DEF Accounted, IsPipe
<1>8. IsPipe(n)
  <2>1. n = [pending |-> n.pending, ordinal |-> n.ordinal,
             generated |-> n.generated, delivered |-> n.delivered,
             dropped |-> n.dropped]
    BY <1>1, <1>7 DEF Accounted, IsPipe
  <2> QED
    BY <1>2, <1>4, <1>5, <1>7, <2>1 DEF Accounted, IsPipe
<1>9. ASSUME NEW t \in Kinds
      PROVE  n.generated[t] = n.delivered[t] + n.dropped[t]
                                + Cardinality(UnderWay(n.pending, t))
  <2> DEFINE c == Cardinality(UnderWay(p.pending, t))
             e == Cardinality(UnderWay(q, t))
  <2>1. c \in Nat /\ p.delivered[t] \in Nat /\ p.dropped[t] \in Nat
    BY UnderWayFinite DEF Accounted, IsPipe
  <2>2. p.generated[t] = p.delivered[t] + p.dropped[t] + c
    BY DEF Accounted, Balanced
  <2>3. e = c + (IF t = s THEN 1 ELSE 0)
    BY <1>6
  <2> HIDE DEF c, e
  <2>4. g[t] = p.generated[t] + (IF t = s THEN 1 ELSE 0)
    <3>1. CASE t = s
      BY <1>2, <3>1
    <3>2. CASE t # s
      BY <1>2, <2>1, <2>2, <3>2
    <3> QED
      BY <3>1, <3>2
  <2>5. g[t] = p.delivered[t] + p.dropped[t] + e
    BY <2>1, <2>2, <2>3, <2>4
  <2> QED
    BY <1>7, <2>5 DEF e
<1> QED
  BY <1>8, <1>9 DEF Accounted, Balanced

-----------------------------------------------------------------------------
LEMMA SamplesOneAccounted ==
  ASSUME NEW p, Accounted(p), NEW faults, NEW k, NEW s \in Kinds,
         NEW n, n = S!SampledOne(p, faults, s, k)
  PROVE  Accounted(n)
<1> DEFINE g == OneUp(p.generated, s)
           d == OneUp(p.dropped, s)
           m == [due |-> S!Delivery(faults, s, k), ordinal |-> p.ordinal + 1,
                 sensor |-> s, step |-> k]
           counted == [p EXCEPT !.generated = g]
<1>1. counted = [p EXCEPT !.generated[s] = @ + 1]
  BY DEF OneUp, Accounted, IsPipe
<1>2. /\ counted.generated = g /\ counted.dropped = p.dropped
      /\ counted.pending = p.pending /\ counted.ordinal = p.ordinal
      /\ counted.delivered = p.delivered
  BY DEF Accounted, IsPipe
<1>3. \/ n = p
      \/ n = [counted EXCEPT !.dropped[s] = @ + 1]
      \/ n = [counted EXCEPT !.ordinal = @ + 1, !.pending = @ \cup {m}]
  BY <1>1 DEF S!SampledOne, S!RecordOrDrop
<1>4. m.ordinal = p.ordinal + 1 /\ m.sensor = s
  OBVIOUS
<1> HIDE DEF m
<1>5. CASE n = p
  BY <1>5
<1>6. CASE n = [counted EXCEPT !.dropped[s] = @ + 1]
  <2>1. n = [p EXCEPT !.generated = g, !.dropped = d]
    BY <1>2, <1>6 DEF OneUp, Accounted, IsPipe
  <2> QED
    BY <2>1, DropsSample
<1>7. CASE n = [counted EXCEPT !.ordinal = @ + 1, !.pending = @ \cup {m}]
  <2>1. n = [p EXCEPT !.generated = g, !.ordinal = p.ordinal + 1,
                      !.pending = p.pending \cup {m}]
    BY <1>2, <1>7 DEF Accounted, IsPipe
  <2> QED
    BY <1>4, <2>1, TakesSample
<1> QED
  BY <1>3, <1>5, <1>6, <1>7

LEMMA OrderedSensors ==
  IsSeq(SensorOrder) /\ Kinds = ToSet(SensorOrder)
<1>1. SensorOrder \in Seq(ToSet(SensorOrder))
  BY ClosedLoopAssumption
<1>2. Kinds = ToSet(SensorOrder)
  BY DEF Kinds, Range, ToSet
<1> QED
  BY <1>1, <1>2, SeqOver

LEMMA SamplesAccounted ==
  ASSUME NEW p, Accounted(p), NEW faults, NEW k
  PROVE  Accounted(S!Sampled(p, faults, k))
<1> DEFINE s == SensorOrder
           n == Len(s)
<1>1. IsSeq(s)
  BY OrderedSensors
<1>2. PICK h : SampleRun(h, faults, k, p, s, n)
  BY <1>1, SamplesRun
<1>3. n \in Nat /\ \A i \in 1 .. n : s[i] \in Kinds
  BY <1>1, SeqLength DEF Kinds
<1>4. h[0] = p /\ h[n] = S!Sampled(p, faults, k)
  BY <1>2 DEF SampleRun
<1> HIDE DEF n, s
<1> DEFINE Done == {i \in Nat : i <= n => Accounted(h[i])}
<1>5. 0 \in Done
  BY <1>4
<1>6. ASSUME NEW i \in Nat, i \in Done PROVE i + 1 \in Done
  <2> SUFFICES ASSUME i + 1 <= n PROVE Accounted(h[i + 1])
    OBVIOUS
  <2>1. i <= n /\ i + 1 \in 1 .. n /\ (i + 1) - 1 = i
    BY <1>3
  <2>2. Accounted(h[i]) /\ s[i + 1] \in Kinds
    BY <1>3, <1>6, <2>1
  <2>3. h[i + 1] = S!SampledOne(h[i], faults, s[i + 1], k)
    BY <1>2, <2>1 DEF SampleRun
  <2> QED
    BY <2>2, <2>3, SamplesOneAccounted
<1>7. Nat \subseteq Done
  <2> HIDE DEF Done
  <2> QED
    BY <1>5, <1>6, SetInduction
<1>8. Accounted(h[n])
  <2>1. n <= n
    BY <1>3
  <2> QED
    BY <1>3, <1>7, <2>1
<1> QED
  BY <1>4, <1>8

(* What leaves the heap is delivered.                                      *)
LEMMA PopsAccounted ==
  ASSUME NEW p, Accounted(p), NEW samples \in SUBSET p.pending,
         NEW n, n = S!Popped(p, samples).pipe
  PROVE  Accounted(n) /\ n.pending = p.pending \ samples
<1> DEFINE out(s) == Cardinality(UnderWay(samples, s))
           d == [s \in Kinds |-> p.delivered[s] + out(s)]
           q == p.pending \ samples
<1>1. n = [p EXCEPT !.pending = q, !.delivered = d]
  BY SameNotions DEF S!Popped, UnderWay, Accounted, IsPipe
<1>2. ASSUME NEW s \in Kinds
      PROVE  /\ out(s) \in Nat
             /\ Cardinality(UnderWay(p.pending, s)) \in Nat
             /\ Cardinality(UnderWay(q, s))
                  = Cardinality(UnderWay(p.pending, s)) - out(s)
  <2> DEFINE all == UnderWay(p.pending, s)
  <2>1. IsFiniteSet(all) /\ Cardinality(all) \in Nat
    BY UnderWayFinite DEF Accounted, IsPipe
  <2>2. /\ UnderWay(samples, s) = all \cap samples
        /\ UnderWay(q, s) = all \ samples
    BY DEF UnderWay
  <2>3. IsFiniteSet(samples)
    BY FS_Subset DEF Accounted, IsPipe
  <2>4. out(s) \in Nat
    BY <2>3, UnderWayFinite
  <2> HIDE DEF all
  <2>5. Cardinality(all \ samples)
          = Cardinality(all) - Cardinality(all \cap samples)
    BY <2>1, FS_Difference
  <2> QED
    BY <2>1, <2>2, <2>4, <2>5 DEF all
<1>3. IsFiniteSet(q)
  BY FS_Subset DEF Accounted, IsPipe
<1>4. d \in [Kinds -> Nat] /\ \A s \in Kinds : d[s] = p.delivered[s] + out(s)
  BY <1>2 DEF Accounted, IsPipe
<1>5. \A m \in q : m \in p.pending
  OBVIOUS
<1> HIDE DEF d, q
<1>6. /\ n.generated = p.generated /\ n.dropped = p.dropped
      /\ n.pending = q /\ n.delivered = d /\ n.ordinal = p.ordinal
  BY <1>1 DEF Accounted, IsPipe
<1>7. IsPipe(n)
  <2>1. n = [pending |-> n.pending, ordinal |-> n.ordinal,
             generated |-> n.generated, delivered |-> n.delivered,
             dropped |-> n.dropped]
    BY <1>1, <1>6 DEF Accounted, IsPipe
  <2> QED
    BY <1>3, <1>4, <1>5, <1>6, <2>1 DEF Accounted, IsPipe
<1>8. ASSUME NEW s \in Kinds
      PROVE  n.generated[s] = n.delivered[s] + n.dropped[s]
                                + Cardinality(UnderWay(n.pending, s))
  <2> DEFINE c == Cardinality(UnderWay(p.pending, s))
             e == Cardinality(UnderWay(q, s))
             o == out(s)
  <2>1. p.delivered[s] \in Nat /\ p.dropped[s] \in Nat
    BY DEF Accounted, IsPipe
  <2>2. p.generated[s] = p.delivered[s] + p.dropped[s] + c
    BY DEF Accounted, Balanced
  <2>3. c \in Nat /\ o \in Nat /\ e = c - o /\ d[s] = p.delivered[s] + o
    BY <1>2, <1>4
  <2> HIDE DEF c, e, o
  <2>4. p.generated[s] = d[s] + p.dropped[s] + e
    BY <2>1, <2>2, <2>3
  <2> QED
    BY <1>6, <2>4 DEF e
<1> QED
  BY <1>6, <1>7, <1>8 DEF Accounted, Balanced, q

LEMMA StepsAccounted ==
  ASSUME NEW p, Accounted(p), NEW faults, NEW k
  PROVE  Accounted(S!Stepped(p, faults, k).pipe)
<1> DEFINE q == S!Sampled(p, faults, k)
           due == S!DueBy(q, k)
<1>1. Accounted(q)
  BY SamplesAccounted
<1>2. S!Stepped(p, faults, k) = S!Popped(q, due)
  BY DEF S!Stepped
<1> HIDE DEF q
<1>3. due \in SUBSET q.pending
  BY DEF S!DueBy
<1> QED
  BY <1>1, <1>2, <1>3, PopsAccounted

LEMMA DrainsAccounted ==
  ASSUME NEW p, Accounted(p), NEW n, n = S!Drained(p).pipe
  PROVE  Accounted(n) /\ n.pending = {}
<1>1. n = S!Popped(p, p.pending).pipe
  BY DEF S!Drained
<1> QED
  BY <1>1, PopsAccounted

(* The inductive invariant of the samples.                                 *)
SampleInvariant ==
  /\ step \in Int
  /\ Accounted(sensors)
  /\ step = StepCount + 2 => sensors.pending = {}

LEMMA SampleNext ==
  ASSUME SampleInvariant, [Next]_vars
  PROVE  SampleInvariant'
<1>1. CASE Step
  <2>1. /\ step <= StepCount
        /\ sensors' = S!Stepped(sensors, scenario.faults, step).pipe
        /\ step' = step \/ step' = step + 1
    BY <1>1 DEF Step, Iteration, Exchange, Fail, Iterate
  <2>2. Accounted(sensors')
    BY <2>1, StepsAccounted DEF SampleInvariant
  <2>3. step' \in Int /\ step' # StepCount + 2
    BY <2>1, ClosedLoopAssumption DEF SampleInvariant
  <2> QED
    BY <2>2, <2>3 DEF SampleInvariant
<1>2. CASE Finish
  <2>1. step' = step + 1 /\ sensors' = S!Drained(sensors).pipe
    BY <1>2 DEF Finish
  <2>2. Accounted(sensors') /\ sensors'.pending = {}
    BY <2>1, DrainsAccounted DEF SampleInvariant
  <2> QED
    BY <2>1, <2>2 DEF SampleInvariant
<1>3. CASE UNCHANGED vars
  BY <1>3 DEF vars, SampleInvariant
<1> QED
  BY <1>1, <1>2, <1>3 DEF Next

LEMMA SampleEnd ==
  ASSUME SampleInvariant
  PROVE  SamplesLogged
<1> SUFFICES ASSUME step = StepCount + 2, NEW s \in S!SensorKind
             PROVE  sensors.generated[s]
                      = sensors.delivered[s] + sensors.dropped[s]
  BY DEF SamplesLogged
<1>1. s \in Kinds /\ sensors.pending = {} /\ Accounted(sensors)
  BY SameNotions DEF SampleInvariant
<1>2. UnderWay(sensors.pending, s) = {}
  BY <1>1 DEF UnderWay
<1>3. Cardinality(UnderWay(sensors.pending, s)) = 0
  BY <1>2, FS_EmptySet
<1>4. sensors.delivered[s] \in Nat /\ sensors.dropped[s] \in Nat
  BY <1>1 DEF Accounted, IsPipe
<1> QED
  BY <1>1, <1>3, <1>4 DEF Accounted, Balanced

(* Every sample that was not dropped is logged when the run ends.          *)
THEOREM SamplesAreLogged == Spec => []SamplesLogged
<1>1. Init => SampleInvariant
  BY FreshAccounted, ClosedLoopAssumption DEF Init, SampleInvariant
<1>2. SampleInvariant /\ [Next]_vars => SampleInvariant'
  BY SampleNext
<1>3. SampleInvariant => SamplesLogged
  BY SampleEnd
<1> QED
  BY <1>1, <1>2, <1>3, PTL DEF Spec
-----------------------------------------------------------------------------
(* The run completes: no exception ends it, as long as the session does    *)
(* not go through half of the sequence numbers.  The host takes every      *)
(* acknowledgement after the first frame of a session as older then, and   *)
(* never as an error.                                                      *)
(*                                                                         *)
(* Each frame that reaches the controller, and each tick, moves its        *)
(* counter on by no more than a call may send.  The frames that the link   *)
(* delays are counted in advance.                                          *)
Weight(x) == 2 * TxCapacity * x

LEMMA Weighs ==
  ASSUME NEW x \in Nat, NEW y \in Nat
  PROVE  /\ Weight(x) \in Nat /\ Weight(0) = 0 /\ Weight(1) = 2 * TxCapacity
         /\ Weight(x + y) = Weight(x) + Weight(y)
<1>1. TxCapacity \in Nat
  BY ControllerAssumption
<1> DEFINE t == TxCapacity
<1>2. t * x \in Nat /\ t * (x + y) = t * x + t * y
  <2> HIDE DEF t
  <2>1. t \in Nat
    BY <1>1 DEF t
  <2> QED
    BY <2>1
<1> QED
  BY <1>1, <1>2 DEF Weight

LEMMA WeighsMore ==
  ASSUME NEW x \in Nat, NEW y \in Nat, x <= y
  PROVE  Weight(x) <= Weight(y)
<1>1. y - x \in Nat /\ y = x + (y - x)
  OBVIOUS
<1>2. Weight(y) = Weight(x) + Weight(y - x)
  BY <1>1, Weighs
<1>3. Weight(x) \in Nat /\ Weight(y - x) \in Nat
  BY <1>1, Weighs
<1> QED
  BY <1>2, <1>3

Queued(r) == Len(r.tx.delayed)

(* What the host reads without an error, and a run whose counter stays     *)
(* within b, with m frames that are still to be delivered.                 *)
Heeded(p) ==
  p.type # "Corrupt" =>
    /\ p.seq \in Nat /\ 2 * p.seq < SeqSize /\ p.decodes
    /\ p.type = "HelloAck" => p.ok /\ p.seq = 0

Within(r, m, b) ==
  /\ IsRun(r)
  /\ \A f \in Held(r.tx) \cup Before(r.tx) : Own(f)
  /\ r.ctl.seq + Weight(Queued(r) + m) <= b
  /\ \A p \in Flight(r) : Heeded(p)

Bound(b) == b \in Nat /\ 2 * b < SeqSize

LEMMA CorruptedIsHeeded == Own(L!Corrupted) /\ Heeded(L!Corrupted)
BY DEF Own, Heeded, L!Corrupted

(* The numbers of a run.                                                   *)
LEMMA RunNumbers ==
  ASSUME NEW r, IsRun(r)
  PROVE  /\ r.ctl.seq \in Nat /\ Queued(r) \in Nat
         /\ IsController(r.ctl)
BY SeqLength DEF Queued, IsRun, IsDirection, IsController, Numbers

LEMMA NotEmpty ==
  ASSUME NEW q, IsSeq(q), q # <<>>
  PROVE  \E x : x \in Range(q)
<1>1. /\ Len(q) \in Nat /\ Len(q) # 0
      /\ Range(q) = {q[i] : i \in 1 .. Len(q)}
  BY SeqLength
<1>2. 1 \in 1 .. Len(q)
  BY <1>1
<1>3. q[1] \in Range(q)
  BY <1>1, <1>2
<1> QED
  BY <1>3

LEMMA ToldIsHeeded ==
  ASSUME NEW s \in Nat, NEW b, Bound(b), s <= b, NEW p, Told(p, s),
         p.type = "HelloAck" => p.seq = 0
  PROVE  Heeded(p)
<1>1. p.seq \in Nat /\ p.seq <= s /\ SeqSize \in Int
  BY HostSessionAssumption DEF Told
<1>2. 2 * p.seq < SeqSize
  BY <1>1 DEF Bound
<1> QED
  BY <1>1, <1>2 DEF Told, Heeded

(* A call that costs no more than what it is given.                        *)
LEMMA AnswersWithin ==
  ASSUME NEW r, IsRun(r),
         \A f \in Held(r.tx) \cup Before(r.tx) : Own(f),
         \A p \in Flight(r) : Heeded(p),
         NEW c, c.seq = r.ctl.seq, NEW load \in Nat,
         NEW call, IsController(call.ctl), IsSeq(call.out),
         Numbered(c, call, load),
         NEW j \in Nat, NEW b, Bound(b),
         (r.ctl.seq + load) + Weight(Queued(r) + j) <= b,
         NEW n, n = Answered(r, call)
  PROVE  Within(n, j, b) /\ n.host = r.host /\ n.fault = r.fault
<1>1. /\ IsRun(n) /\ n.ctl = call.ctl
      /\ n.host = r.host /\ n.tx = r.tx /\ n.fault = r.fault
      /\ Flight(n) \subseteq Flight(r) \cup Range(call.out)
  BY AnswersRun
<1> DEFINE x == Queued(r) + j
           w == Weight(x)
<1>2. /\ r.ctl.seq \in Nat /\ x \in Nat /\ n.ctl.seq \in Nat
      /\ b \in Nat
  BY <1>1, RunNumbers DEF Bound
<1>3. /\ n.ctl.seq <= r.ctl.seq + load /\ (r.ctl.seq + load) + w <= b
      /\ Queued(n) = Queued(r)
  BY <1>1 DEF Numbered, Queued
<1>6. w \in Nat
  <2> HIDE DEF x
  <2> QED
    BY <1>2, Weighs
<1>4. n.ctl.seq + Weight(Queued(n) + j) <= b
  <2>1. Weight(Queued(n) + j) = w
    BY <1>3
  <2> HIDE DEF w, x
  <2> QED
    BY <1>2, <1>3, <1>6, <2>1
<1>5. ASSUME NEW p \in Range(call.out) PROVE Heeded(p)
  <2>1. Told(p, r.ctl.seq + load) /\ (p.type = "HelloAck" => p.seq = 0)
    BY <1>5 DEF Numbered
  <2>2. r.ctl.seq + load \in Nat /\ r.ctl.seq + load <= b
    <3> HIDE DEF w, x
    <3> QED
      BY <1>2, <1>3, <1>6
  <2> QED
    BY <2>1, <2>2, ToldIsHeeded
<1> QED
  BY <1>1, <1>4, <1>5 DEF Within

LEMMA DeliversOneWithin ==
  ASSUME NEW m \in Nat, NEW b, Bound(b), NEW r, Within(r, m + 1, b),
         NEW f, Own(f), NEW n, n = Answered(r, K!FeedCall(r.ctl, f))
  PROVE  /\ Within(n, m, b) /\ n.host = r.host /\ n.fault = r.fault
         /\ f.type = "Hello" =>
              \E p \in Range(n.answered) : p.type # "Corrupt"
<1> DEFINE call == K!FeedCall(r.ctl, f)
           x == Queued(r) + m
           load == 2 * TxCapacity
<1>1. IsRun(r) /\ IsController(r.ctl) /\ r.ctl.seq \in Nat /\ x \in Nat
  BY RunNumbers DEF Within
<1>2. CallMade(r.ctl, f, call) /\ n = Answered(r, call)
  BY <1>1, Feeds
<1> HIDE DEF call
<1>3. IsController(call.ctl) /\ IsSeq(call.out)
      /\ Numbered(r.ctl, call, load)
  BY <1>2 DEF CallMade
<1>4. (r.ctl.seq + load) + Weight(x) <= b /\ load \in Nat
  <2>1. Queued(r) + (m + 1) = x + 1
    BY <1>1, RunNumbers
  <2>2. r.ctl.seq + Weight(x + 1) <= b
    BY <2>1 DEF Within
  <2>3. /\ Weight(x + 1) = Weight(x) + Weight(1) /\ Weight(1) = load
        /\ Weight(x) \in Nat /\ Weight(1) \in Nat
    BY <1>1, Weighs
  <2> HIDE DEF x, load
  <2> QED
    BY <1>1, <2>2, <2>3 DEF Bound
<1> HIDE DEF load
<1>5. Within(n, m, b) /\ n.host = r.host /\ n.fault = r.fault
  BY <1>1, <1>2, <1>3, <1>4, AnswersWithin DEF Within
<1>6. ASSUME f.type = "Hello"
      PROVE  \E p \in Range(n.answered) : p.type # "Corrupt"
  <2>1. call.out # <<>>
    BY <1>2, <1>6 DEF CallMade
  <2>2. \E y : y \in Range(call.out)
    BY <1>3, <2>1, NotEmpty
  <2>3. Range(call.out) \subseteq Range(n.answered)
    BY <1>1, <1>2, <1>3, AnswersRun
  <2> QED
    BY <1>3, <2>2, <2>3 DEF Numbered, Told
<1> QED
  BY <1>5, <1>6

LEMMA DeliversWithin ==
  ASSUME NEW b, Bound(b), NEW r, NEW s, IsSeq(s), Within(r, Len(s), b),
         \A f \in Range(s) : Own(f), NEW d, d = Delivered(r, s)
  PROVE  Within(d, 0, b) /\ d.host = r.host /\ d.fault = r.fault
<1> DEFINE n == Len(s)
           Spared(q, i) == /\ Within(q, n - i, b)
                         /\ q.host = r.host /\ q.fault = r.fault
<1>1. PICK h : DeliveredRun(h, r, s, n)
  BY DeliveredRuns
<1>2. n \in Nat /\ \A i \in 1 .. n : s[i] \in Range(s)
  BY SeqLength
<1>3. Spared(r, 0)
  BY <1>2
<1> HIDE DEF n
<1> DEFINE Done == {i \in Nat : i <= n => Spared(h[i], i)}
<1>4. 0 \in Done
  BY <1>1, <1>3 DEF DeliveredRun
<1>5. ASSUME NEW i \in Nat, i \in Done PROVE i + 1 \in Done
  <2> SUFFICES ASSUME i + 1 <= n PROVE Spared(h[i + 1], i + 1)
    OBVIOUS
  <2>1. i <= n /\ i + 1 \in 1 .. n /\ (i + 1) - 1 = i
    BY <1>2
  <2>2. Spared(h[i], i)
    BY <1>5, <2>1
  <2>3. h[i + 1] = Answered(h[i], K!FeedCall(h[i].ctl, s[i + 1]))
    BY <1>1, <2>1 DEF DeliveredRun
  <2>4. n - (i + 1) \in Nat /\ (n - (i + 1)) + 1 = n - i
    BY <1>2, <2>1
  <2>5. Own(s[i + 1])
    BY <1>2, <2>1
  <2>6. /\ Within(h[i + 1], n - (i + 1), b)
        /\ h[i + 1].host = h[i].host /\ h[i + 1].fault = h[i].fault
    BY <2>2, <2>3, <2>4, <2>5, DeliversOneWithin
  <2> QED
    BY <2>2, <2>6
<1>6. Nat \subseteq Done
  <2> HIDE DEF Done
  <2> QED
    BY <1>4, <1>5, SetInduction
<1>7. Spared(h[n], n) /\ n - n = 0
  BY <1>2, <1>6
<1> QED
  BY <1>1, <1>7 DEF DeliveredRun

(* What the session sends at once: no more than it has, whatever the link  *)
(* keeps of it, replays or delays.                                         *)
Emptied(r, n) ==
  /\ n.host.tx = <<>> /\ n.host.state = r.host.state
  /\ n.host.tracker = r.host.tracker /\ n.host.raised = r.host.raised
  /\ n.fault = r.fault

LEMMA EmptiesWithin ==
  ASSUME NEW b, Bound(b), NEW r, Within(r, Len(r.host.tx), b),
         IsSeq(r.host.tx), \A f \in Range(r.host.tx) : Own(f),
         NEW shaped, Carries(r.tx, Range(r.host.tx), shaped),
         Counts(r.tx, r.fault, r.host.tx, Len(r.host.tx), shaped),
         NEW m, m = Emptying(r, shaped.dir)
  PROVE  /\ Within(m, Len(shaped.out), b) /\ Emptied(r, m)
         /\ IsSeq(shaped.out) /\ \A f \in Range(shaped.out) : Own(f)
<1> DEFINE passing == Passing(r.tx, Range(r.host.tx))
           j == Len(shaped.out)
           i == Len(r.host.tx)
<1>1. /\ IsDirection(shaped.dir) /\ IsSeq(shaped.out)
      /\ shaped.dir.previous \in {r.tx.previous} \cup Range(r.host.tx)
      /\ Held(shaped.dir) \subseteq Held(r.tx) \cup passing
      /\ Range(shaped.out) \subseteq passing
  BY DEF Carries
<1>2. /\ IsRun(m) /\ m.tx = shaped.dir /\ m.ctl = r.ctl
      /\ Flight(m) = Flight(r) /\ Emptied(r, m)
  BY <1>1, Empties DEF Within, Emptied
<1>3. \A f \in passing : Own(f)
  BY CorruptedIsHeeded DEF Passing, Within
<1>4. \A f \in Held(m.tx) \cup Before(m.tx) : Own(f)
  <2>1. Before(m.tx) \subseteq Before(r.tx) \cup Range(r.host.tx)
    BY <1>1, <1>2 DEF Before
  <2> QED
    BY <1>1, <1>2, <1>3, <2>1 DEF Within
<1>5. /\ Queued(m) \in Nat /\ Queued(r) \in Nat /\ r.ctl.seq \in Nat
      /\ j \in Nat /\ i \in Nat
  BY <1>1, <1>2, RunNumbers, SeqLength DEF Within
<1>6. Queued(m) + j <= Queued(r) + i
  BY <1>2 DEF Counts, Burden, Queued
<1>7. m.ctl.seq + Weight(Queued(m) + j) <= b
  <2> DEFINE x == Queued(m) + j
             y == Queued(r) + i
  <2>1. x \in Nat /\ y \in Nat /\ x <= y
    <3> HIDE DEF i, j
    <3> QED
      BY <1>5, <1>6
  <2>2. r.ctl.seq + Weight(y) <= b
    BY DEF Within
  <2> HIDE DEF x, y
  <2>3. Weight(x) <= Weight(y) /\ Weight(x) \in Nat /\ Weight(y) \in Nat
    BY <2>1, Weighs, WeighsMore
  <2>4. m.ctl.seq + Weight(x) <= b
    BY <1>2, <1>5, <2>2, <2>3 DEF Bound
  <2> QED
    BY <2>4 DEF x
<1> QED
  BY <1>1, <1>2, <1>3, <1>4, <1>7 DEF Within

LEMMA FlushesWithin ==
  ASSUME NEW b, Bound(b), NEW r, Within(r, Len(r.host.tx), b),
         IsSeq(r.host.tx), \A f \in Range(r.host.tx) : Own(f),
         NEW n, n = Flushed(r)
  PROVE  Within(n, 0, b) /\ Emptied(r, n)
<1> DEFINE shaped == L!Shaped(r.tx, r.now, r.fault, r.host.tx)
           m == Emptying(r, shaped.dir)
<1>1. /\ Carries(r.tx, Range(r.host.tx), shaped)
      /\ Counts(r.tx, r.fault, r.host.tx, Len(r.host.tx), shaped)
  BY Shapes DEF Within, IsRun
<1>2. n = Delivered(m, shaped.out)
  BY FlushedIs
<1> HIDE DEF shaped
<1>3. /\ Within(m, Len(shaped.out), b) /\ Emptied(r, m)
      /\ IsSeq(shaped.out) /\ \A f \in Range(shaped.out) : Own(f)
  BY <1>1, EmptiesWithin
<1> HIDE DEF m
<1>4. Within(n, 0, b) /\ n.host = m.host /\ n.fault = m.fault
  BY <1>2, <1>3, DeliversWithin
<1> QED
  BY <1>3, <1>4 DEF Emptied

(* More room.                                                              *)
LEMMA WithinMore ==
  ASSUME NEW r, NEW b \in Nat, Within(r, 0, b), NEW j \in Nat
  PROVE  Within(r, j, b + Weight(j)) /\ Within(r, 0, b + Weight(j))
<1> DEFINE q == Queued(r)
<1>1. q \in Nat /\ r.ctl.seq \in Nat
  BY RunNumbers DEF Within
<1>2. r.ctl.seq + Weight(q) <= b
  <2>1. q + 0 = q
    BY <1>1
  <2> QED
    BY <2>1 DEF Within
<1> HIDE DEF q
<1>3. Weight(q) \in Nat /\ Weight(j) \in Nat
      /\ Weight(q + j) = Weight(q) + Weight(j)
  BY <1>1, Weighs
<1>4. q + 0 = q
  BY <1>1
<1>5. /\ r.ctl.seq + Weight(q + j) <= b + Weight(j)
      /\ r.ctl.seq + Weight(q + 0) <= b + Weight(j)
  BY <1>1, <1>2, <1>3, <1>4
<1> QED
  BY <1>5 DEF Within, q

(* A session that has something to send, of a run that may still answer j  *)
(* frames.                                                                 *)
Bears(h, j) ==
  /\ IsHost(h) /\ IsSeq(h.tx) /\ Len(h.tx) <= j
  /\ \A f \in Range(h.tx) : Own(f)

LEMMA BearsWithin ==
  ASSUME NEW b, NEW j \in Nat, b \in Nat, NEW r, Within(r, 0, b),
         NEW h, Bears(h, j), NEW m, m = [r EXCEPT !.host = h]
  PROVE  /\ Within(m, Len(h.tx), b + Weight(j))
         /\ m.host = h /\ m.fault = r.fault
<1>1. /\ IsRun(m) /\ m.host = h /\ m.ctl = r.ctl /\ m.tx = r.tx
      /\ m.fault = r.fault /\ Flight(m) = Flight(r)
  BY RunOfHost DEF Within, Bears
<1> DEFINE i == Len(h.tx)
<1>2. i \in Nat /\ i <= j
  BY SeqLength DEF Bears
<1> HIDE DEF i
<1>3. Within(r, i, b + Weight(i))
  BY <1>2, WithinMore
<1>4. b + Weight(i) <= b + Weight(j)
  BY <1>2, Weighs, WeighsMore
<1>5. r.ctl.seq + Weight(Queued(r) + i) <= b + Weight(j)
  <2> DEFINE w == Weight(Queued(r) + i)
             y == Weight(i)
             z == Weight(j)
  <2>1. r.ctl.seq \in Nat /\ Queued(r) + i \in Nat
    BY <1>2, RunNumbers DEF Within
  <2>2. w \in Nat /\ y \in Nat /\ z \in Nat
    BY <1>2, <2>1, Weighs
  <2>3. r.ctl.seq + w <= b + y /\ b + y <= b + z
    BY <1>3, <1>4 DEF Within
  <2> HIDE DEF w, y, z
  <2>4. r.ctl.seq + w <= b + z
    BY <2>1, <2>2, <2>3
  <2> QED
    BY <2>4 DEF w, z
<1>6. m.ctl.seq + Weight(Queued(m) + i) <= b + Weight(j)
  BY <1>1, <1>5 DEF Queued
<1>7. Within(m, i, b + Weight(j))
  BY <1>1, <1>6 DEF Within
<1> QED
  BY <1>1, <1>7 DEF i

LEMMA SendsWithin ==
  ASSUME NEW b, NEW j \in Nat, b \in Nat, Bound(b + Weight(j)),
         NEW r, Within(r, 0, b), NEW h, Bears(h, j),
         NEW m, m = [r EXCEPT !.host = h], NEW n, n = Flushed(m)
  PROVE  Within(n, 0, b + Weight(j)) /\ Emptied(m, n)
         /\ m.host = h /\ m.fault = r.fault
<1>1. /\ Within(m, Len(h.tx), b + Weight(j))
      /\ m.host = h /\ m.fault = r.fault
  BY BearsWithin
<1>2. IsSeq(m.host.tx) /\ \A f \in Range(m.host.tx) : Own(f)
  BY <1>1 DEF Bears
<1> QED
  BY <1>1, <1>2, FlushesWithin

(* The link of the step, and a tick.                                       *)
LEMMA LinksWithin ==
  ASSUME NEW b, Bound(b), NEW r, Within(r, 0, b), NEW k, NEW fault,
         NEW n, n = Linked(r, k, fault)
  PROVE  Within(n, 0, b) /\ n.host = r.host
<1> DEFINE m == Tuning(r, k, fault)
           out == L!Released(r.tx, k, fault).out
           j == Len(out)
<1>1. IsRun(r)
  BY DEF Within
<1>2. n = Delivered(m, out) /\ TunedTo(r, m, out)
  BY <1>1, Tunes
<1> HIDE DEF m, out
<1>3. /\ Queued(m) \in Nat /\ Queued(r) \in Nat /\ r.ctl.seq \in Nat
      /\ j \in Nat /\ m.ctl = r.ctl
  BY <1>1, <1>2, RunNumbers, SeqLength DEF TunedTo
<1>4. Queued(m) + j <= Queued(r)
  BY <1>2 DEF TunedTo, Burden, Queued
<1>5. m.ctl.seq + Weight(Queued(m) + j) <= b
  <2> DEFINE x == Queued(m) + j
             y == Queued(r)
  <2>1. x \in Nat /\ y \in Nat /\ x <= y /\ y + 0 = y
    <3> HIDE DEF j
    <3> QED
      BY <1>3, <1>4
  <2>2. r.ctl.seq + Weight(y) <= b
    BY <2>1 DEF Within
  <2> HIDE DEF x, y
  <2>3. Weight(x) <= Weight(y) /\ Weight(x) \in Nat /\ Weight(y) \in Nat
    BY <2>1, Weighs, WeighsMore
  <2>4. m.ctl.seq + Weight(x) <= b
    BY <1>3, <2>2, <2>3 DEF Bound
  <2> QED
    BY <2>4 DEF x
<1>6. /\ \A f \in Held(m.tx) \cup Before(m.tx) : Own(f)
      /\ \A f \in Range(out) : Own(f)
  BY <1>2 DEF TunedTo, Within, Before
<1>7. Within(m, j, b)
  BY <1>2, <1>5, <1>6 DEF TunedTo, Within
<1>8. Within(n, 0, b) /\ n.host = m.host
  BY <1>2, <1>6, <1>7, DeliversWithin DEF TunedTo
<1> QED
  BY <1>2, <1>8 DEF TunedTo

LEMMA TicksWithin ==
  ASSUME NEW b \in Nat, Bound(b + Weight(1)), NEW r, Within(r, 0, b), NEW k,
         NEW n, n = TickedCall(r, k)
  PROVE  Within(n, 0, b + Weight(1)) /\ n.host = r.host
<1> DEFINE c == K!Called(r.ctl)
           call == K!Ticked(c, k)
           load == 2 * TxCapacity
           w == Weight(Queued(r) + 0)
<1>1. n = Answered(r, call)
  BY DEF TickedCall
<1>2. IsRun(r) /\ IsController(r.ctl) /\ r.ctl.seq \in Nat
      /\ Queued(r) \in Nat
  BY RunNumbers DEF Within
<1>3. IsController(c) /\ c.seq = r.ctl.seq
  BY <1>2, Calls
<1> HIDE DEF c
<1>4. CallTicked(c, k, call)
  BY <1>3, Ticks
<1> HIDE DEF call
<1>5. /\ IsController(call.ctl) /\ IsSeq(call.out) /\ load \in Nat
      /\ TxCapacity \in Nat /\ TxCapacity <= load
  BY <1>4, ControllerAssumption DEF CallTicked
<1>6. Numbered(c, call, TxCapacity)
  BY <1>4 DEF CallTicked
<1>7. (r.ctl.seq + TxCapacity) + w <= b + Weight(1)
  <2>1. w \in Nat /\ Weight(1) = load
    <3>1. Queued(r) + 0 \in Nat
      BY <1>2
    <3> QED
      BY <3>1, Weighs
  <2>2. r.ctl.seq + w <= b
    BY DEF Within
  <2> HIDE DEF w, load
  <2> QED
    BY <1>2, <1>5, <2>1, <2>2
<1> HIDE DEF w, load
<1>8. (r.ctl.seq + TxCapacity) + Weight(Queued(r) + 0) <= b + Weight(1)
  BY <1>7 DEF w
<1>9. /\ \A f \in Held(r.tx) \cup Before(r.tx) : Own(f)
      /\ \A p \in Flight(r) : Heeded(p)
  BY DEF Within
<1> QED
  BY <1>1, <1>2, <1>3, <1>5, <1>6, <1>8, <1>9, AnswersWithin

(* The session: it has heard a frame and waits for none, or waits for the  *)
(* first one.  What it reads then never ends it.                           *)
Attentive(h) ==
  /\ h.raised = FALSE
  /\ h.state \in {"HelloSent", "Active", "TimedOut", "SafeStop"}
  /\ h.tracker.sequence \in Nat /\ 2 * h.tracker.sequence < SeqSize

Expectant(h) ==
  h.raised = FALSE /\ h.state = "HelloSent" /\ h.tracker = Unseen

LEMMA NoneAgain ==
  ASSUME NEW t, t.sequence \in Nat, 2 * t.sequence < SeqSize,
         NEW p, p.seq = 0
  PROVE  ~Accepts(t, p)
<1> DEFINE s == t.sequence
           delta == (0 - s) % SeqSize
<1>1. s \in Nat /\ 2 * s < SeqSize /\ SeqSize \in Nat \ {0} /\ s # None
  BY HostSessionAssumption DEF None
<1>2. delta = 0 \/ 2 * delta >= SeqSize
  <2> HIDE DEF s
  <2>1. CASE s = 0
    <3>1. 0 - s = 0 /\ 0 % SeqSize \in 0 .. 0
      BY <1>1, <2>1, Remains
    <3> QED
      BY <3>1
  <2>2. CASE s # 0
    <3>1. 0 - s \in Int /\ -SeqSize < 0 - s /\ 0 - s < 0
      BY <1>1, <2>2
    <3>2. delta = (0 - s) + SeqSize
      <4> DEFINE d == 0 - s
      <4>1. d \in Int /\ -SeqSize < d /\ d < 0
        BY <3>1
      <4> HIDE DEF d
      <4>2. d % SeqSize = d + SeqSize
        BY <1>1, <4>1, OnceRound
      <4> QED
        BY <4>2 DEF d
    <3> HIDE DEF delta
    <3>3. 2 * ((0 - s) + SeqSize) >= SeqSize
      BY <1>1
    <3> QED
      BY <3>2, <3>3
  <2> QED
    BY <2>1, <2>2
<1> QED
  BY <1>1, <1>2 DEF Accepts

LEMMA AcceptsFirst ==
  ASSUME NEW p
  PROVE  Accepts(Unseen, p)
BY DEF Accepts, Unseen

Listens(h, p, g) ==
  /\ IsHost(g) /\ g.tx = h.tx
  /\ Attentive(h) => Attentive(g)
  /\ Expectant(h) /\ p.type # "Corrupt" => Attentive(g)
  /\ Expectant(h) /\ p.type = "Corrupt" => Expectant(g)

LEMMA ReadsHeeded ==
  ASSUME NEW h, IsHost(h), Attentive(h) \/ Expectant(h),
         NEW p, Heeded(p), NEW g, g = PacketRead(h, p)
  PROVE  Listens(h, p, g)
<1> DEFINE t == Remembering(h.tracker, p)
           seen == [h EXCEPT !.tracker = t]
           heard == [seen EXCEPT !.silence = 0]
           open == [heard EXCEPT !.state = "Active", !.negotiated = TRUE]
<1>1. IsHost(g) /\ g.tx = h.tx
  BY HostReads
<1>2. CASE ~LetThrough(h, p)
  <2>1. g = h
    BY <1>2 DEF PacketRead
  <2>2. Expectant(h) => p.type = "Corrupt"
    BY <1>2, AcceptsFirst DEF LetThrough, Expectant
  <2>3. ~(Attentive(h) /\ Expectant(h))
    BY DEF Attentive, Expectant, Unseen, None
  <2> QED
    BY <1>1, <2>1, <2>2, <2>3 DEF Listens
<1>3. CASE LetThrough(h, p)
  <2>1. /\ p.type # "Corrupt" /\ Accepts(h.tracker, p)
        /\ p.seq \in Nat /\ 2 * p.seq < SeqSize /\ p.decodes
        /\ p.type = "HelloAck" => p.ok /\ p.seq = 0
    BY <1>3 DEF LetThrough, Heeded
  <2>2. g = Handled(heard, p)
    <3>1. seen = [h EXCEPT !.tracker = Remembering(@, p)]
      BY DEF IsHost
    <3> QED
      BY <1>3, <2>1, <3>1 DEF PacketRead
  <2>3. t.sequence = p.seq
    BY DEF Remembering
  <2> HIDE DEF t
  <2>4. /\ heard.raised = h.raised /\ heard.state = h.state
        /\ heard.tracker = t
        /\ open.raised = h.raised /\ open.state = "Active"
        /\ open.tracker = t
    BY DEF IsHost
  <2>5. p.type = "HelloAck" => h.state = "HelloSent"
    <3> SUFFICES ASSUME p.type = "HelloAck" PROVE h.state = "HelloSent"
      OBVIOUS
    <3>1. ~Attentive(h)
      BY <2>1, NoneAgain DEF Attentive
    <3> QED
      BY <3>1 DEF Expectant
  <2>6. g = heard \/ g = open
    <3> HIDE DEF seen
    <3>1. heard.state = h.state
      BY <2>4
    <3> HIDE DEF heard
    <3> QED
      BY <2>1, <2>2, <2>5, <3>1 DEF Handled
  <2> HIDE DEF heard, open
  <2>7. g.raised = h.raised /\ g.state \in {h.state, "Active"}
        /\ g.tracker = t
    BY <2>4, <2>6
  <2>8. Attentive(g)
    BY <2>1, <2>3, <2>7 DEF Attentive, Expectant
  <2> QED
    BY <1>1, <2>1, <2>8 DEF Listens
<1> QED
  BY <1>2, <1>3

LEMMA ReadsAllHeeded ==
  ASSUME NEW h, IsHost(h), Attentive(h) \/ Expectant(h),
         NEW s, IsSeq(s), \A p \in Range(s) : Heeded(p),
         NEW g, g = PacketsRead(h, s).host
  PROVE  /\ IsHost(g) /\ g.tx = h.tx
         /\ Attentive(h) \/ (\E p \in Range(s) : p.type # "Corrupt") =>
              Attentive(g)
<1> DEFINE base == [host |-> h, events |-> <<>>]
           n == Len(s)
           Some(i) == \E j \in 1 .. i : s[j].type # "Corrupt"
           Spared(q, i) ==
             /\ IsHost(q) /\ q.tx = h.tx
             /\ Attentive(q) \/ Expectant(q)
             /\ Attentive(h) \/ Some(i) => Attentive(q)
<1>1. base = [host |-> h, events |-> <<>>] /\ base.host = h
  OBVIOUS
<1> HIDE DEF base
<1>2. /\ n \in Nat /\ \A i \in 1 .. n : Heeded(s[i])
      /\ Range(s) = {s[i] : i \in 1 .. n}
  BY SeqLength
<1>3. PICK r : PacketRun(r, h, base, s, n)
  BY PacketsRun
<1> HIDE DEF n
<1> DEFINE Done == {i \in Nat : i <= n => Spared(r[i].host, i)}
<1>4. 0 \in Done
  <2>1. r[0].host = h
    BY <1>1, <1>3 DEF PacketRun
  <2>2. ~Some(0)
    OBVIOUS
  <2> HIDE DEF Some
  <2>3. Spared(h, 0)
    BY <2>2
  <2> QED
    BY <2>1, <2>3
<1>5. ASSUME NEW i \in Nat, i \in Done PROVE i + 1 \in Done
  <2> SUFFICES ASSUME i + 1 <= n PROVE Spared(r[i + 1].host, i + 1)
    OBVIOUS
  <2>1. i <= n /\ i + 1 \in 1 .. n /\ (i + 1) - 1 = i
    BY <1>2
  <2>2. Spared(r[i].host, i) /\ Heeded(s[i + 1])
    BY <1>2, <1>5, <2>1
  <2>3. r[i + 1].host = PacketRead(r[i].host, s[i + 1])
    <3>1. r[i + 1] = ReadOn(r[i], s[i + 1])
      BY <1>3, <2>1 DEF PacketRun
    <3> QED
      BY <3>1 DEF ReadOn
  <2>4. Listens(r[i].host, s[i + 1], r[i + 1].host)
    BY <2>2, <2>3, ReadsHeeded
  <2>5. Some(i + 1) => Some(i) \/ s[i + 1].type # "Corrupt"
    <3>1. \A j \in 1 .. i + 1 : j \in 1 .. i \/ j = i + 1
      OBVIOUS
    <3> QED
      BY <3>1
  <2> HIDE DEF Some
  <2> QED
    BY <2>2, <2>4, <2>5 DEF Listens
<1>6. Nat \subseteq Done
  <2> HIDE DEF Done
  <2> QED
    BY <1>4, <1>5, SetInduction
<1>7. Spared(r[n].host, n)
  <2>1. n <= n
    BY <1>2
  <2> HIDE DEF Spared
  <2> QED
    BY <1>2, <1>6, <2>1
<1>8. g = r[n].host
  BY <1>1, <1>3 DEF PacketRun
<1>9. (\E p \in Range(s) : p.type # "Corrupt") => Some(n)
  BY <1>2
<1> QED
  BY <1>7, <1>8, <1>9

LEMMA PollsHeeded ==
  ASSUME NEW h, IsHost(h), NEW s, IsSeq(s), \A p \in Range(s) : Heeded(p),
         \/ Attentive(h)
         \/ Expectant(h) /\ \E p \in Range(s) : p.type # "Corrupt",
         NEW g, g = Polled(h, s).host
  PROVE  IsHost(g) /\ g.tx = h.tx /\ Attentive(g)
<1> DEFINE read == PacketsRead(h, s)
           q == read.host
           late == [q EXCEPT !.state = "TimedOut"]
<1>1. IsHost(q) /\ q.tx = h.tx /\ Attentive(q)
  BY ReadsAllHeeded
<1>2. h.state # "Closed"
  BY DEF Attentive, Expectant
<1>3. g = TimedOut(q)
  <2>1. Polled(h, s) = [read EXCEPT !.host = TimedOut(@)]
    BY <1>2 DEF Polled
  <2>2. "host" \in DOMAIN read
    <3> DEFINE base == [host |-> h, events |-> <<>>]
    <3>1. base = [host |-> h, events |-> <<>>]
      OBVIOUS
    <3> HIDE DEF base
    <3>2. PICK r : PacketRun(r, h, base, s, Len(s))
      BY PacketsRun
    <3>3. r[Len(s)] = read
      BY <3>1, <3>2 DEF PacketRun
    <3>4. CASE Len(s) = 0
      BY <3>1, <3>2, <3>3, <3>4 DEF PacketRun
    <3>5. CASE Len(s) # 0
      <4>1. Len(s) \in 1 .. Len(s)
        BY <3>5, SeqLength
      <4>2. r[Len(s)] = ReadOn(r[Len(s) - 1], s[Len(s)])
        BY <3>2, <4>1 DEF PacketRun
      <4> QED
        BY <3>3, <4>2 DEF ReadOn
    <3> QED
      BY <3>4, <3>5
  <2> HIDE DEF read
  <2> QED
    BY <2>1, <2>2
<1> HIDE DEF read, q
<1>4. g = q \/ g = late
  BY <1>3 DEF TimedOut
<1>5. /\ IsHost(late) /\ late.tx = q.tx /\ late.raised = q.raised
      /\ late.tracker = q.tracker /\ late.state = "TimedOut"
  BY <1>1 DEF IsHost
<1> HIDE DEF late
<1>6. Attentive(late)
  BY <1>1, <1>5 DEF Attentive
<1> QED
  BY <1>1, <1>4, <1>5, <1>6

(* The parts of an iteration: after each the session is heard, has nothing *)
(* left to send, and the counter has moved on by no more than the part may *)
(* cost.                                                                   *)
Going(r, b) == Within(r, 0, b) /\ r.host.tx = <<>> /\ Attentive(r.host)

LEMMA GoingMore ==
  ASSUME NEW r, NEW b \in Nat, Going(r, b), NEW j \in Nat
  PROVE  Going(r, b + Weight(j))
BY WithinMore DEF Going

LEMMA SinglesBear ==
  ASSUME NEW h, NEW type, NEW k, Single(h, type, k),
         type \in {"Hello", "Sensor", "SafeStop"}
  PROVE  Bears(h, 1)
<1>1. CASE h.tx = <<>>
  <2>1. IsSeq(h.tx) /\ Range(h.tx) = {} /\ Len(h.tx) = 0
    BY <1>1, NoCells
  <2> QED
    BY <2>1 DEF Bears, Single
<1>2. ASSUME NEW f, h.tx = <<f>>, Is(f, type, k) PROVE Bears(h, 1)
  <2>1. IsSeq(h.tx) /\ Range(h.tx) = {f} /\ Len(h.tx) = 1
    BY <1>2, OneCell
  <2>2. Own(f)
    BY <1>2 DEF Is, Own, FromHost
  <2> QED
    BY <2>1, <2>2 DEF Bears, Single
<1> QED
  BY <1>1, <1>2 DEF Single

LEMMA PollsWithin ==
  ASSUME NEW b, Bound(b), NEW r, Within(r, 0, b), r.host.tx = <<>>,
         \/ Attentive(r.host)
         \/ /\ Expectant(r.host) /\ r.fault = L!Healthy
            /\ \E p \in Range(r.answered) : p.type # "Corrupt",
         NEW n, n = HostPoll(r)
  PROVE  Going(n.run, b)
<1> DEFINE a == Arrived(r)
           polled == Polled(a.host, a.ready)
<1>1. IsRun(r)
  BY DEF Within
<1>2. n = Heard(a, polled)
  BY <1>1, FlushesNothing DEF HostPoll, Received
<1>3. /\ IsRun(a) /\ a.ctl = r.ctl /\ a.tx = r.tx /\ a.host = r.host
      /\ Flight(a) \subseteq Flight(r) \cup {L!Corrupted}
      /\ r.fault = L!Healthy => Range(r.answered) \subseteq Range(a.ready)
  BY <1>1, Arrives
<1> HIDE DEF a
<1>4. \A p \in Flight(a) : Heeded(p)
  BY <1>3, CorruptedIsHeeded DEF Within
<1>5. \/ Attentive(a.host)
      \/ Expectant(a.host) /\ \E p \in Range(a.ready) : p.type # "Corrupt"
  BY <1>3
<1>6. IsHost(a.host) /\ IsSeq(a.ready) /\ \A p \in Range(a.ready) : Heeded(p)
  BY <1>3, <1>4 DEF IsRun, Flight
<1>7. /\ IsHost(polled.host) /\ polled.host.tx = a.host.tx
      /\ Attentive(polled.host)
  BY <1>5, <1>6, PollsHeeded
<1> HIDE DEF polled
<1>8. /\ IsRun(n.run) /\ n.run.host = polled.host /\ n.run.ctl = a.ctl
      /\ n.run.tx = a.tx /\ Flight(n.run) \subseteq Flight(a)
  BY <1>2, <1>3, <1>7, HearsRun
<1>9. Queued(n.run) = Queued(r) /\ n.run.ctl = r.ctl /\ n.run.tx = r.tx
  BY <1>3, <1>8 DEF Queued
<1>10. Within(n.run, 0, b)
  BY <1>4, <1>8, <1>9 DEF Within
<1> QED
  BY <1>3, <1>7, <1>8, <1>10 DEF Going

(* A HELLO over a healthy link is answered, and the answer is not lost.    *)
LEMMA GreetsWithin ==
  ASSUME NEW b \in Nat, Bound(b + Weight(1)), NEW r, Within(r, 0, b),
         r.host.tx = <<>>, r.host.state # "Closed", r.fault = L!Healthy,
         NEW n, n = Greeted(r)
  PROVE  /\ Within(n, 0, b + Weight(1)) /\ n.host.tx = <<>>
         /\ Expectant(n.host) /\ n.fault = L!Healthy
         /\ \E p \in Range(n.answered) : p.type # "Corrupt"
<1> DEFINE h == Started(r.host, Hello)
           m == [r EXCEPT !.host = h]
           c == b + Weight(1)
<1>1. IsRun(r) /\ n = Flushed(m)
  BY DEF Greeted, Within, IsRun
<1>2. IsHost(r.host)
  BY <1>1 DEF IsRun
<1>3. /\ Single(h, "Hello", 0) /\ h.tx # <<>> /\ h.tracker = Unseen
      /\ h.state = "HelloSent" /\ h.raised = FALSE
  BY <1>2, HostStarts
<1> HIDE DEF h
<1>4. PICK f : h.tx = <<f>> /\ Is(f, "Hello", 0)
  BY <1>3 DEF Single
<1>5. Bears(h, 1)
  BY <1>3, SinglesBear
<1>6. Within(n, 0, c) /\ Emptied(m, n) /\ m.host = h /\ m.fault = r.fault
  BY <1>1, <1>5, SendsWithin
<1>7. Within(m, Len(h.tx), c)
  BY <1>5, BearsWithin
<1> HIDE DEF m
<1>8. Expectant(n.host) /\ n.host.tx = <<>> /\ n.fault = L!Healthy
  BY <1>3, <1>6 DEF Emptied, Expectant
<1>9. \E p \in Range(n.answered) : p.type # "Corrupt"
  <2> DEFINE s == m.host.tx
             shaped == L!Shaped(m.tx, m.now, m.fault, s)
             e == Emptying(m, shaped.dir)
  <2>1. s = <<f>> /\ IsSeq(s) /\ Range(s) = {f} /\ IsDirection(m.tx)
    BY <1>4, <1>6, <1>7, OneCell DEF Within, IsRun
  <2>2. n = Delivered(e, shaped.out)
    BY <1>1, FlushedIs
  <2>3. /\ Carries(m.tx, Range(s), shaped)
        /\ Counts(m.tx, m.fault, s, Len(s), shaped)
    BY <2>1, Shapes
  <2>4. shaped.out = <<f>>
    <3>1. shaped = L!Shaped(m.tx, m.now, m.fault, s)
      OBVIOUS
    <3> HIDE DEF shaped, s
    <3> QED
      BY <1>6, <2>1, <3>1, HealthyPasses
  <2>5. Own(f) /\ f.type = "Hello"
    BY <1>4 DEF Own, FromHost, Is
  <2>6. Within(e, Len(shaped.out), c)
    <3>1. \A x \in Range(m.host.tx) : Own(x)
      BY <2>1, <2>5
    <3>2. /\ Within(m, Len(m.host.tx), c) /\ IsSeq(m.host.tx)
          /\ Carries(m.tx, Range(m.host.tx), shaped)
          /\ Counts(m.tx, m.fault, m.host.tx, Len(m.host.tx), shaped)
      BY <1>6, <1>7, <2>1, <2>3
    <3> HIDE DEF shaped, c
    <3> QED
      BY <3>1, <3>2, EmptiesWithin DEF c
  <2> HIDE DEF shaped, e, s
  <2>7. Len(shaped.out) = 0 + 1
    BY <2>4, OneCell
  <2>8. n = Answered(e, K!FeedCall(e.ctl, f))
    BY <2>2, <2>4, DeliversOne
  <2>9. Within(e, 0 + 1, c)
    BY <2>6, <2>7
  <2> QED
    BY <2>5, <2>8, <2>9, DeliversOneWithin
<1> QED
  BY <1>6, <1>8, <1>9

LEMMA RoutesWithin ==
  ASSUME RouteChunks <= TxBuffer,
         NEW k, NEW b \in Nat, Bound(b + Weight(RouteChunks)),
         NEW r, Going(r, b), NEW n, n = Routed(r, k)
  PROVE  Going(n, b + Weight(RouteChunks))
<1>1. RouteChunks \in Nat
  BY ClosedLoopAssumption
<1>2. CASE r.host.state # "Active"
  BY <1>1, <1>2, GoingMore DEF Routed
<1>3. CASE r.host.state = "Active"
  <2> DEFINE h == SentRoute(r.host, Route(k))
             m == [r EXCEPT !.host = h]
  <2>1. n = Flushed(m)
    BY <1>3 DEF Routed, Going, Within, IsRun
  <2>2. IsHost(r.host) /\ r.host.tx = <<>>
    BY DEF Going, Within, IsRun
  <2>3. Chunks(r.host, h, k) /\ Filled(r.host, h, RouteChunks)
    BY <1>3, <2>2, HostSendsRoute
  <2> HIDE DEF h
  <2>4. Bears(h, RouteChunks)
    BY <2>3 DEF Bears, Chunks, Filled, Own, FromHost, Is
  <2>5. /\ Within(n, 0, b + Weight(RouteChunks)) /\ Emptied(m, n)
        /\ m.host = h
    BY <1>1, <2>1, <2>4, SendsWithin DEF Going
  <2> HIDE DEF m
  <2>6. Attentive(h)
    BY <2>3 DEF Going, Attentive, Chunks, Filled
  <2> QED
    BY <2>5, <2>6 DEF Going, Emptied, Attentive
<1> QED
  BY <1>2, <1>3

(* What the parts cost, added up.                                          *)
LEMMA BoundLess ==
  ASSUME NEW b \in Nat, NEW i \in Nat, NEW j \in Nat,
         Bound(b + Weight(i + j))
  PROVE  /\ Bound(b + Weight(i)) /\ b + Weight(i) \in Nat
         /\ (b + Weight(i)) + Weight(j) = b + Weight(i + j)
<1>1. Weight(i) \in Nat /\ Weight(j) \in Nat
      /\ Weight(i + j) = Weight(i) + Weight(j)
  BY Weighs
<1>2. SeqSize \in Nat
  BY HostSessionAssumption
<1> QED
  BY <1>1, <1>2 DEF Bound

LEMMA ConnectsWithin ==
  ASSUME RouteChunks <= TxBuffer,
         NEW k, NEW b \in Nat, Bound(b + Weight(1 + RouteChunks)),
         NEW r, Within(r, 0, b), r.host.tx = <<>>,
         r.host.state # "Closed", r.fault = L!Healthy,
         NEW n, n = Connected(r, k)
  PROVE  Going(n, b + Weight(1 + RouteChunks))
<1> DEFINE g == Greeted(r)
           polled == HostPoll(g)
           c == b + Weight(1)
<1>1. RouteChunks \in Nat
  BY ClosedLoopAssumption
<1>2. /\ Bound(c) /\ c \in Nat
      /\ c + Weight(RouteChunks) = b + Weight(1 + RouteChunks)
  BY <1>1, BoundLess
<1>3. /\ Within(g, 0, c) /\ g.host.tx = <<>>
      /\ Expectant(g.host) /\ g.fault = L!Healthy
      /\ \E p \in Range(g.answered) : p.type # "Corrupt"
  BY <1>2, GreetsWithin
<1>4. n = Routed(polled.run, k)
  BY DEF Connected
<1> HIDE DEF g, c
<1>5. Going(polled.run, c)
  BY <1>2, <1>3, PollsWithin
<1> HIDE DEF polled
<1>6. Bound(c + Weight(RouteChunks))
  BY <1>2
<1>7. Going(n, c + Weight(RouteChunks))
  BY <1>2, <1>4, <1>5, <1>6, RoutesWithin
<1> QED
  BY <1>2, <1>7

LEMMA BeginsWithin ==
  ASSUME RouteChunks <= TxBuffer,
         NEW k, NEW b \in Nat, Bound(b + Weight(1 + RouteChunks)),
         NEW r, Going(r, b), NEW n, n = Begun(r, k)
  PROVE  Going(n, b + Weight(1 + RouteChunks))
<1> DEFINE w == Waiting(r, k)
           m == Linked(w, k, LinkFaultState(k))
<1>1. n = Tended(m, k)
  BY DEF Begun, Waiting
<1>2. RouteChunks \in Nat /\ 1 + RouteChunks \in Nat
  BY ClosedLoopAssumption
<1>3. Bound(b)
  <2>1. Weight(1 + RouteChunks) \in Nat /\ SeqSize \in Nat
    BY <1>2, Weighs, HostSessionAssumption
  <2> QED
    BY <2>1 DEF Bound
<1>4. Going(w, b)
  <2>1. CASE k = 0
    BY <2>1 DEF Waiting
  <2>2. CASE k # 0
    <3>1. /\ IsRun(w) /\ w.host.tx = r.host.tx
          /\ w.host.tracker = r.host.tracker /\ w.host.state = r.host.state
          /\ w.host.raised = r.host.raised
          /\ w.tx = r.tx /\ Flight(w) = Flight(r) /\ w.ctl.seq = r.ctl.seq
      BY <2>2, WaitsRun DEF Waiting, Going, Within
    <3> HIDE DEF w
    <3>2. Within(w, 0, b)
      BY <3>1 DEF Going, Within, Queued
    <3> QED
      BY <3>1, <3>2 DEF Going, Attentive
  <2> QED
    BY <2>1, <2>2
<1> HIDE DEF w
<1>5. Going(m, b)
  <2>1. Within(m, 0, b) /\ m.host = w.host
    BY <1>3, <1>4, LinksWithin DEF Going
  <2> QED
    BY <1>4, <2>1 DEF Going
<1> HIDE DEF m
<1>6. CASE m.host.state = "TimedOut" /\ m.fault = L!Healthy
  <2>1. n = Connected(m, k)
    BY <1>1, <1>6 DEF Tended, LinkIsHealthy
  <2> QED
    BY <1>5, <1>6, <2>1, ConnectsWithin DEF Going
<1>7. CASE ~(m.host.state = "TimedOut" /\ m.fault = L!Healthy)
  <2>1. n = m
    BY <1>1, <1>7 DEF Tended, LinkIsHealthy
  <2> QED
    BY <1>2, <1>5, <2>1, GoingMore
<1> QED
  BY <1>6, <1>7

LEMMA StopsWithin ==
  ASSUME NEW k, NEW b \in Nat, Bound(b + Weight(1)),
         NEW r, Going(r, b), NEW n, n = Stopped(r, k)
  PROVE  Going(n, b + Weight(1))
<1>1. CASE ~StopDue(k)
  BY <1>1, GoingMore DEF Stopped
<1>2. CASE StopDue(k)
  <2> DEFINE h == StopRequested(r.host, ManualStop(k))
             m == [r EXCEPT !.host = h]
  <2>1. n = Flushed(m)
    BY <1>2 DEF Stopped, Going, Within, IsRun
  <2>2. /\ IsHost(r.host) /\ r.host.tx = <<>> /\ r.host.raised = FALSE
        /\ r.host.state \notin {"Closed", "Error"}
    BY DEF Going, Within, IsRun, Attentive
  <2>3. /\ Single(h, "SafeStop", k) /\ h.tracker = r.host.tracker
        /\ h.state = "SafeStop" /\ h.raised = FALSE
    BY <2>2, HostStops
  <2> HIDE DEF h
  <2>4. Bears(h, 1)
    BY <2>3, SinglesBear
  <2>5. Within(n, 0, b + Weight(1)) /\ Emptied(m, n) /\ m.host = h
    BY <2>1, <2>4, SendsWithin DEF Going
  <2> HIDE DEF m
  <2> QED
    BY <2>3, <2>5 DEF Going, Emptied, Attentive
<1> QED
  BY <1>1, <1>2

LEMMA TickIsGoing ==
  ASSUME NEW k, NEW b \in Nat, Bound(b + Weight(1)),
         NEW r, Going(r, b), NEW n, n = TickedCall(r, k)
  PROVE  Going(n, b + Weight(1))
BY TicksWithin DEF Going

LEMMA OffersWithin ==
  ASSUME NEW k, NEW b \in Nat, Bound(b + Weight(1)),
         NEW r, Going(r, b), NEW samples, NEW n, n = Offered(r, k, samples)
  PROVE  Going(n, b + Weight(1))
<1>1. CASE ~Sends(r, k, samples)
  BY <1>1, TickIsGoing DEF Offered
<1>2. CASE Sends(r, k, samples)
  <2> DEFINE h == SentActive(r.host, SensorFrame(k, samples))
             m == [r EXCEPT !.host = h]
  <2>1. n = Flushed(m)
    BY <1>2 DEF Offered, Going, Within, IsRun
  <2>2. IsHost(r.host) /\ r.host.tx = <<>> /\ r.host.state = "Active"
    BY <1>2 DEF Going, Within, IsRun, Sends
  <2>3. /\ Single(h, "Sensor", k) /\ h.tracker = r.host.tracker
        /\ h.state = "Active" /\ h.raised = r.host.raised
    BY <2>2, HostSendsSensor
  <2> HIDE DEF h
  <2>4. Bears(h, 1)
    BY <2>3, SinglesBear
  <2>5. Within(n, 0, b + Weight(1)) /\ Emptied(m, n) /\ m.host = h
    BY <2>1, <2>4, SendsWithin DEF Going
  <2> HIDE DEF m
  <2> QED
    BY <2>3, <2>5 DEF Going, Emptied, Attentive
<1> QED
  BY <1>1, <1>2

LEMMA PollIsGoing ==
  ASSUME NEW b, Bound(b), NEW r, Going(r, b)
  PROVE  Going(HostPoll(r).run, b)
BY PollsWithin DEF Going

LEMMA ExchangesWithin ==
  ASSUME NEW k, NEW b \in Nat, Bound(b + Weight(2)),
         NEW r, Going(r, b), NEW samples, NEW e, e = Exchanged(r, k, samples)
  PROVE  Going(e.run, b + Weight(2))
<1> DEFINE o == Offered(r, k, samples)
           first == HostPoll(o)
           t == TickedCall(first.run, k)
           second == HostPoll(t)
           c == b + Weight(1)
<1>1. Bound(c) /\ c \in Nat /\ c + Weight(1) = b + Weight(2)
  <2>1. 1 + 1 = 2
    OBVIOUS
  <2> QED
    BY <2>1, BoundLess
<1>2. e = first \/ e = Also(first.events, second)
  BY DEF Exchanged, Completed
<1>3. Going(o, c)
  BY <1>1, OffersWithin
<1> HIDE DEF o, c
<1>4. Going(first.run, c)
  BY <1>1, <1>3, PollIsGoing
<1> HIDE DEF first
<1>5. Bound(c + Weight(1))
  BY <1>1
<1>6. Going(t, c + Weight(1))
  BY <1>1, <1>4, <1>5, TickIsGoing
<1> HIDE DEF t
<1>7. Going(second.run, c + Weight(1))
  BY <1>5, <1>6, PollIsGoing
<1>8. second = [run |-> second.run, events |-> second.events]
  BY DEF HostPoll, Received, Heard
<1> HIDE DEF second
<1>9. Also(first.events, second).run = second.run
  BY <1>8 DEF Also
<1>10. Going(first.run, c + Weight(1))
  BY <1>1, <1>4, GoingMore
<1> QED
  BY <1>1, <1>2, <1>7, <1>9, <1>10

-----------------------------------------------------------------------------
(* The inductive invariant: an iteration moves the counter of the          *)
(* controller on by no more than its connection, its stop and its exchange *)
(* may, and leaves a session that is heard.                                *)
Budget(k) == Weight((RouteChunks + 4) * (k + 1))

RunInvariant ==
  /\ step \in Nat /\ ~failed
  /\ step <= StepCount + 1 => Going(run, Budget(step))

LEMMA Budgets ==
  ASSUME NEW k \in Nat
  PROVE  /\ Budget(k) \in Nat
         /\ Budget(0) = Weight(RouteChunks + 4)
         /\ Budget(k + 1) = Budget(k) + Weight(RouteChunks + 4)
         /\ Budget(k) <= Budget(k + 1)
<1> DEFINE c == RouteChunks + 4
           x == c * (k + 1)
<1>1. c \in Nat
  BY ClosedLoopAssumption
<1> HIDE DEF c
<1>2. x \in Nat /\ c * ((k + 1) + 1) = x + c /\ c * (0 + 1) = c
  BY <1>1
<1> HIDE DEF x
<1>3. Weight(x) \in Nat /\ Weight(c) \in Nat
      /\ Weight(x + c) = Weight(x) + Weight(c)
  BY <1>1, <1>2, Weighs
<1>4. Budget(k) = Weight(x) /\ Budget(k + 1) = Weight(x + c)
      /\ Budget(0) = Weight(c)
  BY <1>2 DEF Budget, c, x
<1> QED
  BY <1>3, <1>4 DEF c

LEMMA BudgetsUpTo ==
  ASSUME NEW k \in Nat, NEW j \in Nat, j <= k
  PROVE  Budget(j) <= Budget(k)
<1> DEFINE Done == {i \in Nat : Budget(j) <= Budget(j + i)}
<1>1. 0 \in Done
  BY Budgets
<1>2. ASSUME NEW i \in Nat, i \in Done PROVE i + 1 \in Done
  <2>1. /\ Budget(j) \in Nat /\ Budget(j + i) \in Nat
        /\ Budget((j + i) + 1) \in Nat
        /\ Budget(j + i) <= Budget((j + i) + 1)
    BY Budgets
  <2>2. Budget(j) <= Budget(j + i) /\ (j + i) + 1 = j + (i + 1)
    BY <1>2
  <2> QED
    BY <2>1, <2>2
<1>3. Nat \subseteq Done
  <2> HIDE DEF Done
  <2> QED
    BY <1>1, <1>2, SetInduction
<1>4. k - j \in Nat /\ j + (k - j) = k
  OBVIOUS
<1> QED
  BY <1>3, <1>4

(* Half the sequence numbers are enough for the whole run.                 *)
FewFrames ==
  /\ RouteChunks <= TxBuffer
  /\ 2 * Budget(StepCount + 1) < SeqSize

LEMMA BudgetBound ==
  ASSUME FewFrames, NEW k \in Nat, k <= StepCount + 1
  PROVE  Bound(Budget(k))
<1>1. StepCount + 1 \in Nat /\ SeqSize \in Nat
  BY ClosedLoopAssumption, HostSessionAssumption
<1>2. /\ Budget(k) \in Nat /\ Budget(StepCount + 1) \in Nat
      /\ Budget(k) <= Budget(StepCount + 1)
  BY <1>1, Budgets, BudgetsUpTo
<1> QED
  BY <1>1, <1>2 DEF Bound, FewFrames

LEMMA RunInit ==
  ASSUME FewFrames, Init
  PROVE  RunInvariant
<1> DEFINE u == Unconnected
           j == 1 + RouteChunks
<1>1. step = 0 /\ failed = FALSE /\ run = Connected(u, 0)
  BY DEF Init
<1>2. /\ Ready(u, 0, 0) /\ u.host.state # "Closed" /\ u.fault = L!Healthy
  BY UnconnectedIsReady
<1>3. u.tx = L!Quiet /\ u.rx = L!Quiet /\ u.answered = <<>>
      /\ u.ready = <<>> /\ u.ctl = K!Booted
  BY DEF Unconnected
<1> HIDE DEF u
<1>4. L!Quiet.delayed = <<>> /\ L!Quiet.previous = L!NoFrame
  BY DEF L!Quiet
<1>5. /\ Held(L!Quiet) = {} /\ Before(L!Quiet) = {} /\ Queued(u) = 0
      /\ Range(u.answered) = {} /\ Range(u.ready) = {}
  BY <1>3, <1>4, NoCells DEF Held, Before, Queued
<1>6. u.ctl.seq = 0
  BY <1>3 DEF K!Booted
<1>7. Within(u, 0, 0)
  <2>1. Flight(u) = {} /\ Held(u.tx) \cup Before(u.tx) = {}
    BY <1>3, <1>5 DEF Flight
  <2>2. u.ctl.seq + Weight(Queued(u) + 0) <= 0
    <3>1. Weight(0) = 0
      <4>1. 0 \in Nat
        OBVIOUS
      <4> QED
        BY <4>1, Weighs
    <3>2. Queued(u) + 0 = 0
      BY <1>5
    <3>3. Weight(Queued(u) + 0) = 0
      BY <3>1, <3>2
    <3> QED
      BY <1>6, <3>3
  <2> QED
    BY <1>2, <2>1, <2>2 DEF Within, Ready, Early
<1>8. RouteChunks \in Nat /\ j \in Nat /\ RouteChunks + 4 = j + 3
      /\ 0 <= StepCount + 1
  BY ClosedLoopAssumption
<1>9. /\ Bound(0 + Weight(j)) /\ 0 + Weight(j) \in Nat
      /\ (0 + Weight(j)) + Weight(3) = Budget(0)
  <2>1. Bound(Budget(0))
    BY <1>8, BudgetBound
  <2>2. Budget(0) = 0 + Weight(j + 3)
    <3>1. Budget(0) = Weight(j + 3) /\ Budget(0) \in Nat
      BY <1>8, Budgets
    <3> QED
      BY <3>1
  <2> HIDE DEF j
  <2> QED
    BY <1>8, <2>1, <2>2, BoundLess
<1>10. Going(run, 0 + Weight(j))
  BY <1>1, <1>2, <1>7, <1>9, ConnectsWithin DEF Ready, FewFrames
<1>11. Going(run, Budget(0))
  BY <1>9, <1>10, GoingMore
<1> QED
  BY <1>1, <1>11 DEF RunInvariant

LEMMA RunStep ==
  ASSUME FewFrames, RunInvariant, Step
  PROVE  RunInvariant'
<1> DEFINE begun == Begun(run, step)
           r == Stopped(begun, step)
           samples == ToSet(S!Stepped(sensors, scenario.faults, step).out)
           e == Exchanged(r, step, samples)
           j == 1 + RouteChunks
           b == Budget(step)
<1>1. step <= StepCount /\ ~failed /\ Exchange(r, samples)
  BY DEF Step, Iteration
<1>2. /\ step \in Nat /\ step + 1 \in Nat /\ step <= StepCount + 1
      /\ step + 1 <= StepCount + 1 /\ StepCount \in Nat
      /\ RouteChunks \in Nat /\ j \in Nat /\ RouteChunks + 4 = (j + 1) + 2
  BY <1>1, ClosedLoopAssumption DEF RunInvariant
<1>3. Going(run, b) /\ b \in Nat
  BY <1>2, Budgets DEF RunInvariant
<1>4. Bound(Budget(step + 1)) /\ Budget(step + 1) = b + Weight((j + 1) + 2)
  BY <1>2, BudgetBound, Budgets
<1> HIDE DEF b, j
<1> DEFINE c == b + Weight(j)
           d == b + Weight(j + 1)
<1>5. /\ Bound(d) /\ d \in Nat /\ d + Weight(2) = Budget(step + 1)
  <2>1. j + 1 \in Nat
    BY <1>2
  <2> QED
    BY <1>3, <1>4, <2>1, BoundLess
<1>6. /\ Bound(c) /\ c \in Nat /\ c + Weight(1) = d
  BY <1>2, <1>3, <1>5, BoundLess
<1>7. Going(begun, c)
  BY <1>3, <1>6, BeginsWithin DEF FewFrames, j
<1> HIDE DEF begun, c, d
<1>8. Going(r, d)
  <2>1. Bound(c + Weight(1))
    BY <1>5, <1>6
  <2>2. Going(r, c + Weight(1))
    BY <1>6, <1>7, <2>1, StopsWithin
  <2> QED
    BY <1>6, <2>2
<1> HIDE DEF r, samples
<1>9. Going(e.run, Budget(step + 1))
  <2>1. Bound(d + Weight(2))
    BY <1>4, <1>5
  <2>2. Going(e.run, d + Weight(2))
    BY <1>5, <1>8, <2>1, ExchangesWithin
  <2> QED
    BY <1>5, <2>2
<1>10. r.host.raised = FALSE
  BY <1>8 DEF Going, Attentive
<1>11. Iterate(e)
  BY <1>1, <1>10 DEF Exchange
<1> HIDE DEF e
<1>12. e.run.host.raised = FALSE
  BY <1>9 DEF Going, Attentive
<1>13. step' = step + 1 /\ failed' = FALSE /\ run' = e.run
  BY <1>11, <1>12 DEF Iterate
<1> QED
  BY <1>2, <1>9, <1>13 DEF RunInvariant

LEMMA RunNext ==
  ASSUME FewFrames, RunInvariant, [Next]_vars
  PROVE  RunInvariant'
<1>1. CASE Step
  BY <1>1, RunStep
<1>2. CASE Finish
  <2>1. step = StepCount + 1 /\ step' = step + 1 /\ failed' = failed
    BY <1>2 DEF Finish
  <2>2. step' \in Nat /\ ~(step' <= StepCount + 1)
    BY <2>1, ClosedLoopAssumption
  <2> QED
    BY <2>1, <2>2 DEF RunInvariant
<1>3. CASE UNCHANGED vars
  BY <1>3 DEF vars, RunInvariant
<1> QED
  BY <1>1, <1>2, <1>3 DEF Next

(* No link and no scenario ends a run of run_closed_loop with an           *)
(* exception, if the route fits the transmit buffer and the whole run      *)
(* stays within half of the sequence numbers.                              *)
THEOREM RunsComplete ==
  ASSUME RouteChunks <= TxBuffer,
         4 * TxCapacity * (RouteChunks + 4) * (StepCount + 2) < SeqSize
  PROVE  Spec => []RunCompletes
<1>1. FewFrames
  <2>1. /\ TxCapacity \in Nat /\ RouteChunks \in Nat /\ StepCount \in Nat
        /\ SeqSize \in Nat
    BY ClosedLoopAssumption, ControllerAssumption, HostSessionAssumption
  <2> DEFINE t == TxCapacity
             x == (RouteChunks + 4) * (StepCount + 2)
  <2>2. x \in Nat /\ (StepCount + 1) + 1 = StepCount + 2
    BY <2>1
  <2>3. 4 * t * (RouteChunks + 4) * (StepCount + 2) = 2 * (2 * t * x)
    BY <2>1
  <2>4. Budget(StepCount + 1) = 2 * t * x
    BY <2>2 DEF Budget, Weight
  <2> HIDE DEF t, x
  <2>5. 2 * Budget(StepCount + 1) < SeqSize
    BY <2>3, <2>4 DEF t
  <2> QED
    BY <2>5 DEF FewFrames
<1>2. Init => RunInvariant
  BY <1>1, RunInit
<1>3. RunInvariant /\ [Next]_vars => RunInvariant'
  BY <1>1, RunNext
<1>4. RunInvariant => RunCompletes
  BY DEF RunInvariant, RunCompletes
<1> QED
  BY <1>2, <1>3, <1>4, PTL DEF Spec
=============================================================================

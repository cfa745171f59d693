----------------------- MODULE FirmwareSession_proofs -----------------------
(***************************************************************************)
(* Proofs about FirmwareSession, for queues of any length, any packets and *)
(* any configuration.  No property of the session is inductive: the route  *)
(* of the controller is whole because the assembly is (RouteOK), and the   *)
(* controller steps once in a millisecond because the session remembers    *)
(* that it has (DrivesOK).                                                 *)
(*                                                                         *)
(* A handler is a chain of operators, so the proof has a lemma for each    *)
(* operator and relations between the session before and after it:         *)
(* Quietly, for what leaves the controller's step and the route alone;     *)
(* Orderly, for what may change the route; and Stepped, for what a whole   *)
(* call may do.                                                            *)
(***************************************************************************)
EXTENDS FirmwareSession, Timing_proofs, FiniteSetTheorems, SequenceTheorems

-----------------------------------------------------------------------------
(* The invariant.                                                          *)
RouteId == {p.id : p \in {q \in Packet : q.type = "Route"}} \cup {NoRoute.id}
Point == [id : RouteId, at : Nat]
Queue(S, cap) == {q \in Seq(S) : Len(q) <= cap}

Session ==
  [rt          : RuntimeRecord,
   lead        : [Task -> Age],
   active      : BOOLEAN,
   tx          : Queue(Frame, TxCapacity),
   sensors     : Queue(Samples, SensorCapacity),
   tracker     : TrackerRecord,
   samples     : [Sensor -> Seq32 \cup {NoStep}],
   assembly    : [id : RouteId, expected : Nat, received : Nat],
   points      : Seq(Point),
   route       : Seq(Point),
   initialized : BOOLEAN,
   command     : Decision,
   drives      : Nat,
   stepped     : BOOLEAN,
   healthAge   : 0 .. HealthPeriod,
   beatAge     : 0 .. HeartbeatPeriod,
   emitted     : SafetyState]

(* What is in of the route under assembly is that route, in order.         *)
WayPoints(id, n) == [i \in 1 .. n |-> [id |-> id, at |-> i]]

WholeRoute(r) ==
  r # <<>> => \E p \in Packet :
                /\ p.type = "Route" /\ p.total = Len(r)
                /\ r = WayPoints(p.id, p.total)

RouteOK(s) ==
  /\ s.assembly.received <= Len(s.points)
  /\ \A i \in 1 .. s.assembly.received :
       s.points[i] = [id |-> s.assembly.id, at |-> i]
  /\ WholeRoute(s.route)

(* The controller steps in a call that marks the millisecond as done.      *)
DrivesOK(s) == s.drives = 0 \/ (s.stepped /\ s.drives = 1)

IInv ==
  /\ fw \in Session
  /\ fw.rt.state \notin {"Startup", "SelfTest"}
  /\ RouteOK(fw)
  /\ OverflowThreshold = 1 => DrivesOK(fw)
  /\ gap \in 0 .. MaxGap /\ idle \in 0 .. MaxIdle

-----------------------------------------------------------------------------
(* What a call may do to the safety state, to the commands that wait in    *)
(* the transmit queue, and to the session.                                 *)
Moves(from, to) ==
  \/ to = from
  \/ to = "Fault"
  \/ from # "Fault" /\ to = "SafeStop"
  \/ from \in Live /\ to \in Driving

Drive == CommandFrame("Tracking")

NoDriveAdded(old, new) ==
  \A i \in DOMAIN new : new[i] = Drive => i \in DOMAIN old /\ old[i] = Drive

NoOrphanAdded(old, new) == Orphans(new) \subseteq Orphans(old)

Settled(s) ==
  /\ s.command # "None"
  /\ s.command = "SafeStop" <=> s.rt.state \in Latched
  /\ s.command = "Control" => s.rt.state \in Driving

RouteKept(s, n) ==
  n.assembly = s.assembly /\ n.points = s.points /\ n.route = s.route

Quietly(s, n) ==
  /\ n \in Session
  /\ Moves(s.rt.state, n.rt.state)
  /\ NoDriveAdded(s.tx, n.tx) /\ NoOrphanAdded(s.tx, n.tx)
  /\ RouteKept(s, n)
  /\ n.command = s.command /\ n.drives = s.drives /\ n.stepped = s.stepped

Orderly(s, n) ==
  /\ n \in Session
  /\ Moves(s.rt.state, n.rt.state)
  /\ NoDriveAdded(s.tx, n.tx) /\ NoOrphanAdded(s.tx, n.tx)
  /\ RouteOK(s) => RouteOK(n)
  /\ n.command = s.command /\ n.drives = s.drives /\ n.stepped = s.stepped

Stepped(s, n) ==
  /\ n \in Session
  /\ Moves(s.rt.state, n.rt.state)
  /\ n.command = "None" \/ Settled(n)
  /\ n.rt.state \in Latched => NoDriveAdded(s.tx, n.tx)
  /\ NoOrphanAdded(s.tx, n.tx)
  /\ RouteOK(n)
  /\ OverflowThreshold = 1 => DrivesOK(n)

LEMMA QuietlyTrans ==
  ASSUME NEW a, NEW b, NEW c, Quietly(a, b), Quietly(b, c)
  PROVE  Quietly(a, c)
<1>1. Moves(a.rt.state, c.rt.state)
  BY DEF Quietly, Moves, Live, Driving
<1>2. NoDriveAdded(a.tx, c.tx) /\ NoOrphanAdded(a.tx, c.tx)
  BY DEF Quietly, NoDriveAdded, NoOrphanAdded
<1> QED
  BY <1>1, <1>2 DEF Quietly, RouteKept

LEMMA QuietlyOrderly ==
  ASSUME NEW s, NEW n, Quietly(s, n)
  PROVE  Orderly(s, n)
BY DEF Quietly, Orderly, RouteKept, RouteOK

LEMMA OrderlyTrans ==
  ASSUME NEW a, NEW b, NEW c, Orderly(a, b), Orderly(b, c)
  PROVE  Orderly(a, c)
<1>1. Moves(a.rt.state, c.rt.state)
  BY DEF Orderly, Moves, Live, Driving
<1>2. NoDriveAdded(a.tx, c.tx) /\ NoOrphanAdded(a.tx, c.tx)
  BY DEF Orderly, NoDriveAdded, NoOrphanAdded
<1> QED
  BY <1>1, <1>2 DEF Orderly

(* A call that makes no decision is over when it was orderly.              *)
LEMMA OrderlyStepped ==
  ASSUME NEW s, NEW n, Orderly(s, n), s.command = "None",
         RouteOK(s), OverflowThreshold = 1 => DrivesOK(s)
  PROVE  Stepped(s, n)
BY DEF Orderly, Stepped, DrivesOK

-----------------------------------------------------------------------------
(* The member functions of RuntimeCore that the session calls.             *)
LEMMA StopSafely ==
  ASSUME NEW r \in RuntimeRecord
  PROVE  /\ StopUnlessFaulted(r) \in RuntimeRecord
         /\ Moves(r.state, StopUnlessFaulted(r).state)
         /\ StopUnlessFaulted(r).state \in Latched
BY DEF StopUnlessFaulted, Transition, RuntimeRecord, SafetyState, Moves,
       Latched

LEMMA OverflowSafely ==
  ASSUME NEW r \in RuntimeRecord
  PROVE  /\ RecordQueueOverflow(r) \in RuntimeRecord
         /\ Moves(r.state, RecordQueueOverflow(r).state)
         /\ OverflowThreshold = 1 => RecordQueueOverflow(r).state \in Latched
<1> DEFINE more == IF r.overflows < OverflowThreshold THEN r.overflows + 1
                                                      ELSE r.overflows
           counted == [r EXCEPT !.overflows = more]
<1>1. /\ more \in 0 .. OverflowThreshold
      /\ OverflowThreshold = 1 => more >= OverflowThreshold
  BY RuntimeConfigAssumption DEF RuntimeRecord
<1>2. RecordQueueOverflow(r) = IF more >= OverflowThreshold
                                 THEN StopUnlessFaulted(counted) ELSE counted
  BY DEF RecordQueueOverflow
<1> HIDE DEF more
<1>3. counted \in RuntimeRecord /\ counted.state = r.state
  BY <1>1 DEF RuntimeRecord
<1> HIDE DEF counted
<1> QED
  BY <1>1, <1>2, <1>3, StopSafely DEF Moves

LEMMA FaultSafely ==
  ASSUME NEW r \in RuntimeRecord
  PROVE  /\ ReportNumericalFault(r) \in RuntimeRecord
         /\ Moves(r.state, ReportNumericalFault(r).state)
BY DEF ReportNumericalFault, Transition, RuntimeRecord, SafetyState, Moves

LEMMA HandshakeSafely ==
  ASSUME NEW r \in RuntimeRecord
  PROVE  /\ NotifyHandshake(r) \in RuntimeRecord
         /\ NotifyHandshake(r).state = r.state
BY HandshakeType DEF NotifyHandshake, RuntimeRecord

-----------------------------------------------------------------------------
(* enqueue.  A frame of its own separates no command from its estimate.    *)
Alone(f) == f.type \in {"Error", "HelloAck", "Heartbeat"}

LEMMA AloneNotDrive ==
  ASSUME NEW f, Alone(f)
  PROVE  f # Drive
BY DEF Alone, Drive, CommandFrame

LEMMA NoOrphanAlone ==
  ASSUME NEW t \in Seq(Frame), NEW f \in Frame, Alone(f)
  PROVE  NoOrphanAdded(t, Append(t, f)) /\ NoOrphanAdded(t, <<f>>)
<1>1. f.type \notin {"Command", "Estimate", "Health"} /\ f # Estimate
  BY DEF Alone, Estimate
<1>2. NoOrphanAdded(t, <<f>>)
  BY <1>1 DEF NoOrphanAdded, Orphans
<1>3. NoOrphanAdded(t, Append(t, f))
  BY <1>1 DEF NoOrphanAdded, Orphans
<1> QED
  BY <1>2, <1>3

LEMMA Sending ==
  ASSUME NEW s \in Session, NEW f \in Frame, NEW n, n = Send(s, f)
  PROVE  /\ n \in Session
         /\ Alone(f) => Quietly(s, n)
         /\ Len(s.tx) < TxCapacity => n = [s EXCEPT !.tx = Append(@, f)]
<1> DEFINE r == RecordQueueOverflow(s.rt)
<1>1. /\ s.tx \in Seq(Frame) /\ Len(s.tx) \in Nat /\ Len(s.tx) <= TxCapacity
      /\ s.rt \in RuntimeRecord /\ TxCapacity \in Nat /\ TxCapacity >= 4
  BY SessionConfigAssumption DEF Session, Queue
<1>2. r \in RuntimeRecord /\ Moves(s.rt.state, r.state)
  BY <1>1, OverflowSafely
<1> HIDE DEF r
<1>3. CASE Len(s.tx) < TxCapacity
  <2> DEFINE t == Append(s.tx, f)
  <2>1. /\ t \in Queue(Frame, TxCapacity)
        /\ f # Drive => NoDriveAdded(s.tx, t)
    BY <1>1, <1>3 DEF Queue, NoDriveAdded
  <2>2. n = [s EXCEPT !.tx = t]
    BY <1>3 DEF Send
  <2> HIDE DEF t
  <2>3. n \in Session
    BY <2>1, <2>2 DEF Session
  <2>4. n.tx = t /\ n.rt = s.rt /\ RouteKept(s, n) /\ n.command = s.command
        /\ n.drives = s.drives /\ n.stepped = s.stepped
    BY <2>2 DEF RouteKept, Session
  <2> QED
    BY <1>1, <2>1, <2>3, <2>4, <2>2, AloneNotDrive, NoOrphanAlone
    DEF Quietly, Moves, t
<1>4. CASE ~(Len(s.tx) < TxCapacity)
  <2>1. /\ <<f>> \in Queue(Frame, TxCapacity)
        /\ f # Drive => NoDriveAdded(s.tx, <<f>>)
    BY <1>1 DEF Queue, NoDriveAdded
  <2>2. n = [s EXCEPT !.tx = <<f>>, !.rt = r]
    BY <1>4 DEF Send, r
  <2>3. n \in Session
    BY <1>2, <2>1, <2>2 DEF Session
  <2>4. n.tx = <<f>> /\ n.rt = r /\ RouteKept(s, n) /\ n.command = s.command
        /\ n.drives = s.drives /\ n.stepped = s.stepped
    BY <2>2 DEF RouteKept, Session
  <2> QED
    BY <1>1, <1>2, <1>4, <2>1, <2>3, <2>4, AloneNotDrive, NoOrphanAlone
    DEF Quietly
<1> QED
  BY <1>3, <1>4

LEMMA SendingError ==
  ASSUME NEW s \in Session
  PROVE  Quietly(s, SendError(s))
<1>1. ErrorSent \in Frame /\ Alone(ErrorSent)
  BY DEF Frame, ErrorSent, Alone
<1> QED
  BY <1>1, Sending DEF SendError

-----------------------------------------------------------------------------
(* EmbeddedControllerCore::step.                                           *)
LEMMA CoreStepping ==
  ASSUME NEW s \in Session, NEW mode \in Mode, NEW n, n = CoreStep(s, mode)
  PROVE  /\ n \in Session /\ Settled(n)
         /\ Moves(s.rt.state, n.rt.state)
         /\ s.rt.state \in Latched => n.drives = s.drives
         /\ n.drives \in {s.drives, s.drives + 1}
         /\ RouteKept(s, n) /\ n.tx = s.tx /\ n.stepped = s.stepped
<1> DEFINE known == IF s.initialized THEN mode ELSE "Unavailable"
           ready == s.route # <<>>
           next  == Ticked(s.rt, known, s.initialized, ready)
           d     == Decide(next, known, s.initialized, ready)
           count == IF d = "Control" THEN s.drives + 1 ELSE s.drives
<1>1. /\ s.rt \in RuntimeRecord /\ s.drives \in Nat
      /\ known \in NavigationMode /\ s.initialized \in BOOLEAN
      /\ ready \in BOOLEAN
  BY SessionConfigAssumption DEF Session
<1> HIDE DEF known, ready
<1>2. next \in RuntimeRecord
  BY <1>1, TickedType
<1>3. Moves(s.rt.state, next.state)
  BY <1>1, TickedMoves DEF Moves, Live, Latched
<1> HIDE DEF next
<1>4. /\ d \in Decision /\ d # "None"
      /\ d = "SafeStop" <=> next.state \in Latched
      /\ d = "Control" => next.state \in Driving
  BY <1>1, <1>2, DecideMatches
<1> HIDE DEF d
<1>5. /\ count \in Nat /\ count \in {s.drives, s.drives + 1}
      /\ d = "SafeStop" => count = s.drives
  BY <1>1
<1> HIDE DEF count
<1>6. n = [s EXCEPT !.rt = next, !.command = d, !.drives = count]
  BY DEF CoreStep, known, ready, next, d, count
<1>7. n \in Session
  BY <1>2, <1>4, <1>5, <1>6 DEF Session
<1>8. /\ n.rt = next /\ n.command = d /\ n.drives = count
      /\ RouteKept(s, n) /\ n.tx = s.tx /\ n.stepped = s.stepped
  BY <1>6 DEF Session, RouteKept
<1>9. s.rt.state \in Latched => next.state \in Latched
  BY <1>3 DEF Moves, Latched, Live
<1> QED
  BY <1>3, <1>4, <1>5, <1>7, <1>8, <1>9 DEF Settled

LEMMA Processing ==
  ASSUME NEW s \in Session, NEW frame, NEW result \in Result,
         NEW n, n = Process(s, frame, result)
  PROVE  Quietly(s, n)
<1> USE DEF Quietly, Moves, NoDriveAdded, RouteKept, NoOrphanAdded
<1>0. s.rt \in RuntimeRecord
  BY DEF Session
<1>1. CASE result = "Accepted"
  <2> DEFINE known == s.initialized \/ "Gnss" \in DOMAIN frame
             r     == NotifyHandshake(s.rt)
  <2>1. known \in BOOLEAN /\ r \in RuntimeRecord /\ r.state = s.rt.state
    BY <1>0, HandshakeSafely
  <2>2. n = [s EXCEPT !.initialized = known, !.rt = r]
    BY <1>1 DEF Process, AcceptInput
  <2> HIDE DEF known, r
  <2>3. n \in Session
    BY <2>1, <2>2 DEF Session
  <2>4. /\ n.rt = r /\ n.tx = s.tx /\ RouteKept(s, n)
        /\ n.command = s.command /\ n.drives = s.drives
        /\ n.stepped = s.stepped
    BY <2>2 DEF Session
  <2> QED
    BY <2>1, <2>3, <2>4
<1>2. CASE result = "Rejected"
  BY <1>2 DEF Process
<1>3. CASE result = "Numerical"
  <2> DEFINE r == ReportNumericalFault(s.rt)
  <2>1. r \in RuntimeRecord /\ Moves(s.rt.state, r.state)
    BY <1>0, FaultSafely
  <2>2. n = [s EXCEPT !.rt = r]
    BY <1>3 DEF Process
  <2> HIDE DEF r
  <2>3. n \in Session
    BY <2>1, <2>2 DEF Session
  <2>4. /\ n.rt = r /\ n.tx = s.tx /\ RouteKept(s, n)
        /\ n.command = s.command /\ n.drives = s.drives
        /\ n.stepped = s.stepped
    BY <2>2 DEF Session
  <2> QED
    BY <2>1, <2>3, <2>4
<1> QED
  BY <1>1, <1>2, <1>3 DEF Result

-----------------------------------------------------------------------------
(* A command that takes its estimate along, and a health record behind     *)
(* one, separate nothing.                                                  *)
LEMMA NoOrphanPair ==
  ASSUME NEW t \in Seq(Frame), NEW f \in Frame, f.type = "Command",
         NEW u, u = Append(Append(t, f), Estimate)
  PROVE  /\ NoOrphanAdded(t, u)
         /\ u # <<>> /\ u[Len(u)] = Estimate
<1> DEFINE k == Len(t)
<1>1. k \in Nat /\ DOMAIN t = 1 .. k
  OBVIOUS
<1>2. Estimate \in Frame /\ Estimate.type = "Estimate"
  BY DEF Frame, Estimate
<1>3. /\ u \in Seq(Frame) /\ Len(u) = k + 2 /\ DOMAIN u = 1 .. k + 2
      /\ \A i \in 1 .. k : u[i] = t[i]
      /\ u[k + 1] = f /\ u[k + 2] = Estimate
  BY <1>2
<1> HIDE DEF k
<1>4. ASSUME NEW i \in Orphans(u) PROVE i \in Orphans(t)
  <2>1. /\ i \in 1 .. k + 2
        /\ \/ u[i].type = "Command" /\ (i = k + 2 \/ u[i + 1] # Estimate)
           \/ u[i] = Estimate /\ (i = 1 \/ u[i - 1].type # "Command")
           \/ u[i].type = "Health" /\ (i = 1 \/ u[i - 1] # Estimate)
    BY <1>3 DEF Orphans
  <2>2. i # k + 2
    <3>1. SUFFICES ASSUME i = k + 2 PROVE FALSE
      OBVIOUS
    <3>2. i - 1 = k + 1 /\ i # 1
      BY <1>1, <3>1
    <3> QED
      BY <1>2, <1>3, <2>1, <3>1, <3>2
  <2>3. i # k + 1
    <3>1. SUFFICES ASSUME i = k + 1 PROVE FALSE
      OBVIOUS
    <3>2. i + 1 = k + 2 /\ i # k + 2
      BY <1>1, <3>1
    <3> QED
      BY <1>2, <1>3, <2>1, <3>1, <3>2
  <2>4. i \in 1 .. k /\ (i # 1 => i - 1 \in 1 .. k)
        /\ (i # k => i + 1 \in 1 .. k)
    BY <1>1, <2>1, <2>2, <2>3
  <2>5. i \in DOMAIN t
    BY <1>1, <2>4
  <2>6. /\ u[i] = t[i] /\ (i # 1 => u[i - 1] = t[i - 1])
        /\ (i # k => u[i + 1] = t[i + 1])
    BY <1>3, <2>4
  <2> QED
    BY <2>1, <2>2, <2>5, <2>6 DEF Orphans, k
<1>5. u # <<>>
  BY <1>1, <1>3
<1> QED
  BY <1>3, <1>4, <1>5 DEF NoOrphanAdded

LEMMA NoOrphanHealth ==
  ASSUME NEW t \in Seq(Frame), t # <<>>, t[Len(t)] = Estimate,
         NEW f \in Frame, f.type = "Health"
  PROVE  NoOrphanAdded(t, Append(t, f))
<1> DEFINE k == Len(t)
           u == Append(t, f)
<1>1. k \in Nat \ {0} /\ DOMAIN t = 1 .. k
  OBVIOUS
<1>2. /\ Len(u) = k + 1 /\ DOMAIN u = 1 .. k + 1
      /\ \A i \in 1 .. k : u[i] = t[i]
      /\ u[k + 1] = f
  <2>1. u \in Seq(Frame) /\ Len(u) = k + 1
    OBVIOUS
  <2>2. \A i \in 1 .. k : u[i] = t[i]
    OBVIOUS
  <2>3. u[k + 1] = f
    OBVIOUS
  <2>4. DOMAIN u = 1 .. Len(u)
    BY <2>1
  <2> HIDE DEF u, k
  <2> QED
    BY <2>1, <2>2, <2>3, <2>4
<1>3. u[k] = Estimate /\ Estimate.type = "Estimate"
  <2>1. t[k] = Estimate
    OBVIOUS
  <2>2. Estimate.type = "Estimate"
    BY DEF Estimate
  <2> HIDE DEF u, k
  <2>3. k \in 1 .. k
    BY <1>1
  <2> QED
    BY <1>2, <2>1, <2>2, <2>3
<1> HIDE DEF u
<1>4. ASSUME NEW i \in Orphans(u) PROVE i \in Orphans(t)
  <2> HIDE DEF k
  <2>1. /\ i \in 1 .. k + 1
        /\ \/ u[i].type = "Command" /\ (i = k + 1 \/ u[i + 1] # Estimate)
           \/ u[i] = Estimate /\ (i = 1 \/ u[i - 1].type # "Command")
           \/ u[i].type = "Health" /\ (i = 1 \/ u[i - 1] # Estimate)
    BY <1>2 DEF Orphans
  <2>2. i # k + 1
    <3>1. SUFFICES ASSUME i = k + 1 PROVE FALSE
      OBVIOUS
    <3>2. i - 1 = k /\ i # 1
      BY <1>1, <3>1
    <3>3. u[i].type = "Health"
      BY <1>2, <3>1
    <3>4. u[i] # Estimate
      BY <1>3, <3>3
    <3> QED
      BY <1>3, <2>1, <3>2, <3>3, <3>4
  <2>3. i \in 1 .. k /\ (i # 1 => i - 1 \in 1 .. k)
        /\ (i # k => i + 1 \in 1 .. k)
    BY <1>1, <2>1, <2>2
  <2>4. i \in DOMAIN t
    BY <1>1, <2>3
  <2>5. /\ u[i] = t[i] /\ (i # 1 => u[i - 1] = t[i - 1])
        /\ (i # k => u[i + 1] = t[i + 1])
    BY <1>2, <2>3
  <2> QED
    BY <2>1, <2>2, <2>4, <2>5 DEF Orphans, k
<1> QED
  BY <1>4 DEF NoOrphanAdded, u

(* emit_controller_output: the frames of a bundle go out one after the     *)
(* other, and none of them overflows the queue.                            *)
Sent(s, n, k) ==
  /\ n \in Session
  /\ Len(n.tx) = Len(s.tx) + k
  /\ s.command # "Control" => NoDriveAdded(s.tx, n.tx)
  /\ n.rt = s.rt /\ n.command = s.command
  /\ n.drives = s.drives /\ n.stepped = s.stepped
  /\ RouteKept(s, n)

LEMMA SentThen ==
  ASSUME NEW a \in Session, NEW b, NEW c, NEW j \in Nat, NEW k \in Nat,
         Sent(a, b, j), Sent(b, c, k)
  PROVE  Sent(a, c, j + k)
<1> DEFINE before == Len(a.tx)   between == Len(b.tx)   after == Len(c.tx)
<1>1. after = before + (j + k)
  <2>1. before \in Nat
    BY DEF Session, Queue
  <2>2. between = before + j /\ after = between + k
    BY DEF Sent
  <2> HIDE DEF before, between, after
  <2> QED
    BY <2>1, <2>2
<1>2. a.command # "Control" => NoDriveAdded(a.tx, c.tx)
  BY DEF Sent, NoDriveAdded
<1> QED
  BY <1>1, <1>2 DEF Sent, RouteKept

LEMMA SendingOne ==
  ASSUME NEW s \in Session, NEW f \in Frame,
         f = Drive => s.command = "Control",
         Len(s.tx) < TxCapacity, NEW n, n = Send(s, f)
  PROVE  Sent(s, n, 1) /\ n.tx = Append(s.tx, f)
<1> DEFINE t == Append(s.tx, f)
<1>1. s.tx \in Seq(Frame)
  BY DEF Session, Queue
<1>2. /\ Len(t) = Len(s.tx) + 1
      /\ s.command # "Control" => NoDriveAdded(s.tx, t)
  BY <1>1 DEF NoDriveAdded
<1>3. n \in Session /\ n = [s EXCEPT !.tx = t]
  BY Sending
<1> HIDE DEF t
<1>4. /\ n.tx = t /\ n.rt = s.rt /\ n.command = s.command
      /\ n.drives = s.drives /\ n.stepped = s.stepped /\ RouteKept(s, n)
  BY <1>3 DEF Session, RouteKept
<1> QED
  BY <1>2, <1>3, <1>4 DEF Sent, t

LEMMA SendingPair ==
  ASSUME NEW s \in Session, Settled(s), Len(s.tx) + 2 <= TxCapacity,
         NEW n, n = SendPair(s)
  PROVE  /\ Sent(s, n, 2) /\ NoOrphanAdded(s.tx, n.tx)
         /\ n.tx # <<>> /\ n.tx[Len(n.tx)] = Estimate
<1> DEFINE f == CommandFrame(WireMode(s.command))
           m == Send(s, f)
<1>1. Len(s.tx) \in Nat /\ TxCapacity \in Nat
  BY SessionConfigAssumption DEF Session, Queue
<1>2. f \in Frame /\ (f = Drive => s.command = "Control")
  BY DEF Session, Settled, Decision, WireMode, ActuatorMode, Frame, Drive,
         CommandFrame
<1>3. f.type = "Command"
  BY DEF CommandFrame
<1> HIDE DEF f
<1>4. Sent(s, m, 1) /\ m.tx = Append(s.tx, f)
  BY <1>1, <1>2, SendingOne
<1>5. n = Send(m, Estimate)
  BY DEF SendPair, f
<1> HIDE DEF m
<1>6. Estimate \in Frame /\ Estimate # Drive
  BY DEF Frame, Estimate, Drive, CommandFrame
<1>7. Sent(m, n, 1) /\ n.tx = Append(m.tx, Estimate)
  <2>1. m \in Session /\ Len(m.tx) = Len(s.tx) + 1
    BY <1>4 DEF Sent
  <2>2. Len(m.tx) < TxCapacity
    <3> DEFINE before == Len(s.tx)   after == Len(m.tx)
    <3>1. before \in Nat /\ after = before + 1 /\ before + 2 <= TxCapacity
      BY <1>1, <2>1
    <3> HIDE DEF before, after
    <3>2. after < TxCapacity
      BY <1>1, <3>1
    <3> QED
      BY <3>2 DEF after
  <2> QED
    BY <1>5, <1>6, <2>1, <2>2, SendingOne
<1>8. Sent(s, n, 1 + 1)
  BY <1>4, <1>7, SentThen
<1>9. s.tx \in Seq(Frame) /\ n.tx = Append(Append(s.tx, f), Estimate)
  BY <1>4, <1>7 DEF Session, Queue
<1>10. /\ NoOrphanAdded(s.tx, n.tx)
      /\ n.tx # <<>> /\ n.tx[Len(n.tx)] = Estimate
  BY <1>2, <1>9, <1>3, NoOrphanPair
<1> QED
  BY <1>8, <1>10

LEMMA SendingHealth ==
  ASSUME NEW s \in Session, Len(s.tx) < TxCapacity,
         s.tx # <<>>, s.tx[Len(s.tx)] = Estimate,
         NEW n, n = SendHealth(s)
  PROVE  Sent(s, n, 1) /\ NoOrphanAdded(s.tx, n.tx)
<1> DEFINE f == HealthFrame(s.rt.state)
           m == Send(s, f)
<1>1. f \in Frame /\ f # Drive /\ f.type = "Health"
  BY DEF Session, RuntimeRecord, Frame, HealthFrame, Drive, CommandFrame
<1> HIDE DEF f
<1>2. Sent(s, m, 1) /\ m.tx = Append(s.tx, f)
  BY <1>1, SendingOne
<1>3. NoOrphanAdded(s.tx, m.tx)
  BY <1>1, <1>2, NoOrphanHealth DEF Session, Queue
<1>4. n = [m EXCEPT !.healthAge = 0, !.emitted = s.rt.state]
  BY DEF SendHealth, f
<1> HIDE DEF m
<1>5. s.rt.state \in SafetyState /\ 0 \in 0 .. HealthPeriod
  BY SessionConfigAssumption DEF Session, RuntimeRecord
<1>6. n \in Session
  BY <1>2, <1>4, <1>5 DEF Session, Sent
<1>7. /\ n.tx = m.tx /\ n.rt = m.rt /\ n.command = m.command
      /\ n.drives = m.drives /\ n.stepped = m.stepped /\ RouteKept(m, n)
  BY <1>2, <1>4 DEF Session, RouteKept, Sent
<1> QED
  BY <1>2, <1>6, <1>7, <1>3 DEF Sent, RouteKept

LEMMA SendingHeartbeat ==
  ASSUME NEW s \in Session, Len(s.tx) < TxCapacity,
         NEW n, n = SendHeartbeat(s)
  PROVE  Sent(s, n, 1) /\ NoOrphanAdded(s.tx, n.tx)
<1> DEFINE m == Send(s, Heartbeat)
<1>1. Heartbeat \in Frame /\ Alone(Heartbeat)
  BY DEF Frame, Heartbeat, Alone
<1>2. Sent(s, m, 1) /\ m.tx = Append(s.tx, Heartbeat)
  BY <1>1, SendingOne, AloneNotDrive
<1>3. NoOrphanAdded(s.tx, m.tx)
  BY <1>1, <1>2, NoOrphanAlone DEF Session, Queue
<1>4. n = [m EXCEPT !.beatAge = 0]
  BY DEF SendHeartbeat
<1> HIDE DEF m
<1>5. 0 \in 0 .. HeartbeatPeriod
  BY SessionConfigAssumption
<1>6. n \in Session
  BY <1>2, <1>4, <1>5 DEF Session, Sent
<1>7. /\ n.tx = m.tx /\ n.rt = m.rt /\ n.command = m.command
      /\ n.drives = m.drives /\ n.stepped = m.stepped /\ RouteKept(m, n)
  BY <1>2, <1>4 DEF Session, RouteKept, Sent
<1> QED
  BY <1>2, <1>6, <1>7, <1>3 DEF Sent, RouteKept

(* The bundle did not fit: the queue was dropped, and that may be a stop.  *)
LEMMA DecidingAgain ==
  ASSUME NEW s \in Session, NEW mode \in Mode,
         NEW n, n = DecideAgain(s, mode)
  PROVE  /\ n \in Session /\ Settled(n)
         /\ Moves(s.rt.state, n.rt.state)
         /\ OverflowThreshold = 1 => n.drives = s.drives
         /\ RouteKept(s, n) /\ n.tx = <<>> /\ n.stepped = s.stepped
<1> DEFINE r == RecordQueueOverflow(s.rt)
           m == [s EXCEPT !.tx = <<>>, !.rt = r]
<1>1. /\ r \in RuntimeRecord /\ Moves(s.rt.state, r.state)
      /\ OverflowThreshold = 1 => r.state \in Latched
  BY OverflowSafely DEF Session
<1>2. n = CoreStep(m, mode)
  BY DEF DecideAgain
<1> HIDE DEF r
<1>3. <<>> \in Queue(Frame, TxCapacity)
  BY SessionConfigAssumption DEF Queue
<1>4. m \in Session
  BY <1>1, <1>3 DEF Session
<1>5. /\ m.rt = r /\ m.tx = <<>> /\ m.drives = s.drives
      /\ m.stepped = s.stepped /\ RouteKept(s, m)
  BY DEF Session, RouteKept
<1> HIDE DEF m
<1>6. /\ n \in Session /\ Settled(n)
      /\ Moves(m.rt.state, n.rt.state)
      /\ m.rt.state \in Latched => n.drives = m.drives
      /\ RouteKept(m, n) /\ n.tx = m.tx /\ n.stepped = m.stepped
  BY <1>2, <1>4, CoreStepping
<1>7. Moves(s.rt.state, n.rt.state)
  BY <1>1, <1>5, <1>6 DEF Moves, Live, Driving
<1> QED
  BY <1>1, <1>5, <1>6, <1>7 DEF RouteKept

LEMMA Emitting ==
  ASSUME NEW s \in Session, Settled(s), NEW forced \in BOOLEAN,
         NEW mode \in Mode, NEW n, n = EmitOutput(s, forced, mode)
  PROVE  /\ n \in Session /\ Settled(n)
         /\ Moves(s.rt.state, n.rt.state)
         /\ n.rt.state \in Latched => NoDriveAdded(s.tx, n.tx)
         /\ NoOrphanAdded(s.tx, n.tx)
         /\ OverflowThreshold = 1 => n.drives = s.drives
         /\ RouteKept(s, n) /\ n.stepped = s.stepped
<1> DEFINE fits    == Room(s, forced)
           h       == IF HealthDue(s, forced) THEN 1 ELSE 0
           b       == IF HeartbeatDue(s) THEN 1 ELSE 0
           decided == IF fits THEN s ELSE DecideAgain(s, mode)
           paired  == SendPair(decided)
           healthy == h = 1 \/ ~fits
           told    == IF healthy THEN SendHealth(paired) ELSE paired
           used    == Len(decided.tx)
           queued  == Len(s.tx)
<1>1. n = IF b = 1 THEN SendHeartbeat(told) ELSE told
  BY DEF EmitOutput
<1>2. /\ decided \in Session /\ Settled(decided)
      /\ Moves(s.rt.state, decided.rt.state)
      /\ OverflowThreshold = 1 => decided.drives = s.drives
      /\ RouteKept(s, decided) /\ decided.stepped = s.stepped
      /\ fits => decided.tx = s.tx
      /\ ~fits => decided.tx = <<>>
  BY DecidingAgain DEF Moves, RouteKept
<1>3. /\ queued \in Nat /\ TxCapacity \in Nat /\ TxCapacity >= 4
      /\ h \in 0 .. 1 /\ b \in 0 .. 1
  BY SessionConfigAssumption DEF Session, Queue
<1>4. fits => 2 + h + b <= TxCapacity - queued
  BY DEF Room, BundleSize
<1> HIDE DEF fits, h, b, decided
<1>5. /\ used \in Nat /\ used + 2 + h + b <= TxCapacity
      /\ ~fits => used + 4 <= TxCapacity
  <2>1. CASE fits
    <3>1. used = queued
      BY <1>2, <2>1
    <3> HIDE DEF used, queued
    <3> QED
      BY <1>3, <1>4, <2>1, <3>1
  <2>2. CASE ~fits
    <3>1. used = 0
      BY <1>2, <2>2
    <3> HIDE DEF used
    <3> QED
      BY <1>3, <2>2, <3>1
  <2> QED
    BY <2>1, <2>2
<1>6. /\ Sent(decided, paired, 2) /\ NoOrphanAdded(decided.tx, paired.tx)
      /\ paired.tx # <<>> /\ paired.tx[Len(paired.tx)] = Estimate
  <2>1. used + 2 <= TxCapacity
    <3> HIDE DEF used
    <3> QED
      BY <1>3, <1>5
  <2> QED
    BY <1>2, <2>1, SendingPair
<1> HIDE DEF paired
<1> DEFINE j == IF healthy THEN 3 ELSE 2
<1>7. /\ Sent(decided, told, j) /\ NoOrphanAdded(decided.tx, told.tx)
      /\ j \in Nat
      /\ b = 1 => used + j < TxCapacity
  <2>1. CASE healthy
    <3>1. used + 2 < TxCapacity /\ (b = 1 => used + 3 < TxCapacity)
      <4> HIDE DEF used
      <4>1. CASE h = 1
        BY <1>3, <1>5, <4>1
      <4>2. CASE ~fits
        BY <1>3, <1>5, <4>2
      <4> QED
        BY <2>1, <4>1, <4>2
    <3>2. paired \in Session /\ Len(paired.tx) < TxCapacity
      BY <1>6, <3>1 DEF Sent
    <3>3. Sent(paired, told, 1) /\ NoOrphanAdded(paired.tx, told.tx)
      BY <1>6, <2>1, <3>2, SendingHealth
    <3>4. Sent(decided, told, 2 + 1)
      BY <1>2, <1>6, <3>3, SentThen
    <3>5. NoOrphanAdded(decided.tx, told.tx)
      BY <1>6, <3>3 DEF NoOrphanAdded
    <3> HIDE DEF used, told
    <3> QED
      BY <2>1, <3>1, <3>4, <3>5
  <2>2. CASE ~healthy
    <3>1. b = 1 => used + 2 < TxCapacity
      <4> HIDE DEF used
      <4> QED
        BY <1>3, <1>5
    <3> HIDE DEF used
    <3> QED
      BY <1>6, <2>2, <3>1
  <2> QED
    BY <2>1, <2>2
<1> HIDE DEF told, j
<1>8. /\ \E k \in Nat : Sent(decided, n, k)
      /\ NoOrphanAdded(decided.tx, n.tx)
  <2>1. CASE b = 1
    <3>1. told \in Session /\ Len(told.tx) = used + j
      BY <1>7 DEF Sent
    <3>2. Len(told.tx) < TxCapacity
      <4> HIDE DEF used
      <4> QED
        BY <1>7, <2>1, <3>1
    <3>3. Sent(told, n, 1) /\ NoOrphanAdded(told.tx, n.tx)
      BY <1>1, <2>1, <3>1, <3>2, SendingHeartbeat
    <3>4. Sent(decided, n, j + 1)
      BY <1>2, <1>7, <3>3, SentThen
    <3> HIDE DEF used
    <3>5. j + 1 \in Nat
      BY <1>7
    <3>6. NoOrphanAdded(decided.tx, n.tx)
      BY <1>7, <3>3 DEF NoOrphanAdded
    <3> QED
      BY <3>4, <3>5, <3>6
  <2>2. CASE b # 1
    <3>1. n = told
      BY <1>1, <2>2
    <3> QED
      BY <1>7, <3>1
  <2> QED
    BY <2>1, <2>2
<1>9. PICK k \in Nat : Sent(decided, n, k)
  BY <1>8
<1>10. /\ n \in Session /\ n.rt = decided.rt /\ n.command = decided.command
       /\ n.drives = decided.drives /\ n.stepped = decided.stepped
       /\ RouteKept(decided, n)
       /\ decided.command # "Control" => NoDriveAdded(decided.tx, n.tx)
  BY <1>9 DEF Sent
<1>11. n.rt.state \in Latched => NoDriveAdded(s.tx, n.tx)
  <2>1. n.rt.state \in Latched => NoDriveAdded(decided.tx, n.tx)
    BY <1>2, <1>10 DEF Settled
  <2> QED
    BY <1>2, <2>1 DEF NoDriveAdded
<1>12. NoOrphanAdded(s.tx, n.tx)
  <2>1. CASE fits
    BY <1>2, <1>8, <2>1
  <2>2. CASE ~fits
    <3>1. Orphans(decided.tx) = {}
      BY <1>2, <2>2 DEF Orphans
    <3> QED
      BY <1>8, <3>1 DEF NoOrphanAdded
  <2> QED
    BY <2>1, <2>2
<1> QED
  BY <1>2, <1>10, <1>11, <1>12 DEF Settled, RouteKept

-----------------------------------------------------------------------------
(* tick.                                                                   *)
LEMMA Consuming ==
  ASSUME NEW s \in Session, NEW mode \in Mode, NEW result \in Result,
         NEW n, n = Consumed(s, mode, result)
  PROVE  /\ n \in Session /\ Settled(n)
         /\ Moves(s.rt.state, n.rt.state)
         /\ n.drives \in {s.drives, s.drives + 1}
         /\ RouteKept(s, n) /\ n.stepped
         /\ NoDriveAdded(s.tx, n.tx) /\ NoOrphanAdded(s.tx, n.tx)
<1> DEFINE q     == Tail(s.sensors)
           taken == [s EXCEPT !.sensors = q]
           fed   == IF s.sensors = <<>> THEN s
                    ELSE Process(taken, Head(s.sensors), result)
           m     == CoreStep(fed, mode)
<1>1. Quietly(s, fed)
  <2>1. CASE s.sensors = <<>>
    BY <2>1 DEF Quietly, Moves, NoDriveAdded, RouteKept, NoOrphanAdded
  <2>2. CASE s.sensors # <<>>
    <3>1. /\ s.sensors \in Seq(Samples) /\ Len(s.sensors) <= SensorCapacity
          /\ Len(s.sensors) \in Nat /\ SensorCapacity \in Nat
      BY SessionConfigAssumption DEF Session, Queue
    <3>2. q \in Queue(Samples, SensorCapacity)
      BY <2>2, <3>1 DEF Queue
    <3> HIDE DEF q
    <3>3. taken \in Session
      BY <3>2 DEF Session
    <3>4. /\ taken.rt = s.rt /\ taken.tx = s.tx /\ RouteKept(s, taken)
          /\ taken.command = s.command /\ taken.drives = s.drives
          /\ taken.stepped = s.stepped
      BY DEF Session, RouteKept
    <3> HIDE DEF taken
    <3>5. Quietly(s, taken)
      BY <3>3, <3>4 DEF Quietly, Moves, NoDriveAdded, NoOrphanAdded
    <3>6. Quietly(taken, fed)
      BY <2>2, <3>3, Processing
    <3> QED
      BY <3>5, <3>6, QuietlyTrans
  <2> QED
    BY <2>1, <2>2
<1>2. n = [m EXCEPT !.stepped = TRUE]
  BY DEF Consumed
<1> HIDE DEF fed
<1>3. fed \in Session /\ fed.drives = s.drives
  BY <1>1 DEF Quietly
<1>4. /\ m \in Session /\ Settled(m)
      /\ Moves(fed.rt.state, m.rt.state)
      /\ m.drives \in {fed.drives, fed.drives + 1}
      /\ RouteKept(fed, m) /\ m.tx = fed.tx
  BY <1>3, CoreStepping
<1> HIDE DEF m
<1>5. n \in Session
  BY <1>2, <1>4 DEF Session
<1>6. /\ n.rt = m.rt /\ n.tx = m.tx /\ n.command = m.command
      /\ n.drives = m.drives /\ RouteKept(m, n) /\ n.stepped
  BY <1>2, <1>4 DEF Session, RouteKept
<1>7. Moves(s.rt.state, n.rt.state)
  BY <1>1, <1>4, <1>6 DEF Quietly, Moves, Live, Driving
<1>8. /\ RouteKept(s, n)
      /\ NoDriveAdded(s.tx, n.tx) /\ NoOrphanAdded(s.tx, n.tx)
  BY <1>1, <1>4, <1>6 DEF Quietly, RouteKept
<1> QED
  BY <1>3, <1>4, <1>5, <1>6, <1>7, <1>8 DEF Settled

LEMMA PolledType ==
  ASSUME NEW lead \in [Task -> Age]
  PROVE  Polled(lead) \in [Task -> Age]
<1>1. ASSUME NEW a \in Int PROVE a % ClockSize \in Age
  BY ClockAssumption DEF Age
<1>2. ASSUME NEW t \in Task PROVE NextRelease(lead, t) \in Age
  <2> DEFINE period == Period[t]
             late   == Lateness(lead, t)
             skip   == late \div period
             next   == lead[t] + (skip + 1) * period
  <2>1. period \in Nat \ {0}
    BY SchedulerConfigAssumption
  <2>2. lead[t] \in Int /\ late \in Int
    BY ClockAssumption DEF Age, Lateness
  <2> HIDE DEF period, late
  <2>3. skip \in Int
    BY <2>1, <2>2
  <2> HIDE DEF skip
  <2>4. next \in Int
    BY <2>1, <2>2, <2>3
  <2>5. NextRelease(lead, t) = next % ClockSize
    BY DEF NextRelease, next, skip, late, period
  <2> HIDE DEF next
  <2> QED
    BY <1>1, <2>4, <2>5
<1> QED
  BY <1>2 DEF Polled

LEMMA Ticking ==
  ASSUME NEW s \in Session, s.command = "None",
         RouteOK(s), OverflowThreshold = 1 => DrivesOK(s),
         NEW mode \in Mode, NEW result \in Result,
         NEW n, n = Tick(s, mode, result)
  PROVE  Stepped(s, n)
<1> DEFINE lead   == Polled(s.lead)
           polled == [s EXCEPT !.lead = lead]
           out    == Consumed(polled, mode, result)
           due    == Due(s.lead)
           forced == "Health" \in due
<1>1. lead \in [Task -> Age]
  BY PolledType DEF Session
<1> HIDE DEF lead
<1>2. polled \in Session
  BY <1>1 DEF Session
<1>3. /\ polled.rt = s.rt /\ polled.tx = s.tx /\ RouteKept(s, polled)
      /\ polled.command = s.command /\ polled.drives = s.drives
      /\ polled.stepped = s.stepped
  BY DEF Session, RouteKept
<1>4. \/ n = s
      \/ n = polled
      \/ Releases(s) /\ n = out
      \/ Releases(s) /\ n = EmitOutput(out, forced, mode)
  BY DEF Tick, lead
<1> HIDE DEF polled
<1>5. Quietly(s, s) /\ Quietly(s, polled)
  BY <1>2, <1>3 DEF Quietly, Moves, NoDriveAdded, RouteKept, NoOrphanAdded
<1>6. CASE n = s \/ n = polled
  BY <1>5, <1>6, QuietlyOrderly, OrderlyStepped
<1>7. CASE Releases(s) /\ (n = out \/ n = EmitOutput(out, forced, mode))
  <2>1. OverflowThreshold = 1 => s.drives = 0
    BY <1>7 DEF Releases, DrivesOK
  <2>2. /\ out \in Session /\ Settled(out)
        /\ Moves(s.rt.state, out.rt.state)
        /\ out.drives \in {s.drives, s.drives + 1}
        /\ RouteKept(s, out) /\ out.stepped
        /\ NoDriveAdded(s.tx, out.tx) /\ NoOrphanAdded(s.tx, out.tx)
    BY <1>2, <1>3, Consuming DEF RouteKept
  <2> HIDE DEF out
  <2>3. OverflowThreshold = 1 => out.drives \in {0, 1}
    BY <2>1, <2>2
  <2>4. RouteOK(out)
    BY <2>2 DEF RouteKept, RouteOK
  <2>5. CASE n = out
    BY <2>2, <2>3, <2>4, <2>5 DEF Stepped, DrivesOK
  <2>6. CASE n = EmitOutput(out, forced, mode)
    <3>1. forced \in BOOLEAN
      OBVIOUS
    <3> HIDE DEF forced
    <3>2. /\ n \in Session /\ Settled(n)
          /\ Moves(out.rt.state, n.rt.state)
          /\ n.rt.state \in Latched => NoDriveAdded(out.tx, n.tx)
          /\ NoOrphanAdded(out.tx, n.tx)
          /\ OverflowThreshold = 1 => n.drives = out.drives
          /\ RouteKept(out, n) /\ n.stepped = out.stepped
      BY <2>2, <2>6, <3>1, Emitting
    <3>3. Moves(s.rt.state, n.rt.state)
      BY <2>2, <3>2 DEF Moves, Live, Driving
    <3>4. /\ n.rt.state \in Latched => NoDriveAdded(s.tx, n.tx)
          /\ NoOrphanAdded(s.tx, n.tx)
      BY <2>2, <3>2 DEF NoDriveAdded, NoOrphanAdded
    <3>5. RouteOK(n)
      BY <2>4, <3>2 DEF RouteKept, RouteOK
    <3> QED
      BY <2>2, <2>3, <3>2, <3>3, <3>4, <3>5 DEF Stepped, DrivesOK
  <2> QED
    BY <1>7, <2>5, <2>6
<1> QED
  BY <1>4, <1>6, <1>7

-----------------------------------------------------------------------------
(* The handlers.                                                           *)
LEMMA Itself ==
  ASSUME NEW s \in Session
  PROVE  Orderly(s, s)
BY DEF Orderly, Moves, NoDriveAdded, NoOrphanAdded

LEMMA ErrorOrderly ==
  ASSUME NEW s \in Session
  PROVE  Orderly(s, SendError(s))
BY SendingError, QuietlyOrderly

(* A handler that rejects a packet may have changed something already.     *)
LEMMA ErrorAfter ==
  ASSUME NEW s, NEW m, Orderly(s, m)
  PROVE  Orderly(s, SendError(m))
BY ErrorOrderly, OrderlyTrans DEF Orderly

LEMMA ObservedType ==
  ASSUME NEW k \in TrackerRecord, NEW seq \in Seq32, NEW step \in Seq32,
         NEW bound \in BOOLEAN
  PROVE  Observed(k, seq, bound, step) \in TrackerRecord
BY DEF Observed, TrackerRecord

LEMMA UntrackedType == Untracked \in TrackerRecord
<1>1. 0 \in Seq32
  BY SequenceAssumption DEF Seq32
<1> QED
  BY <1>1 DEF Untracked, TrackerRecord

LEMMA OpeningSession ==
  ASSUME NEW s \in Session, NEW p \in Packet, NEW n, n = OpenSession(s, p)
  PROVE  Orderly(s, n)
<1> DEFINE k == Observed(Untracked, p.seq, FALSE, 0)
           r == NotifyHandshake(s.rt)
<1>1. k \in TrackerRecord
  <2>1. p.seq \in Seq32 /\ 0 \in Seq32
    BY PacketAssumption, SequenceAssumption DEF Seq32
  <2> QED
    BY <2>1, UntrackedType, ObservedType
<1>2. r \in RuntimeRecord /\ r.state = s.rt.state
  BY HandshakeSafely DEF Session
<1>3. /\ <<>> \in Queue(Frame, TxCapacity)
      /\ <<>> \in Queue(Samples, SensorCapacity)
      /\ NoRoute \in [id : RouteId, expected : Nat, received : Nat]
  BY SessionConfigAssumption DEF Queue, NoRoute, RouteId
<1>4. n = [s EXCEPT !.tx = <<>>, !.sensors = <<>>, !.active = TRUE,
                    !.tracker = k, !.assembly = NoRoute, !.rt = r]
  BY DEF OpenSession
<1> HIDE DEF k, r
<1>5. n \in Session
  BY <1>1, <1>2, <1>3, <1>4 DEF Session
<1>6. /\ n.rt = r /\ n.tx = <<>> /\ n.assembly = NoRoute
      /\ n.points = s.points /\ n.route = s.route /\ n.command = s.command
      /\ n.drives = s.drives /\ n.stepped = s.stepped
  BY <1>4 DEF Session
<1>7. RouteOK(s) => RouteOK(n)
  <2>1. NoRoute.received = 0 /\ Len(n.points) \in Nat
    BY <1>5 DEF NoRoute, Session
  <2> QED
    BY <1>6, <2>1 DEF RouteOK
<1> QED
  BY <1>2, <1>5, <1>6, <1>7
  DEF Orderly, Moves, NoDriveAdded, NoOrphanAdded, Orphans

LEMMA HandlingHello ==
  ASSUME NEW s \in Session, NEW p \in Packet
  PROVE  Orderly(s, HandleHello(s, p))
<1>1. ASSUME NEW ok \in BOOLEAN
      PROVE  HelloAck(ok) \in Frame /\ Alone(HelloAck(ok))
  BY DEF Frame, HelloAck, Alone
<1>2. CASE p.ok
  <2> DEFINE m == OpenSession(s, p)
  <2>1. Orderly(s, m)
    BY OpeningSession
  <2>2. HandleHello(s, p) = Send(m, HelloAck(TRUE))
    BY <1>2 DEF HandleHello
  <2> HIDE DEF m
  <2>3. Orderly(m, HandleHello(s, p))
    BY <1>1, <2>1, <2>2, Sending, QuietlyOrderly DEF Orderly
  <2> QED
    BY <2>1, <2>3, OrderlyTrans
<1>3. CASE ~p.ok
  BY <1>1, <1>3, Sending, QuietlyOrderly DEF HandleHello
<1> QED
  BY <1>2, <1>3

LEMMA HandlingHeartbeat ==
  ASSUME NEW s \in Session, NEW p \in Packet
  PROVE  Orderly(s, HandleHeartbeat(s, p))
<1> DEFINE r == NotifyHandshake(s.rt)
           n == [s EXCEPT !.rt = r]
<1>1. r \in RuntimeRecord /\ r.state = s.rt.state
  BY HandshakeSafely DEF Session
<1> HIDE DEF r
<1>2. n \in Session
  BY <1>1 DEF Session
<1>3. /\ n.rt = r /\ n.tx = s.tx /\ RouteKept(s, n)
      /\ n.command = s.command /\ n.drives = s.drives
      /\ n.stepped = s.stepped
  BY DEF Session, RouteKept
<1>4. HandleHeartbeat(s, p) = n \/ HandleHeartbeat(s, p) = SendError(s)
  BY DEF HandleHeartbeat, r
<1> HIDE DEF n
<1>5. Quietly(s, n)
  BY <1>1, <1>2, <1>3 DEF Quietly, Moves, NoDriveAdded, NoOrphanAdded
<1> QED
  BY <1>4, <1>5, QuietlyOrderly, ErrorOrderly

LEMMA HandlingSensor ==
  ASSUME NEW s \in Session, NEW p \in Packet, p.type = "Sensor"
  PROVE  Orderly(s, HandleSensor(s, p))
<1>1. p.samples \in Samples
  BY PacketAssumption DEF Samples
<1>2. Overlaid(p.samples, s.samples) \in [Sensor -> Seq32 \cup {NoStep}]
  BY PacketAssumption DEF Overlaid, Session
<1>3. /\ s.sensors \in Seq(Samples) /\ s.rt \in RuntimeRecord
      /\ Len(s.sensors) \in Nat /\ Len(s.sensors) <= SensorCapacity
      /\ SensorCapacity \in Nat
  BY SessionConfigAssumption DEF Session, Queue
<1>4. CASE ~Admissible(s, p)
  BY <1>4, ErrorOrderly DEF HandleSensor
<1>5. CASE Admissible(s, p) /\ Len(s.sensors) = SensorCapacity
  <2> DEFINE r == RecordQueueOverflow(s.rt)
             m == [s EXCEPT !.rt = r]
  <2>1. r \in RuntimeRecord /\ Moves(s.rt.state, r.state)
    BY <1>3, OverflowSafely
  <2>2. HandleSensor(s, p) = SendError(m)
    BY <1>3, <1>5 DEF HandleSensor
  <2> HIDE DEF r
  <2>3. m \in Session
    BY <2>1 DEF Session
  <2>4. /\ m.rt = r /\ m.tx = s.tx /\ RouteKept(s, m)
        /\ m.command = s.command /\ m.drives = s.drives
        /\ m.stepped = s.stepped
    BY DEF Session, RouteKept
  <2> HIDE DEF m
  <2>5. Orderly(s, m)
    BY <2>1, <2>3, <2>4, QuietlyOrderly
    DEF Quietly, NoDriveAdded, NoOrphanAdded
  <2> QED
    BY <2>2, <2>5, ErrorAfter
<1>6. CASE Admissible(s, p) /\ Len(s.sensors) < SensorCapacity
  <2> DEFINE q == Append(s.sensors, p.samples)
             o == Overlaid(p.samples, s.samples)
             n == [s EXCEPT !.sensors = q, !.samples = o]
  <2>1. q \in Queue(Samples, SensorCapacity)
    BY <1>1, <1>3, <1>6 DEF Queue
  <2>2. HandleSensor(s, p) = n
    BY <1>3, <1>6 DEF HandleSensor, Enqueued
  <2> HIDE DEF q, o
  <2>3. n \in Session
    BY <1>2, <2>1 DEF Session, o
  <2>4. /\ n.rt = s.rt /\ n.tx = s.tx /\ RouteKept(s, n)
        /\ n.command = s.command /\ n.drives = s.drives
        /\ n.stepped = s.stepped
    BY DEF Session, RouteKept
  <2> HIDE DEF n
  <2> QED
    BY <2>2, <2>3, <2>4, QuietlyOrderly
    DEF Quietly, Moves, NoDriveAdded, NoOrphanAdded
<1> QED
  BY <1>3, <1>4, <1>5, <1>6

LEMMA HandlingSafeStop ==
  ASSUME NEW s \in Session, s.command = "None",
         RouteOK(s), OverflowThreshold = 1 => DrivesOK(s),
         NEW p \in Packet, NEW mode \in Mode
  PROVE  Stepped(s, HandleSafeStop(s, p, mode))
<1>1. CASE ~p.ok
  <2>1. HandleSafeStop(s, p, mode) = SendError(s)
    BY <1>1 DEF HandleSafeStop
  <2> QED
    BY <2>1, ErrorOrderly, OrderlyStepped
<1>2. CASE p.ok
  <2> DEFINE r   == RequestSafeStop(s.rt)
             m   == [s EXCEPT !.rt = r]
             c   == CoreStep(m, mode)
             out == [c EXCEPT !.stepped = TRUE]
             n   == HandleSafeStop(s, p, mode)
  <2>1. /\ r \in RuntimeRecord /\ Moves(s.rt.state, r.state)
        /\ r.state \in Latched
    BY StopSafely DEF Session, RequestSafeStop
  <2>2. n = EmitOutput(out, TRUE, mode)
    BY <1>2 DEF HandleSafeStop
  <2> HIDE DEF r, n
  <2>3. m \in Session
    BY <2>1 DEF Session
  <2>4. /\ m.rt = r /\ m.tx = s.tx /\ RouteKept(s, m)
        /\ m.drives = s.drives
    BY DEF Session, RouteKept
  <2> HIDE DEF m
  <2>5. /\ c \in Session /\ Settled(c)
        /\ Moves(m.rt.state, c.rt.state)
        /\ c.drives = m.drives
        /\ RouteKept(m, c) /\ c.tx = m.tx
    BY <2>1, <2>3, <2>4, CoreStepping
  <2> HIDE DEF c
  <2>6. out \in Session
    BY <2>5 DEF Session
  <2>7. /\ out.rt = c.rt /\ out.tx = c.tx /\ out.command = c.command
        /\ out.drives = c.drives /\ RouteKept(c, out) /\ out.stepped
    BY <2>5 DEF Session, RouteKept
  <2> HIDE DEF out
  <2>8. Settled(out)
    BY <2>5, <2>7 DEF Settled
  <2>9. /\ n \in Session /\ Settled(n)
        /\ Moves(out.rt.state, n.rt.state)
        /\ n.rt.state \in Latched => NoDriveAdded(out.tx, n.tx)
        /\ NoOrphanAdded(out.tx, n.tx)
        /\ OverflowThreshold = 1 => n.drives = out.drives
        /\ RouteKept(out, n) /\ n.stepped = out.stepped
    BY <2>2, <2>6, <2>8, Emitting
  <2>10. Moves(s.rt.state, n.rt.state)
    BY <2>1, <2>4, <2>5, <2>7, <2>9 DEF Moves, Live, Driving
  <2>11. /\ n.rt.state \in Latched => NoDriveAdded(s.tx, n.tx)
         /\ NoOrphanAdded(s.tx, n.tx)
    BY <2>4, <2>5, <2>7, <2>9
  <2>12. RouteKept(s, n)
    BY <2>4, <2>5, <2>7, <2>9 DEF RouteKept
  <2>13. OverflowThreshold = 1 => n.drives = s.drives /\ n.stepped
    BY <2>4, <2>5, <2>7, <2>9
  <2>14. RouteOK(n)
    BY <2>12 DEF RouteKept, RouteOK
  <2>15. OverflowThreshold = 1 => DrivesOK(n)
    BY <2>13 DEF DrivesOK
  <2>16. Stepped(s, n)
    BY <2>9, <2>10, <2>11, <2>14, <2>15 DEF Stepped
  <2> QED
    BY <2>16 DEF n
<1> QED
  BY <1>1, <1>2

-----------------------------------------------------------------------------
(* handle_route.                                                           *)
LEMMA Announcing ==
  ASSUME NEW s \in Session, NEW p \in Packet, p.type = "Route",
         NEW n, n = Announced(s, p)
  PROVE  Orderly(s, n)
<1>1. CASE ~p.clear
  BY <1>1, Itself DEF Announced
<1>2. CASE p.clear
  <2> DEFINE a == [id |-> p.id, expected |-> p.total, received |-> 0]
  <2>1. a \in [id : RouteId, expected : Nat, received : Nat]
    BY PacketAssumption DEF RouteId
  <2>2. a.received = 0
    OBVIOUS
  <2>3. n = [s EXCEPT !.assembly = a]
    BY <1>2 DEF Announced
  <2> HIDE DEF a
  <2>4. n \in Session
    BY <2>1, <2>3 DEF Session
  <2>5. /\ n.assembly = a /\ n.points = s.points /\ n.route = s.route
        /\ n.rt = s.rt /\ n.tx = s.tx /\ n.command = s.command
        /\ n.drives = s.drives /\ n.stepped = s.stepped
    BY <2>3 DEF Session
  <2>6. RouteOK(s) => RouteOK(n)
    <3>1. Len(n.points) \in Nat
      BY <2>4 DEF Session
    <3> QED
      BY <2>2, <2>5, <3>1 DEF RouteOK
  <2> QED
    BY <2>4, <2>5, <2>6 DEF Orderly, Moves, NoDriveAdded, NoOrphanAdded
<1> QED
  BY <1>1, <1>2

(* What a sequence holds that is put together from two, ...                *)
LEMMA Joined ==
  ASSUME NEW S, NEW a \in Seq(S), NEW b \in Seq(S)
  PROVE  /\ a \o b \in Seq(S)
         /\ Len(a \o b) = Len(a) + Len(b)
         /\ \A i \in 1 .. Len(a) : (a \o b)[i] = a[i]
         /\ \A k \in 1 .. Len(a \o b) :
              ~(k <= Len(a)) => (a \o b)[k] = b[k - Len(a)]
<1> DEFINE m == Len(a)   n == Len(b)   r == a \o b
<1>1. /\ r \in Seq(S) /\ Len(r) = m + n /\ m \in Nat /\ n \in Nat
      /\ \A i \in 1 .. m + n : r[i] = IF i <= m THEN a[i] ELSE b[i - m]
  BY ConcatProperties
<1> HIDE DEF m, n, r
<1>2. ASSUME NEW i \in 1 .. m PROVE r[i] = a[i]
  <2>1. i \in 1 .. m + n /\ i <= m
    BY <1>1
  <2> QED
    BY <1>1, <2>1
<1>3. ASSUME NEW k \in 1 .. Len(r), ~(k <= m) PROVE r[k] = b[k - m]
  BY <1>1, <1>3
<1> QED
  BY <1>1, <1>2, <1>3 DEF m, n, r

(* ... and the buffer, after a chunk is written into it.                   *)
Overwrite(b, c, start, got) ==
  SubSeq(b, 1, start) \o c \o SubSeq(b, got + 1, Len(b))

LEMMA Overwritten ==
  ASSUME NEW S, NEW b \in Seq(S), NEW c \in Seq(S),
         NEW start \in Nat, start <= Len(b),
         NEW got \in Nat, got = start + Len(c)
  PROVE  /\ Overwrite(b, c, start, got) \in Seq(S)
         /\ got <= Len(Overwrite(b, c, start, got))
         /\ \A i \in 1 .. start : Overwrite(b, c, start, got)[i] = b[i]
         /\ \A k \in 1 .. got :
              ~(k <= start) => Overwrite(b, c, start, got)[k] = c[k - start]
<1> DEFINE kept == SubSeq(b, 1, start)
           rest == SubSeq(b, got + 1, Len(b))
           both == kept \o c
           r    == both \o rest
<1>1. /\ kept \in Seq(S) /\ Len(kept) = start
      /\ \A i \in 1 .. start : kept[i] = b[i]
  OBVIOUS
<1>2. rest \in Seq(S) /\ Len(rest) \in Nat
  OBVIOUS
<1> HIDE DEF kept, rest
<1>3. both \in Seq(S) /\ Len(both) = got
  BY <1>1, Joined
<1>4. /\ \A i \in 1 .. start : both[i] = kept[i]
      /\ \A k \in 1 .. got : ~(k <= start) => both[k] = c[k - start]
  BY <1>1, <1>3, Joined
<1> HIDE DEF both
<1>5. r \in Seq(S)
  BY <1>2, <1>3, Joined
<1>6. Len(r) = Len(both) + Len(rest)
  BY <1>2, <1>3, Joined
<1>7. \A i \in 1 .. Len(both) : r[i] = both[i]
  BY <1>2, <1>3, Joined
<1>8. got <= Len(r)
  <2> DEFINE more == Len(rest)   all == Len(r)
  <2>1. all = got + more /\ more \in Nat
    BY <1>2, <1>3, <1>6
  <2> HIDE DEF more, all
  <2>2. got <= all
    BY <2>1
  <2> QED
    BY <2>2 DEF all
<1> HIDE DEF r
<1>9. \A i \in 1 .. start : i \in 1 .. got
  OBVIOUS
<1>10. \A i \in 1 .. start : r[i] = b[i]
  BY <1>1, <1>3, <1>4, <1>7, <1>9
<1>11. \A k \in 1 .. got : ~(k <= start) => r[k] = c[k - start]
  BY <1>3, <1>4, <1>7
<1> QED
  BY <1>5, <1>8, <1>10, <1>11 DEF Overwrite, r, both, kept, rest

LEMMA Storing ==
  ASSUME NEW s \in Session, NEW p \in Packet, p.type = "Route",
         Continues(s, p), NEW n, n = Stored(s, p), RouteOK(s)
  PROVE  Orderly(s, n) /\ n.assembly.id = p.id
         /\ n.assembly.expected = p.total
<1> DEFINE c == PointsOf(p)
           got == p.start + p.count
           r == Overwrite(s.points, c, p.start, got)
<1>1. /\ p.start \in Nat /\ p.count \in Nat /\ p.id \in RouteId
      /\ p.id = s.assembly.id /\ p.total = s.assembly.expected
      /\ p.start = s.assembly.received /\ s.points \in Seq(Point)
      /\ p.start <= Len(s.points)
  BY PacketAssumption DEF Continues, Session, RouteId, RouteOK
<1>2. c \in Seq(Point) /\ Len(c) = p.count
  <2>1. \A i \in 1 .. p.count : [id |-> p.id, at |-> p.start + i] \in Point
    <3>1. \A i \in 1 .. p.count : p.start + i \in Nat
      BY <1>1
    <3> QED
      BY <1>1, <3>1 DEF Point
  <2>2. c \in [1 .. p.count -> Point]
    BY <2>1 DEF PointsOf
  <2> HIDE DEF c
  <2> QED
    BY <1>1, <2>2
<1>3. \A i \in 1 .. p.count : c[i] = [id |-> p.id, at |-> p.start + i]
  BY DEF PointsOf
<1> HIDE DEF c
<1>4. /\ r \in Seq(Point) /\ got <= Len(r)
      /\ \A i \in 1 .. p.start : r[i] = s.points[i]
      /\ \A k \in 1 .. got : ~(k <= p.start) => r[k] = c[k - p.start]
  <2>1. got \in Nat /\ got = p.start + Len(c)
    BY <1>1, <1>2
  <2>2. /\ s.points \in Seq(Point) /\ c \in Seq(Point)
        /\ p.start \in Nat /\ p.start <= Len(s.points)
    BY <1>1, <1>2
  <2> HIDE DEF got
  <2>3. r \in Seq(Point) /\ got <= Len(r)
    BY <2>1, <2>2, Overwritten
  <2>4. \A i \in 1 .. p.start : r[i] = s.points[i]
    BY <2>1, <2>2, Overwritten
  <2>5. \A k \in 1 .. got : ~(k <= p.start) => r[k] = c[k - p.start]
    BY <2>1, <2>2, Overwritten
  <2> QED
    BY <2>3, <2>4, <2>5
<1>5. n = [s EXCEPT !.points = r, !.assembly.received = got]
  BY <1>1 DEF Stored, c, Overwrite
<1> HIDE DEF r
<1>6. got \in Nat
  BY <1>1
<1>7. n \in Session
  <2> HIDE DEF got
  <2>1. [s.assembly EXCEPT !.received = got]
          \in [id : RouteId, expected : Nat, received : Nat]
    BY <1>6 DEF Session
  <2> QED
    BY <1>4, <1>5, <2>1 DEF Session
<1>8. /\ n.points = r /\ n.route = s.route
      /\ n.assembly.id = p.id /\ n.assembly.expected = p.total
      /\ n.assembly.received = got
      /\ n.rt = s.rt /\ n.tx = s.tx /\ n.command = s.command
      /\ n.drives = s.drives /\ n.stepped = s.stepped
  <2> HIDE DEF got
  <2> QED
    BY <1>1, <1>5 DEF Session
<1>9. RouteOK(n)
  <2>1. ASSUME NEW i \in 1 .. got
        PROVE  r[i] = [id |-> p.id, at |-> i]
    <3>1. CASE i <= p.start
      <4>1. i \in 1 .. p.start /\ r[i] = s.points[i]
        BY <1>1, <1>4, <3>1
      <4> QED
        BY <1>1, <4>1 DEF RouteOK
    <3>2. CASE ~(i <= p.start)
      <4> DEFINE k == i - p.start
      <4>1. k \in 1 .. p.count /\ p.start + k = i
        BY <1>1, <3>2
      <4>2. r[i] = c[k]
        BY <1>4, <3>2
      <4> HIDE DEF k
      <4> QED
        BY <1>3, <4>1, <4>2
    <3> QED
      BY <3>1, <3>2
  <2>2. WholeRoute(n.route)
    BY <1>8 DEF RouteOK
  <2> QED
    BY <1>4, <1>8, <2>1, <2>2 DEF RouteOK
<1> QED
  BY <1>7, <1>8, <1>9 DEF Orderly, Moves, NoDriveAdded, NoOrphanAdded

LEMMA Installing ==
  ASSUME NEW s \in Session, NEW p \in Packet, p.type = "Route",
         s.assembly.id = p.id, s.assembly.expected = p.total,
         NEW n, n = Installed(s, p), RouteOK(s)
  PROVE  Orderly(s, n)
<1>1. CASE ~p.final
  BY <1>1, Itself DEF Installed
<1>2. CASE p.final /\ (~Complete(s) \/ p.bad)
  <2>1. n = SendError(s)
    BY <1>2 DEF Installed
  <2> QED
    BY <2>1, ErrorOrderly
<1>3. CASE p.final /\ Complete(s) /\ ~p.bad
  <2> DEFINE got == s.assembly.received
             r   == SubSeq(s.points, 1, got)
  <2>1. /\ s.points \in Seq(Point) /\ got \in Nat /\ got <= Len(s.points)
        /\ got = p.total
        /\ \A i \in 1 .. got : s.points[i] = [id |-> p.id, at |-> i]
    BY <1>3 DEF Session, RouteOK, Complete
  <2>2. n = [s EXCEPT !.route = r]
    BY <1>3 DEF Installed
  <2> HIDE DEF got
  <2>3. /\ r \in Seq(Point) /\ Len(r) = got
        /\ \A i \in 1 .. got : r[i] = s.points[i]
    BY <2>1
  <2>4. r = WayPoints(p.id, got)
    <3>1. r = [i \in 1 .. got |-> r[i]]
      BY <2>1, <2>3
    <3>2. \A i \in 1 .. got : r[i] = [id |-> p.id, at |-> i]
      BY <2>1, <2>3
    <3> HIDE DEF r
    <3> QED
      BY <3>1, <3>2 DEF WayPoints
  <2>5. WholeRoute(r)
    BY <2>1, <2>3, <2>4 DEF WholeRoute
  <2> HIDE DEF r
  <2>6. n \in Session
    BY <2>2, <2>3 DEF Session
  <2>7. /\ n.route = r /\ n.points = s.points /\ n.assembly = s.assembly
        /\ n.rt = s.rt /\ n.tx = s.tx /\ n.command = s.command
        /\ n.drives = s.drives /\ n.stepped = s.stepped
    BY <2>2 DEF Session
  <2>8. RouteOK(n)
    BY <2>5, <2>7 DEF RouteOK
  <2> QED
    BY <2>6, <2>7, <2>8 DEF Orderly, Moves, NoDriveAdded, NoOrphanAdded
<1> QED
  BY <1>1, <1>2, <1>3

LEMMA HandlingRoute ==
  ASSUME NEW s \in Session, NEW p \in Packet, p.type = "Route", RouteOK(s)
  PROVE  Orderly(s, HandleRoute(s, p))
<1> DEFINE begun == Announced(s, p)
           n     == HandleRoute(s, p)
<1>1. Orderly(s, begun)
  BY Announcing
<1>2. \/ n = SendError(s)
      \/ n = SendError(begun)
      \/ Continues(begun, p) /\ n = Installed(Stored(begun, p), p)
  BY DEF HandleRoute
<1> HIDE DEF begun, n
<1>3. CASE n = SendError(s)
  BY <1>3, ErrorOrderly DEF n
<1>4. CASE n = SendError(begun)
  BY <1>1, <1>4, ErrorAfter DEF n
<1>5. CASE Continues(begun, p) /\ n = Installed(Stored(begun, p), p)
  <2> DEFINE m == Stored(begun, p)
  <2>1. begun \in Session /\ RouteOK(begun)
    BY <1>1 DEF Orderly
  <2>2. /\ Orderly(begun, m) /\ m.assembly.id = p.id
        /\ m.assembly.expected = p.total
    BY <1>5, <2>1, Storing
  <2>3. n = Installed(m, p)
    BY <1>5
  <2> HIDE DEF m
  <2>4. Orderly(m, n)
    BY <2>1, <2>2, <2>3, Installing DEF Orderly
  <2>5. Orderly(s, n)
    BY <1>1, <2>2, <2>4, OrderlyTrans
  <2> QED
    BY <2>5 DEF n
<1> QED
  BY <1>2, <1>3, <1>4, <1>5

-----------------------------------------------------------------------------
(* handle_packet.                                                          *)
LEMMA ThenStepped ==
  ASSUME NEW a, NEW b, NEW c, Quietly(a, b), Stepped(b, c)
  PROVE  Stepped(a, c)
<1>1. Moves(a.rt.state, c.rt.state)
  BY DEF Quietly, Stepped, Moves, Live, Driving
<1>2. /\ c.rt.state \in Latched => NoDriveAdded(a.tx, c.tx)
      /\ NoOrphanAdded(a.tx, c.tx)
  BY DEF Quietly, Stepped, NoDriveAdded, NoOrphanAdded
<1> QED
  BY <1>1, <1>2 DEF Stepped

LEMMA Tracking ==
  ASSUME NEW s \in Session, NEW p \in Packet
  PROVE  Quietly(s, Tracked(s, p))
<1> DEFINE bound == p.type = "Sensor"
           k     == Observed(s.tracker, p.seq, bound, p.step)
           n     == [s EXCEPT !.tracker = k]
<1>1. bound \in BOOLEAN
  OBVIOUS
<1> HIDE DEF bound
<1>2. k \in TrackerRecord
  BY <1>1, PacketAssumption, ObservedType DEF Session
<1> HIDE DEF k
<1>3. n \in Session
  BY <1>2 DEF Session
<1>4. /\ n.rt = s.rt /\ n.tx = s.tx /\ RouteKept(s, n)
      /\ n.command = s.command /\ n.drives = s.drives
      /\ n.stepped = s.stepped
  BY DEF Session, RouteKept
<1> HIDE DEF n
<1>5. Quietly(s, n)
  BY <1>3, <1>4 DEF Quietly, Moves, NoDriveAdded, NoOrphanAdded
<1> QED
  BY <1>5 DEF Tracked, n, k, bound

LEMMA Dispatching ==
  ASSUME NEW s \in Session, s.command = "None",
         RouteOK(s), OverflowThreshold = 1 => DrivesOK(s),
         NEW p \in Packet, p.type # "Hello", NEW mode \in Mode
  PROVE  Stepped(s, Dispatch(s, p, mode))
<1>1. CASE p.type = "Route"
  <2>1. Dispatch(s, p, mode) = HandleRoute(s, p)
    BY <1>1 DEF Dispatch
  <2> QED
    BY <1>1, <2>1, HandlingRoute, OrderlyStepped
<1>2. CASE p.type = "Sensor"
  <2>1. Dispatch(s, p, mode) = HandleSensor(s, p)
    BY <1>2 DEF Dispatch
  <2> QED
    BY <1>2, <2>1, HandlingSensor, OrderlyStepped
<1>3. CASE p.type = "SafeStop"
  <2>1. Dispatch(s, p, mode) = HandleSafeStop(s, p, mode)
    BY <1>3 DEF Dispatch
  <2> QED
    BY <2>1, HandlingSafeStop
<1>4. CASE p.type = "Heartbeat"
  <2>1. Dispatch(s, p, mode) = HandleHeartbeat(s, p)
    BY <1>4 DEF Dispatch
  <2> QED
    BY <2>1, HandlingHeartbeat, OrderlyStepped
<1>5. CASE p.type = "Other"
  <2>1. Dispatch(s, p, mode) = SendError(s)
    BY <1>5 DEF Dispatch
  <2> QED
    BY <2>1, ErrorOrderly, OrderlyStepped
<1> QED
  BY <1>1, <1>2, <1>3, <1>4, <1>5, PacketAssumption

LEMMA HandlingPacket ==
  ASSUME NEW s \in Session, s.command = "None",
         RouteOK(s), OverflowThreshold = 1 => DrivesOK(s),
         NEW p \in Packet, NEW mode \in Mode
  PROVE  Stepped(s, HandlePacket(s, p, mode))
<1> DEFINE m == Tracked(s, p)
           n == HandlePacket(s, p, mode)
<1>1. \/ n = HandleHello(s, p)
      \/ n = SendError(s)
      \/ n = s
      \/ p.type # "Hello" /\ n = Dispatch(m, p, mode)
  BY DEF HandlePacket
<1>2. CASE n = HandleHello(s, p)
  BY <1>2, HandlingHello, OrderlyStepped
<1>3. CASE n = SendError(s)
  BY <1>3, ErrorOrderly, OrderlyStepped
<1>4. CASE n = s
  BY <1>4, Itself, OrderlyStepped
<1>5. CASE p.type # "Hello" /\ n = Dispatch(m, p, mode)
  <2>1. Quietly(s, m)
    BY Tracking
  <2> HIDE DEF m
  <2>2. /\ m \in Session /\ m.command = "None" /\ RouteOK(m)
        /\ OverflowThreshold = 1 => DrivesOK(m)
    BY <2>1 DEF Quietly, RouteKept, RouteOK, DrivesOK
  <2>3. Stepped(m, n)
    BY <1>5, <2>2, Dispatching
  <2> HIDE DEF n
  <2>4. Stepped(s, n)
    BY <2>1, <2>3, ThenStepped
  <2> QED
    BY <2>4 DEF n
<1> QED
  BY <1>1, <1>2, <1>3, <1>4, <1>5

-----------------------------------------------------------------------------
(* Every call keeps the invariant.                                         *)
LEMMA CalledOK ==
  ASSUME IInv
  PROVE  /\ Called \in Session /\ Called.command = "None"
         /\ RouteOK(Called) /\ (OverflowThreshold = 1 => DrivesOK(Called))
         /\ Called.rt = fw.rt /\ Called.tx = fw.tx
         /\ RouteKept(fw, Called) /\ Called.active = fw.active
<1> DEFINE n == [fw EXCEPT !.command = "None"]
<1>1. fw \in Session
  BY DEF IInv
<1>2. n \in Session
  BY <1>1 DEF Session, Decision
<1>3. /\ n.rt = fw.rt /\ n.tx = fw.tx /\ RouteKept(fw, n)
      /\ n.command = "None" /\ n.drives = fw.drives
      /\ n.stepped = fw.stepped /\ n.active = fw.active
  BY <1>1 DEF Session, RouteKept
<1>4. Called = n
  BY DEF Called
<1> HIDE DEF n
<1> QED
  BY <1>2, <1>3, <1>4 DEF IInv, RouteKept, RouteOK, DrivesOK

LEMMA CallStep ==
  ASSUME IInv, SomeFeed \/ FeedCorrupt \/ SomeTick
  PROVE  Stepped(Called, fw')
<1>1. CASE SomeFeed
  <2>1. PICK p \in Packet, mode \in Mode : Feed(p, mode)
    BY <1>1 DEF SomeFeed
  <2>2. fw' = HandlePacket(Called, p, mode)
    BY <2>1 DEF Feed
  <2> QED
    BY <2>2, CalledOK, HandlingPacket
<1>2. CASE FeedCorrupt
  <2>1. fw' = SendError(Called)
    BY <1>2 DEF FeedCorrupt
  <2> QED
    BY <2>1, CalledOK, ErrorOrderly, OrderlyStepped
<1>3. CASE SomeTick
  <2>1. PICK mode \in Mode, result \in Result : TickCall(mode, result)
    BY <1>3 DEF SomeTick
  <2>2. fw' = Tick(Called, mode, result)
    BY <2>1 DEF TickCall
  <2> QED
    BY <2>2, CalledOK, Ticking
<1> QED
  BY <1>1, <1>2, <1>3

LEMMA AgedWhileReadType ==
  ASSUME NEW r \in RuntimeRecord, NEW d \in Nat
  PROVE  /\ AgedWhileRead(r, d) \in RuntimeRecord
         /\ AgedWhileRead(r, d).state = r.state
<1> DEFINE v == IF r.state \in Live /\ r.hostSeen THEN Older(r.validAge, d)
                                                  ELSE 0
           b == IF r.state \in Driving /\ r.blind THEN Older(r.blindAge, d)
                                                  ELSE 0
<1>1. v \in Age /\ b \in Age
  BY ZeroIsAge, OlderIsAge DEF RuntimeRecord
<1>2. AgedWhileRead(r, d) = [r EXCEPT !.validAge = v, !.blindAge = b]
  BY DEF AgedWhileRead
<1> HIDE DEF v, b
<1> QED
  BY <1>1, <1>2 DEF RuntimeRecord

LEMMA AtMostType ==
  ASSUME NEW n \in Nat, NEW cap \in Nat
  PROVE  AtMost(n, cap) \in 0 .. cap
BY DEF AtMost

LEMMA AdvanceStep ==
  ASSUME IInv, NEW d \in 1 .. MaxGap, Advance(d)
  PROVE  /\ fw' \in Session /\ fw'.rt.state = fw.rt.state
         /\ fw'.command = "None" /\ fw'.tx = fw.tx /\ fw'.drives = 0
         /\ RouteKept(fw, fw')
         /\ gap' \in 0 .. MaxGap /\ idle' \in 0 .. MaxIdle
<1> DEFINE s      == Called
           r      == AgedWhileRead(s.rt, d)
           lead   == Nearer(s.lead, d)
           health == AtMost(s.healthAge + d, HealthPeriod)
           beat   == AtMost(s.beatAge + d, HeartbeatPeriod)
<1>1. d \in Nat /\ MaxGap \in Nat /\ MaxIdle \in Nat
  BY SessionConfigAssumption
<1>2. /\ s \in Session /\ s.command = "None" /\ s.rt = fw.rt
      /\ s.tx = fw.tx /\ RouteKept(fw, s)
  BY CalledOK
<1> HIDE DEF s
<1>3. r \in RuntimeRecord /\ r.state = s.rt.state
  BY <1>1, <1>2, AgedWhileReadType DEF Session
<1>4. lead \in [Task -> Age]
  BY <1>1, <1>2, ClockAssumption DEF Nearer, Session, Age
<1>5. health \in 0 .. HealthPeriod
  <2>1. s.healthAge + d \in Nat /\ HealthPeriod \in Nat
    BY <1>1, <1>2, SessionConfigAssumption DEF Session
  <2> QED
    BY <2>1, AtMostType
<1>6. beat \in 0 .. HeartbeatPeriod
  <2>1. s.beatAge + d \in Nat /\ HeartbeatPeriod \in Nat
    BY <1>1, <1>2, SessionConfigAssumption DEF Session
  <2> QED
    BY <2>1, AtMostType
<1>7. fw' = [s EXCEPT !.rt = r, !.lead = lead, !.stepped = FALSE,
                      !.healthAge = health, !.beatAge = beat, !.drives = 0]
  BY DEF Advance, Waited, s
<1> HIDE DEF r, lead, health, beat
<1>8. fw' \in Session
  BY <1>2, <1>3, <1>4, <1>5, <1>6, <1>7 DEF Session
<1>9. /\ fw'.rt = r /\ fw'.command = "None" /\ fw'.tx = s.tx
      /\ fw'.drives = 0 /\ RouteKept(s, fw')
  BY <1>2, <1>7 DEF Session, RouteKept
<1>10. gap \in 0 .. MaxGap /\ idle \in 0 .. MaxIdle
  BY DEF IInv
<1>11. gap' \in 0 .. MaxGap /\ idle' \in 0 .. MaxIdle
  BY <1>1, <1>10 DEF Advance
<1> QED
  BY <1>2, <1>3, <1>8, <1>9, <1>11 DEF RouteKept

LEMMA PopStep ==
  ASSUME IInv, PopFrame
  PROVE  /\ fw' \in Session /\ fw'.rt = fw.rt
         /\ fw'.command = "None" /\ fw'.tx = Tail(fw.tx)
         /\ RouteOK(fw') /\ (OverflowThreshold = 1 => DrivesOK(fw'))
<1> DEFINE s == Called
           t == Tail(s.tx)
<1>1. /\ s \in Session /\ s.command = "None" /\ s.rt = fw.rt
      /\ s.tx = fw.tx /\ s.tx # <<>>
      /\ RouteOK(s) /\ (OverflowThreshold = 1 => DrivesOK(s))
  BY CalledOK DEF PopFrame
<1>2. fw' = [s EXCEPT !.tx = t]
  BY DEF PopFrame
<1> HIDE DEF s
<1>3. /\ s.tx \in Seq(Frame) /\ Len(s.tx) <= TxCapacity
      /\ Len(s.tx) \in Nat /\ TxCapacity \in Nat
  BY <1>1, SessionConfigAssumption DEF Session, Queue
<1>4. t \in Queue(Frame, TxCapacity)
  BY <1>1, <1>3 DEF Queue
<1>5. t = Tail(fw.tx)
  BY <1>1
<1> HIDE DEF t
<1>6. fw' \in Session
  BY <1>1, <1>2, <1>4 DEF Session
<1>7. /\ fw'.rt = s.rt /\ fw'.tx = t /\ RouteKept(s, fw')
      /\ fw'.command = s.command /\ fw'.drives = s.drives
      /\ fw'.stepped = s.stepped
  BY <1>1, <1>2 DEF Session, RouteKept
<1> QED
  BY <1>1, <1>5, <1>6, <1>7 DEF RouteKept, RouteOK, DrivesOK

LEMMA InitInvariant == Init => IInv
<1> SUFFICES ASSUME Init PROVE IInv
  OBVIOUS
<1> DEFINE r == Transition(Begun, "Ready")
<1>1. r \in RuntimeRecord /\ r.state = "Ready"
  <2>1. Begun \in RuntimeRecord
    BY RuntimeConfigAssumption, ZeroIsAge DEF Begun, RuntimeRecord, SafetyState
  <2> QED
    BY <2>1, TransitionType DEF Transition, SafetyState, RuntimeRecord
<1> HIDE DEF r
<1>2. Released \in [Task -> Age]
  BY ClockAssumption, SchedulerConfigAssumption DEF Released, Age
<1>3. /\ <<>> \in Queue(Frame, TxCapacity)
      /\ <<>> \in Queue(Samples, SensorCapacity)
      /\ NoRoute \in [id : RouteId, expected : Nat, received : Nat]
      /\ 0 \in 0 .. HealthPeriod /\ 0 \in 0 .. HeartbeatPeriod
  BY SessionConfigAssumption DEF Queue, NoRoute, RouteId
<1>4. [k \in Sensor |-> NoStep] \in [Sensor -> Seq32 \cup {NoStep}]
  OBVIOUS
<1>5. fw \in Session
  BY <1>1, <1>2, <1>3, <1>4, UntrackedType
  DEF Init, Booted, r, Session, Decision, SafetyState
<1>6. /\ fw.rt = r /\ fw.assembly = NoRoute /\ fw.points = <<>>
      /\ fw.route = <<>> /\ fw.drives = 0
  BY DEF Init, Booted, r
<1>7. RouteOK(fw)
  BY <1>6 DEF RouteOK, NoRoute, WholeRoute
<1> QED
  BY <1>1, <1>5, <1>6, <1>7, SessionConfigAssumption
  DEF Init, IInv, DrivesOK

LEMMA NextInvariant == IInv /\ [Next]_vars => IInv'
<1> SUFFICES ASSUME IInv, [Next]_vars PROVE IInv'
  OBVIOUS
<1>1. ASSUME Moves(fw.rt.state, fw'.rt.state)
      PROVE  fw'.rt.state \notin {"Startup", "SelfTest"}
  BY <1>1 DEF IInv, Moves, Driving
<1>2. CASE SomeAdvance
  <2>1. PICK d \in 1 .. MaxGap : Advance(d)
    BY <1>2 DEF SomeAdvance
  <2>2. /\ fw' \in Session /\ fw'.rt.state = fw.rt.state
        /\ fw'.drives = 0 /\ RouteKept(fw, fw')
        /\ gap' \in 0 .. MaxGap /\ idle' \in 0 .. MaxIdle
    BY <2>1, AdvanceStep
  <2>3. RouteOK(fw') /\ DrivesOK(fw')
    BY <2>2 DEF IInv, RouteKept, RouteOK, DrivesOK
  <2> QED
    BY <2>2, <2>3 DEF IInv, RouteOK, DrivesOK
<1>3. CASE SomeFeed \/ FeedCorrupt \/ SomeTick
  <2>1. Stepped(Called, fw') /\ Called.rt = fw.rt
    BY <1>3, CallStep, CalledOK
  <2>2. fw'.rt.state \notin {"Startup", "SelfTest"}
    BY <1>1, <2>1 DEF Stepped
  <2>3. gap' \in 0 .. MaxGap /\ idle' = idle
    BY <1>3, SessionConfigAssumption
    DEF IInv, SomeFeed, Feed, FeedCorrupt, SomeTick, TickCall
  <2> QED
    BY <2>1, <2>2, <2>3 DEF IInv, Stepped, RouteOK, DrivesOK
<1>4. CASE PopFrame
  <2>1. /\ fw' \in Session /\ fw'.rt = fw.rt
        /\ RouteOK(fw') /\ (OverflowThreshold = 1 => DrivesOK(fw'))
    BY <1>4, PopStep
  <2> QED
    BY <1>4, <2>1 DEF IInv, PopFrame, RouteOK, DrivesOK
<1>5. CASE UNCHANGED vars
  BY <1>5 DEF vars, IInv, RouteOK, DrivesOK
<1> QED
  BY <1>2, <1>3, <1>4, <1>5 DEF Next

(* The inductive invariant holds of every state of every session.          *)
THEOREM Invariant == Spec => []IInv
BY InitInvariant, NextInvariant, PTL DEF Spec

(* Whatever is fed, in whatever order, the queues hold what they may and   *)
(* no more, and every field of FirmwareSession keeps its range.            *)
THEOREM SessionTypes == Spec => []TypeOK
<1>1. IInv => TypeOK
  BY DEF IInv, TypeOK, Session, Queue
<1> QED
  BY Invariant, <1>1, PTL

(* However the chunks of different routes are interleaved, repeated, left  *)
(* out or refused, the controller follows one route that was sent, whole.  *)
THEOREM RouteCorrect == Spec => []RouteWhole
<1>1. IInv => RouteWhole
  BY DEF IInv, RouteOK, WholeRoute, WayPoints, RouteWhole
<1> QED
  BY Invariant, <1>1, PTL

(* Where one overflow of a queue is a stop, as the firmware is configured, *)
(* the controller steps once in a millisecond at most: deciding again      *)
(* after an overflow never steps it a second time.                         *)
THEOREM DrivesCorrect ==
  ASSUME OverflowThreshold = 1
  PROVE  Spec => []DrivesOnce
<1>1. IInv => DrivesOnce
  BY DEF IInv, DrivesOK, DrivesOnce
<1> QED
  BY Invariant, <1>1, PTL

-----------------------------------------------------------------------------
(* Commands to drive, counted.                                             *)
LEMMA TracksFinite ==
  ASSUME NEW tx \in Seq(Frame)
  PROVE  IsFiniteSet({i \in DOMAIN tx : tx[i] = Drive})
<1>1. IsFiniteSet(1 .. Len(tx))
  BY FS_Interval
<1>2. {i \in DOMAIN tx : tx[i] = Drive} \subseteq 1 .. Len(tx)
  OBVIOUS
<1> QED
  BY <1>1, <1>2, FS_Subset

LEMMA FewerTracks ==
  ASSUME NEW old \in Seq(Frame), NEW new, NoDriveAdded(old, new)
  PROVE  Tracks(new) <= Tracks(old)
<1> DEFINE O == {i \in DOMAIN old : old[i] = Drive}
           N == {i \in DOMAIN new : new[i] = Drive}
<1>1. IsFiniteSet(O)
  BY TracksFinite
<1>2. N \in SUBSET O
  BY DEF NoDriveAdded
<1>3. Tracks(old) = Cardinality(O) /\ Tracks(new) = Cardinality(N)
  BY DEF Tracks, Drive
<1> HIDE DEF O, N
<1> QED
  BY <1>1, <1>2, <1>3, FS_Subset

LEMMA PoppedTracks ==
  ASSUME NEW old \in Seq(Frame), old # <<>>
  PROVE  Tracks(Tail(old)) <= Tracks(old)
<1> DEFINE new == Tail(old)
           O == {i \in DOMAIN old : old[i] = Drive}
           N == {i \in DOMAIN new : new[i] = Drive}
           f == [i \in N |-> i + 1]
<1>1. IsFiniteSet(O)
  BY TracksFinite
<1>2. \A i \in DOMAIN new : /\ i \in Nat /\ i + 1 \in DOMAIN old
                             /\ new[i] = old[i + 1]
  OBVIOUS
<1>3. Tracks(old) = Cardinality(O) /\ Tracks(new) = Cardinality(N)
  BY DEF Tracks, Drive
<1>4. f \in Injection(N, O)
  <2>1. f \in [N -> O]
    BY <1>2
  <2>2. \A i, j \in N : f[i] = f[j] => i = j
    BY <1>2
  <2> QED
    BY <2>1, <2>2 DEF Injection, IsInjective
<1> HIDE DEF f, O, N
<1>5. Cardinality(N) <= Cardinality(O)
  BY <1>1, <1>4, FS_Injection
<1> QED
  BY <1>3, <1>5

(* In a step that ends with a latched stop, and in every later one, the    *)
(* session queues no command to drive.                                     *)
THEOREM DriveEndsCorrect == Spec => NoDriveOnceStopped
<1> DEFINE Kept == fw'.rt.state \in Latched => Tracks(fw'.tx) <= Tracks(fw.tx)
<1>1. IInv /\ [Next]_vars => [Kept]_vars
  <2> SUFFICES ASSUME IInv, Next, fw'.rt.state \in Latched
               PROVE  Tracks(fw'.tx) <= Tracks(fw.tx)
    OBVIOUS
  <2>1. fw.tx \in Seq(Frame)
    BY DEF IInv, Session, Queue
  <2>2. CASE SomeAdvance
    <3>1. fw'.tx = fw.tx
      BY <2>2, AdvanceStep DEF SomeAdvance
    <3>2. NoDriveAdded(fw.tx, fw.tx)
      BY DEF NoDriveAdded
    <3> QED
      BY <2>1, <3>1, <3>2, FewerTracks
  <2>3. CASE SomeFeed \/ FeedCorrupt \/ SomeTick
    <3>1. NoDriveAdded(fw.tx, fw'.tx)
      BY <2>3, CallStep, CalledOK DEF Stepped
    <3> QED
      BY <2>1, <3>1, FewerTracks
  <2>4. CASE PopFrame
    <3>1. fw'.tx = Tail(fw.tx) /\ fw.tx # <<>>
      BY <2>4, PopStep DEF PopFrame
    <3> QED
      BY <2>1, <3>1, PoppedTracks
  <2> QED
    BY <2>2, <2>3, <2>4 DEF Next
<1> QED
  BY Invariant, <1>1, PTL DEF Spec, NoDriveOnceStopped

(* Nothing but the sending of its first part separates the frames of a     *)
(* bundle, whatever overflows: an overflow drops bundles whole.            *)
LEMMA FewerOrphans ==
  ASSUME NEW old \in Seq(Frame), NEW new, NoOrphanAdded(old, new)
  PROVE  ~(Cardinality(Orphans(new)) > Cardinality(Orphans(old)))
<1>1. IsFiniteSet(1 .. Len(old))
  BY FS_Interval
<1>2. Orphans(old) \subseteq 1 .. Len(old)
  BY DEF Orphans
<1>3. IsFiniteSet(Orphans(old))
  BY <1>1, <1>2, FS_Subset
<1>4. /\ Cardinality(Orphans(new)) <= Cardinality(Orphans(old))
      /\ IsFiniteSet(Orphans(new))
  BY <1>3, FS_Subset DEF NoOrphanAdded
<1>5. /\ Cardinality(Orphans(new)) \in Nat
      /\ Cardinality(Orphans(old)) \in Nat
  BY <1>3, <1>4, FS_CardinalityType
<1> QED
  BY <1>4, <1>5

THEOREM BundlesCorrect == Spec => BundlesWhole
<1> DEFINE Kept ==
      Cardinality(Orphans(fw'.tx)) > Cardinality(Orphans(fw.tx)) => PopFrame
<1>1. IInv /\ [Next]_vars => [Kept]_vars
  <2> SUFFICES ASSUME IInv, Next PROVE Kept
    OBVIOUS
  <2>1. fw.tx \in Seq(Frame)
    BY DEF IInv, Session, Queue
  <2>2. CASE SomeAdvance
    <3>1. fw'.tx = fw.tx
      BY <2>2, AdvanceStep DEF SomeAdvance
    <3>2. NoOrphanAdded(fw.tx, fw'.tx)
      BY <3>1 DEF NoOrphanAdded
    <3> QED
      BY <2>1, <3>2, FewerOrphans
  <2>3. CASE SomeFeed \/ FeedCorrupt \/ SomeTick
    <3>1. NoOrphanAdded(fw.tx, fw'.tx)
      BY <2>3, CallStep, CalledOK DEF Stepped
    <3> QED
      BY <2>1, <3>1, FewerOrphans
  <2>4. CASE PopFrame
    BY <2>4
  <2> QED
    BY <2>2, <2>3, <2>4 DEF Next
<1> QED
  BY Invariant, <1>1, PTL DEF Spec, BundlesWhole

-----------------------------------------------------------------------------
LEMMA NextImplements == IInv /\ [Next]_vars => [Fsm!Next]_(Fsm!vars)
<1> SUFFICES ASSUME IInv, [Next]_vars PROVE [Fsm!Next]_(Fsm!vars)
  OBVIOUS
<1>1. /\ fw.rt.state \in SafetyState
      /\ fw.rt.state \notin {"Startup", "SelfTest"}
  BY DEF IInv, Session, RuntimeRecord
<1>2. ASSUME Moves(fw.rt.state, fw'.rt.state)
      PROVE  fw'.rt.state \in Fsm!Reach[fw.rt.state]
  BY <1>1, <1>2 DEF Moves, Fsm!Reach, SafetyState, Live, Driving
<1>3. Moves(fw.rt.state, fw.rt.state)
  BY DEF Moves
<1>4. CASE SomeAdvance \/ PopFrame
  <2>1. fw'.rt.state = fw.rt.state /\ fw'.command = "None"
    BY <1>4, AdvanceStep, PopStep DEF SomeAdvance
  <2> QED
    BY <1>2, <1>3, <2>1 DEF Fsm!Next
<1>5. CASE SomeFeed \/ FeedCorrupt \/ SomeTick
  <2>1. Stepped(Called, fw') /\ Called.rt = fw.rt
    BY <1>5, CallStep, CalledOK
  <2>2. fw'.rt.state \in Fsm!Reach[fw.rt.state]
    BY <1>2, <2>1 DEF Stepped
  <2>3. fw'.rt.state \in SafetyState /\ fw'.command \in Decision
    BY <2>1 DEF Stepped, Session, RuntimeRecord
  <2>4. fw'.command \in Fsm!Issued[fw'.rt.state] \cup {"None"}
    BY <2>1, <2>3
    DEF Stepped, Settled, Fsm!Issued, SafetyState, Decision, Latched, Driving
  <2> QED
    BY <2>2, <2>4 DEF Fsm!Next
<1>6. CASE UNCHANGED vars
  BY <1>6 DEF vars, Fsm!vars
<1> QED
  BY <1>4, <1>5, <1>6 DEF Next

(* What the session decides and queues, packet by packet and tick by tick, *)
(* implements the abstract safety machine.                                 *)
THEOREM SessionImplements == Spec => ImplementsFsm
<1>1. Init => Fsm!Init
  BY DEF Init, Booted, Begun, Transition, Fsm!Init
<1> QED
  BY Invariant, NextImplements, <1>1, PTL DEF Spec, ImplementsFsm, Fsm!Spec

-----------------------------------------------------------------------------
(* HostSilenceBounded, for every period, timeout, queue and pace of the    *)
(* loop: how long a host may be silent before the session stops driving.   *)
(*                                                                         *)
(* Three clocks are at work.  The scheduler says when the core steps next, *)
(* if its leads are read as what they are (OnTime); the queue gives one    *)
(* frame to each step, and each frame it gives restarts the watchdog; and  *)
(* the watchdog counts from the last of them (Measured).                   *)

(* HELLO comes and the loop comes round before the counter has gone half   *)
(* of its way, and the watchdog's age is read before it wraps.             *)
Timely ==
  /\ 2 * (MaxIdle + MaxGap) < ClockSize
  /\ HostTimeout + StepGap < ClockSize

-----------------------------------------------------------------------------
(* What the member functions of the runtime leave to the watchdog.         *)
Watched(r, q) ==
  /\ q \in RuntimeRecord
  /\ q.state \in Live => r.state \in Live
  /\ q.hostSeen = r.hostSeen /\ q.validAge = r.validAge

LEMMA WatchedTrans ==
  ASSUME NEW a, NEW b, NEW c, Watched(a, b), Watched(b, c)
  PROVE  Watched(a, c)
BY DEF Watched

LEMMA TransitionWatched ==
  ASSUME NEW r \in RuntimeRecord, NEW next \in SafetyState,
         next \in Live => r.state \in Live
  PROVE  Watched(r, Transition(r, next))
BY DEF Watched, Transition, RuntimeRecord

LEMMA OverflowWatched ==
  ASSUME NEW r \in RuntimeRecord
  PROVE  Watched(r, RecordQueueOverflow(r))
<1> DEFINE c == [r EXCEPT !.overflows =
                   IF @ < OverflowThreshold THEN @ + 1 ELSE @]
<1>1. c \in RuntimeRecord /\ Watched(r, c)
  BY ClockAssumption, RuntimeConfigAssumption DEF RuntimeRecord, Watched
<1>2. RecordQueueOverflow(r) \in {c, StopUnlessFaulted(c)}
  BY DEF RecordQueueOverflow
<1> HIDE DEF c
<1>3. Watched(c, StopUnlessFaulted(c)) /\ Watched(c, c)
  BY <1>1, TransitionWatched
  DEF StopUnlessFaulted, Watched, Live, SafetyState
<1> QED
  BY <1>1, <1>2, <1>3, WatchedTrans

(* A tick that leaves the session live found the watchdog in time.         *)
LEMMA TickedWatched ==
  ASSUME NEW r \in RuntimeRecord, NEW mode \in NavigationMode,
         NEW healthy \in BOOLEAN, NEW ready \in BOOLEAN,
         NEW n, n = Ticked(r, mode, healthy, ready)
  PROVE  /\ Watched(r, n)
         /\ n.state \in Live /\ r.hostSeen => r.validAge <= HostTimeout
<1> DEFINE w == Watchdog(r)
           h == HealthCheck(w, healthy)
<1>1. /\ Watched(r, w)
      /\ w.state \in Live /\ r.hostSeen => r.validAge <= HostTimeout
  <2>1. CASE WatchdogExpired(r)
    BY <2>1, TransitionWatched
    DEF Watchdog, Transition, RuntimeRecord, Live, SafetyState
  <2>2. CASE ~WatchdogExpired(r)
    BY <2>2, ClockAssumption, RuntimeConfigAssumption
    DEF Watchdog, WatchdogExpired, Watched, RuntimeRecord, Age
  <2> QED
    BY <2>1, <2>2
<1> HIDE DEF w
<1>2. Watched(w, h)
  <2>1. w \in RuntimeRecord
    BY <1>1 DEF Watched
  <2> QED
    BY <2>1, TransitionWatched
    DEF HealthCheck, ReportNumericalFault, Watched, Live, SafetyState
<1>3. n = Navigate(h, mode, healthy, ready)
  BY DEF Ticked, h, w
<1>4. h \in RuntimeRecord
  BY <1>2 DEF Watched
<1> HIDE DEF h
<1>5. Watched(h, h)
  BY <1>4 DEF Watched
<1>6. Watched(h, n)
  <2>1. CASE h.state = "Ready"
    BY <1>3, <1>4, <1>5, <2>1, TransitionWatched
    DEF Navigate, Start, Live, SafetyState
  <2>2. CASE h.state = "Running"
    <3>1. n = FromRunning(h, mode)
      BY <1>3, <2>2 DEF Navigate
    <3>2. /\ Watched(h, [h EXCEPT !.blind = FALSE])
          /\ Watched(h, [h EXCEPT !.blind = FALSE, !.state = "Degraded"])
          /\ Watched(h, [h EXCEPT !.blind = TRUE, !.blindAge = 0,
                                  !.state = "Degraded"])
      BY <1>4, <2>2, ZeroIsAge
      DEF Watched, RuntimeRecord, Live, SafetyState
    <3> QED
      BY <3>1, <3>2 DEF FromRunning, Aided, Unaided
  <2>3. CASE h.state = "Degraded"
    <3>1. n = FromDegraded(h, mode)
      BY <1>3, <2>3 DEF Navigate
    <3>2. /\ Watched(h, [h EXCEPT !.blind = FALSE, !.state = "Running"])
          /\ Watched(h, [h EXCEPT !.blind = FALSE])
      BY <1>4, <2>3 DEF Watched, RuntimeRecord, Live, SafetyState
    <3>3. /\ Watched(h, [h EXCEPT !.blind = TRUE, !.blindAge = 0])
          /\ Watched(h, [h EXCEPT !.state = "SafeStop"])
      BY <1>4, ZeroIsAge DEF Watched, RuntimeRecord, Live, SafetyState
    <3>4. Watched(h, StillBlind(h))
      BY <1>4, <1>5, <3>3, StillBlindCases
    <3> QED
      BY <3>1, <3>2, <3>4 DEF FromDegraded, NavigationMode, Aided, Unaided
  <2>4. CASE h.state \notin Live
    BY <1>3, <1>5, <2>4 DEF Navigate, Live
  <2> QED
    BY <2>1, <2>2, <2>3, <2>4 DEF Live
<1>7. Watched(r, n)
  BY <1>1, <1>2, <1>6, WatchedTrans
<1>8. n.state \in Live => w.state \in Live
  BY <1>2, <1>6 DEF Watched
<1> QED
  BY <1>1, <1>7, <1>8

-----------------------------------------------------------------------------
(* What the operators of the session leave to it.  Only the names of the   *)
(* fields matter here, and not what the queues hold.                       *)
Sound(s) ==
  /\ DOMAIN s = {"rt", "lead", "active", "tx", "sensors", "tracker",
                 "samples", "assembly", "points", "route", "initialized",
                 "command", "drives", "stepped", "healthAge", "beatAge",
                 "emitted"}
  /\ s.rt \in RuntimeRecord
  /\ s.initialized \in BOOLEAN

Alike(s, n) ==
  /\ n.lead = s.lead /\ n.active = s.active
  /\ n.sensors = s.sensors /\ n.samples = s.samples

Waiting(s, n) ==
  /\ Sound(n) /\ Watched(s.rt, n.rt)
  /\ Alike(s, n) /\ n.stepped = s.stepped

LEMMA SessionSound ==
  ASSUME NEW s \in Session
  PROVE  Sound(s)
BY DEF Session, Sound

LEMMA WaitingTrans ==
  ASSUME NEW a, NEW b, NEW c, Waiting(a, b), Waiting(b, c)
  PROVE  Waiting(a, c)
BY WatchedTrans DEF Waiting, Alike

LEMMA WaitingItself ==
  ASSUME NEW s, Sound(s)
  PROVE  Waiting(s, s)
BY DEF Waiting, Sound, Watched, Alike

LEMMA SendWaits ==
  ASSUME NEW s, Sound(s), NEW f
  PROVE  Waiting(s, Send(s, f))
<1> DEFINE r == RecordQueueOverflow(s.rt)
           t == Append(s.tx, f)
           a == [s EXCEPT !.tx = t]
           b == [s EXCEPT !.tx = <<f>>, !.rt = r]
<1>1. Watched(s.rt, r) /\ r \in RuntimeRecord
  BY OverflowWatched DEF Sound, Watched
<1>2. Send(s, f) \in {a, b}
  BY DEF Send
<1> HIDE DEF r, t
<1>3. Waiting(s, a)
  BY DEF Waiting, Sound, Watched, Alike
<1>4. Waiting(s, b)
  BY <1>1 DEF Waiting, Sound, Alike
<1> QED
  BY <1>2, <1>3, <1>4

LEMMA CoreStepWaits ==
  ASSUME NEW s, Sound(s), NEW mode \in Mode, NEW n, n = CoreStep(s, mode)
  PROVE  /\ Waiting(s, n)
         /\ n.rt.state \in Live /\ s.rt.hostSeen =>
              s.rt.validAge <= HostTimeout
<1> DEFINE known == IF s.initialized THEN mode ELSE "Unavailable"
           ready == s.route # <<>>
           r     == Ticked(s.rt, known, s.initialized, ready)
           d     == Decide(r, known, s.initialized, ready)
           k     == IF d = "Control" THEN s.drives + 1 ELSE s.drives
<1>1. known \in NavigationMode
  BY SessionConfigAssumption DEF NavigationMode
<1>2. n = [s EXCEPT !.rt = r, !.command = d, !.drives = k]
  BY DEF CoreStep
<1>3. s.rt \in RuntimeRecord /\ s.initialized \in BOOLEAN
      /\ ready \in BOOLEAN
  BY DEF Sound
<1> HIDE DEF known, ready
<1>4. /\ Watched(s.rt, r)
      /\ r.state \in Live /\ s.rt.hostSeen => s.rt.validAge <= HostTimeout
  BY <1>1, <1>3, TickedWatched
<1> HIDE DEF r, d, k
<1>5. n.rt = r /\ Sound(n) /\ Alike(s, n) /\ n.stepped = s.stepped
  BY <1>2, <1>4 DEF Sound, Alike, Watched
<1> QED
  BY <1>4, <1>5 DEF Waiting

LEMMA EmitWaits ==
  ASSUME NEW s, Sound(s), NEW forced, NEW mode \in Mode
  PROVE  Waiting(s, EmitOutput(s, forced, mode))
<1> DEFINE n == EmitOutput(s, forced, mode)
           r == RecordQueueOverflow(s.rt)
           e == [s EXCEPT !.tx = <<>>, !.rt = r]
           decided == IF Room(s, forced) THEN s ELSE DecideAgain(s, mode)
           commanded == Send(decided, CommandFrame(WireMode(decided.command)))
           paired == SendPair(decided)
           told   == IF HealthDue(s, forced) \/ ~Room(s, forced)
                       THEN SendHealth(paired) ELSE paired
<1>1. n = IF HeartbeatDue(s) THEN SendHeartbeat(told) ELSE told
  BY DEF EmitOutput
<1>2. Waiting(s, decided)
  <2>1. Watched(s.rt, r) /\ r \in RuntimeRecord
    BY OverflowWatched DEF Sound, Watched
  <2>2. DecideAgain(s, mode) = CoreStep(e, mode)
    BY DEF DecideAgain
  <2> HIDE DEF r
  <2>3. Waiting(s, e)
    BY <2>1 DEF Waiting, Sound, Alike
  <2> HIDE DEF e
  <2>4. Waiting(e, DecideAgain(s, mode))
    BY <2>2, <2>3, CoreStepWaits DEF Waiting
  <2> QED
    BY <2>3, <2>4, WaitingTrans, WaitingItself
<1> HIDE DEF decided
<1>3. Waiting(decided, commanded)
  BY <1>2, SendWaits DEF Waiting
<1>4. paired = Send(commanded, Estimate)
  BY DEF SendPair
<1> HIDE DEF commanded
<1>5. Waiting(commanded, paired)
  BY <1>3, <1>4, SendWaits DEF Waiting
<1>6. Waiting(s, paired)
  BY <1>2, <1>3, <1>5, WaitingTrans
<1> HIDE DEF paired
<1>7. Waiting(paired, told)
  <2> DEFINE m == Send(paired, HealthFrame(paired.rt.state))
  <2>1. Waiting(paired, m)
    BY <1>6, SendWaits DEF Waiting
  <2>2. SendHealth(paired) =
          [m EXCEPT !.healthAge = 0, !.emitted = paired.rt.state]
    BY DEF SendHealth
  <2> HIDE DEF m
  <2>3. Waiting(m, SendHealth(paired))
    BY <2>1, <2>2 DEF Waiting, Sound, Watched, Alike
  <2>4. Waiting(paired, SendHealth(paired)) /\ Waiting(paired, paired)
    BY <1>6, <2>1, <2>3, WaitingTrans, WaitingItself DEF Waiting
  <2> QED
    BY <2>4
<1>8. Waiting(s, told)
  BY <1>6, <1>7, WaitingTrans
<1> HIDE DEF told
<1>9. Waiting(told, SendHeartbeat(told))
  <2> DEFINE m == Send(told, Heartbeat)
  <2>1. Waiting(told, m)
    BY <1>8, SendWaits DEF Waiting
  <2>2. SendHeartbeat(told) = [m EXCEPT !.beatAge = 0]
    BY DEF SendHeartbeat
  <2> HIDE DEF m
  <2>3. Waiting(m, SendHeartbeat(told))
    BY <2>1, <2>2 DEF Waiting, Sound, Watched, Alike
  <2> QED
    BY <2>1, <2>3, WaitingTrans
<1> QED
  BY <1>1, <1>8, <1>9, WaitingTrans

-----------------------------------------------------------------------------
(* What a packet does: it leaves things as they are, it ends in a stop, or *)
(* the host was heard with it.                                             *)
HeardIn(s, p) ==
  \/ p.type = "Hello" /\ p.ok
  \/ /\ s.active /\ Admitted(s, p)
     /\ \/ p.type = "Heartbeat" /\ p.ok
        \/ /\ p.type = "Sensor" /\ Admissible(s, p)
           /\ Len(s.sensors) < SensorCapacity

Stopping(s, n) ==
  /\ Sound(n) /\ Alike(s, n)
  /\ n.rt.state \notin Live

(* What may have joined the queue of sensor frames.                        *)
Carried == {p.samples : p \in {q \in Packet : q.type = "Sensor"}}

Joins(s, f) ==
  \A k \in DOMAIN f : s.samples[k] = NoStep \/ StepIsNewer(f[k], s.samples[k])

Lined(s, n) ==
  \/ n.samples = s.samples /\ n.sensors \in {s.sensors, <<>>}
  \/ \E f \in Carried : /\ Joins(s, f)
                        /\ n.sensors = Append(s.sensors, f)
                        /\ n.samples = Overlaid(f, s.samples)

Refreshed(s, n) ==
  /\ Sound(n) /\ n.lead = s.lead /\ n.stepped = s.stepped /\ n.active
  /\ Lined(s, n)
  /\ n.rt.state \in Live =>
       /\ s.rt.state \in Live
       /\ \/ n.rt.hostSeen /\ n.rt.validAge = 0
          \/ /\ s.active
             /\ n.rt.hostSeen = s.rt.hostSeen /\ n.rt.validAge = s.rt.validAge

LEMMA HandshakeRefreshes ==
  ASSUME NEW r \in RuntimeRecord, NEW q, q = NotifyHandshake(r)
  PROVE  /\ q \in RuntimeRecord /\ q.state = r.state
         /\ q.state \in Live => q.hostSeen /\ q.validAge = 0
BY ZeroIsAge DEF NotifyHandshake, RuntimeRecord

LEMMA WaitingStops ==
  ASSUME NEW a, NEW b, NEW c, Stopping(a, b), Waiting(b, c)
  PROVE  Stopping(a, c)
BY DEF Stopping, Waiting, Watched, Alike

LEMMA WaitingRefreshes ==
  ASSUME NEW a, NEW b, NEW c, Refreshed(a, b), Waiting(b, c)
  PROVE  Refreshed(a, c)
BY DEF Refreshed, Waiting, Watched, Alike, Lined

LEMMA HelloHeard ==
  ASSUME NEW s, Sound(s), NEW p, NEW n, n = HandleHello(s, p)
  PROVE  Waiting(s, n) \/ (p.ok /\ Refreshed(s, n))
<1>1. CASE p.ok
  <2> DEFINE r == NotifyHandshake(s.rt)
             m == OpenSession(s, p)
  <2>1. /\ r \in RuntimeRecord /\ r.state = s.rt.state
        /\ r.state \in Live => r.hostSeen /\ r.validAge = 0
    BY HandshakeRefreshes DEF Sound
  <2>2. m = [s EXCEPT !.tx = <<>>, !.sensors = <<>>, !.active = TRUE,
                      !.tracker = Observed(Untracked, p.seq, FALSE, 0),
                      !.assembly = NoRoute, !.rt = r]
    BY DEF OpenSession
  <2> HIDE DEF r
  <2>3. Sound(m) /\ m.rt = r /\ m.lead = s.lead /\ m.active
        /\ m.stepped = s.stepped
        /\ m.sensors = <<>> /\ m.samples = s.samples
    BY <2>1, <2>2 DEF Sound
  <2>4. Refreshed(s, m)
    BY <2>1, <2>3 DEF Refreshed, Lined
  <2>5. n = Send(m, HelloAck(TRUE))
    BY <1>1 DEF HandleHello
  <2> HIDE DEF m
  <2>6. Waiting(m, n)
    BY <2>3, <2>5, SendWaits
  <2> QED
    BY <1>1, <2>4, <2>6, WaitingRefreshes
<1>2. CASE ~p.ok
  BY <1>2, SendWaits DEF HandleHello
<1> QED
  BY <1>1, <1>2

LEMMA RouteWaits ==
  ASSUME NEW s, Sound(s), NEW p
  PROVE  Waiting(s, HandleRoute(s, p))
<1> DEFINE a == Announced(s, p)
           b == Stored(a, p)
           c == [b EXCEPT !.route = SubSeq(b.points, 1, b.assembly.received)]
<1>1. Waiting(s, a)
  BY DEF Waiting, Sound, Watched, Alike, Announced
<1>2. HandleRoute(s, p) \in {SendError(s), SendError(a), Installed(b, p)}
  BY DEF HandleRoute
<1> HIDE DEF a
<1>3. Waiting(a, b)
  BY <1>1 DEF Waiting, Sound, Watched, Alike, Stored
<1> HIDE DEF b
<1>4. Waiting(b, c) /\ Waiting(b, b)
  BY <1>3 DEF Waiting, Sound, Watched, Alike
<1>5. Installed(b, p) \in {b, c, SendError(b)}
  BY DEF Installed
<1> HIDE DEF c
<1>6. Waiting(b, SendError(b)) /\ Waiting(a, SendError(a))
      /\ Waiting(s, SendError(s))
  BY <1>1, <1>3, SendWaits DEF Waiting, SendError
<1>7. Waiting(s, b)
  BY <1>1, <1>3, WaitingTrans
<1>8. Waiting(s, c) /\ Waiting(s, SendError(b)) /\ Waiting(s, SendError(a))
  BY <1>1, <1>4, <1>6, <1>7, WaitingTrans
<1> QED
  BY <1>2, <1>5, <1>6, <1>7, <1>8

LEMMA SensorHeard ==
  ASSUME NEW s, Sound(s), s.active, Len(s.sensors) \in 0 .. SensorCapacity,
         NEW p \in Packet, p.type = "Sensor", NEW n, n = HandleSensor(s, p)
  PROVE  \/ Waiting(s, n)
         \/ /\ Admissible(s, p) /\ Len(s.sensors) < SensorCapacity
            /\ Refreshed(s, n)
<1> DEFINE r == RecordQueueOverflow(s.rt)
           m == [s EXCEPT !.rt = r]
           e == Enqueued(s, p)
<1>1. Waiting(s, SendError(s))
  BY SendWaits DEF SendError
<1>2. Waiting(s, SendError(m))
  <2>1. Watched(s.rt, r) /\ r \in RuntimeRecord
    BY OverflowWatched DEF Sound, Watched
  <2> HIDE DEF r
  <2>2. Waiting(s, m)
    BY <2>1 DEF Waiting, Sound, Alike
  <2> HIDE DEF m
  <2> QED
    BY <2>2, SendWaits, WaitingTrans DEF SendError, Waiting
<1>3. ASSUME Admissible(s, p) PROVE Refreshed(s, e)
  <2>1. /\ Sound(e) /\ e.lead = s.lead /\ e.active = s.active
        /\ e.stepped = s.stepped /\ e.rt = s.rt
        /\ e.sensors = Append(s.sensors, p.samples)
        /\ e.samples = Overlaid(p.samples, s.samples)
    BY DEF Sound, Enqueued
  <2>2. p.samples \in Carried /\ Joins(s, p.samples)
    BY <1>3 DEF Carried, Joins, Admissible, SamplesValid
  <2>3. Lined(s, e)
    BY <2>1, <2>2 DEF Lined
  <2> QED
    BY <2>1, <2>3 DEF Refreshed
<1>4. \/ n \in {SendError(s), SendError(m)}
      \/ /\ n = e /\ Admissible(s, p) /\ Len(s.sensors) < SensorCapacity
  <2>1. CASE ~Admissible(s, p)
    BY <2>1 DEF HandleSensor
  <2>2. CASE Admissible(s, p) /\ Len(s.sensors) < SensorCapacity
    <3>1. Len(s.sensors) # SensorCapacity
      BY <2>2, SessionConfigAssumption
    <3> QED
      BY <2>2, <3>1 DEF HandleSensor
  <2>3. CASE Admissible(s, p) /\ Len(s.sensors) = SensorCapacity
    BY <2>3 DEF HandleSensor
  <2> QED
    BY <2>1, <2>2, <2>3, SessionConfigAssumption
<1> QED
  BY <1>1, <1>2, <1>3, <1>4

LEMMA SafeStopStops ==
  ASSUME NEW s, Sound(s), NEW p, NEW mode \in Mode,
         NEW n, n = HandleSafeStop(s, p, mode)
  PROVE  Waiting(s, n) \/ Stopping(s, n)
<1>1. CASE p.ok
  <2> DEFINE r   == RequestSafeStop(s.rt)
             m   == [s EXCEPT !.rt = r]
             c   == CoreStep(m, mode)
             out == [c EXCEPT !.stepped = TRUE]
  <2>1. r \in RuntimeRecord /\ r.state \notin Live
    BY TransitionType
    DEF RequestSafeStop, StopUnlessFaulted, Transition, RuntimeRecord, Live,
        Sound, SafetyState
  <2> HIDE DEF r
  <2>2. Stopping(s, m)
    BY <2>1 DEF Stopping, Sound, Alike
  <2> HIDE DEF m
  <2>3. Waiting(m, c)
    BY <2>2, CoreStepWaits DEF Stopping
  <2>4. Stopping(s, c)
    BY <2>2, <2>3, WaitingStops
  <2>5. n = EmitOutput(out, TRUE, mode)
    BY <1>1 DEF HandleSafeStop, c, m, r
  <2> HIDE DEF c
  <2>6. Stopping(s, out)
    BY <2>4 DEF Stopping, Sound, Alike
  <2> HIDE DEF out
  <2>7. Waiting(out, n)
    BY <2>5, <2>6, EmitWaits DEF Stopping
  <2> QED
    BY <2>6, <2>7, WaitingStops
<1>2. CASE ~p.ok
  BY <1>2, SendWaits DEF HandleSafeStop, SendError
<1> QED
  BY <1>1, <1>2

LEMMA HeartbeatHeard ==
  ASSUME NEW s, Sound(s), s.active, NEW p, NEW n, n = HandleHeartbeat(s, p)
  PROVE  Waiting(s, n) \/ (p.ok /\ Refreshed(s, n))
<1>1. CASE p.ok
  <2> DEFINE r == NotifyHandshake(s.rt)
  <2>1. /\ r \in RuntimeRecord /\ r.state = s.rt.state
        /\ r.state \in Live => r.hostSeen /\ r.validAge = 0
    BY HandshakeRefreshes DEF Sound
  <2>2. n = [s EXCEPT !.rt = r]
    BY <1>1 DEF HandleHeartbeat
  <2> HIDE DEF r
  <2> QED
    BY <1>1, <2>1, <2>2 DEF Refreshed, Sound, Lined
<1>2. CASE ~p.ok
  BY <1>2, SendWaits DEF HandleHeartbeat, SendError
<1> QED
  BY <1>1, <1>2

LEMMA PacketHeard ==
  ASSUME NEW s, Sound(s), Len(s.sensors) \in 0 .. SensorCapacity,
         NEW p \in Packet, NEW mode \in Mode,
         NEW n, n = HandlePacket(s, p, mode)
  PROVE  \/ Waiting(s, n)
         \/ Stopping(s, n)
         \/ HeardIn(s, p) /\ Refreshed(s, n)
<1> DEFINE t == Tracked(s, p)
<1>1. CASE p.type = "Hello"
  BY <1>1, HelloHeard DEF HandlePacket, HeardIn
<1>2. CASE p.type # "Hello" /\ ~s.active /\ p.type # "SafeStop"
  BY <1>2, SendWaits DEF HandlePacket, SendError
<1>3. CASE p.type # "Hello" /\ (s.active \/ p.type = "SafeStop")
  <2>1. Waiting(s, t) /\ t.samples = s.samples /\ t.rt = s.rt
    BY DEF Tracked, Waiting, Sound, Watched, Alike
  <2>2. n = IF Admitted(s, p) THEN Dispatch(t, p, mode) ELSE s
    BY <1>3 DEF HandlePacket
  <2>3. Sound(t) /\ t.active = s.active /\ t.sensors = s.sensors
    BY <2>1 DEF Waiting, Alike
  <2>4. Admissible(t, p) <=> Admissible(s, p)
    BY <2>1 DEF Admissible, SamplesValid
  <2> HIDE DEF t
  <2>5. CASE ~Admitted(s, p)
    BY <2>2, <2>5, WaitingItself
  <2>6. ASSUME Waiting(t, n) PROVE Waiting(s, n)
    BY <2>1, <2>6, WaitingTrans
  <2>7. ASSUME Refreshed(t, n) PROVE Refreshed(s, n)
    BY <2>1, <2>7 DEF Refreshed, Waiting, Watched, Alike, Lined, Joins
  <2>8. ASSUME Stopping(t, n) PROVE Stopping(s, n)
    BY <2>1, <2>8 DEF Stopping, Waiting, Alike
  <2>9. CASE Admitted(s, p) /\ p.type = "Route"
    BY <2>2, <2>3, <2>6, <2>9, RouteWaits DEF Dispatch
  <2>10. CASE Admitted(s, p) /\ p.type = "Sensor"
    <3>1. s.active
      BY <1>3, <2>10
    <3>2. n = HandleSensor(t, p)
      BY <2>2, <2>10 DEF Dispatch
    <3>3. \/ Waiting(t, n)
          \/ /\ Admissible(t, p) /\ Len(t.sensors) < SensorCapacity
             /\ Refreshed(t, n)
      BY <2>3, <2>10, <3>1, <3>2, SensorHeard
    <3> QED
      BY <2>3, <2>4, <2>6, <2>7, <2>10, <3>1, <3>3 DEF HeardIn
  <2>11. CASE Admitted(s, p) /\ p.type = "SafeStop"
    <3>1. n = HandleSafeStop(t, p, mode)
      BY <2>2, <2>11 DEF Dispatch
    <3> QED
      BY <2>3, <2>6, <2>8, <3>1, SafeStopStops
  <2>12. CASE Admitted(s, p) /\ p.type = "Heartbeat"
    <3>1. s.active
      BY <1>3, <2>12
    <3>2. n = HandleHeartbeat(t, p)
      BY <2>2, <2>12 DEF Dispatch
    <3>3. Waiting(t, n) \/ (p.ok /\ Refreshed(t, n))
      BY <2>3, <3>1, <3>2, HeartbeatHeard
    <3> QED
      BY <2>6, <2>7, <2>12, <3>1, <3>3 DEF HeardIn
  <2>13. CASE Admitted(s, p) /\ p.type = "Other"
    BY <2>2, <2>3, <2>6, <2>13, SendWaits DEF Dispatch, SendError
  <2> QED
    BY <1>3, <2>5, <2>9, <2>10, <2>11, <2>12, <2>13, PacketAssumption
<1> QED
  BY <1>1, <1>2, <1>3

-----------------------------------------------------------------------------
(* What a tick does.                                                       *)

(* The step of a release: one frame of the queue at most, and a watchdog   *)
(* that found the host in time.                                            *)
Serviced(s, n) ==
  /\ Sound(n) /\ n.active = s.active
  /\ n.sensors = IF s.sensors = <<>> THEN <<>> ELSE Tail(s.sensors)
  /\ n.samples = s.samples
  /\ n.rt.state \in Live =>
       /\ s.rt.state \in Live
       /\ s.rt.hostSeen => n.rt.hostSeen /\ n.rt.validAge <= HostTimeout
       /\ s.sensors = <<>> => n.rt.validAge = s.rt.validAge

LEMMA ConsumedServiced ==
  ASSUME NEW s, Sound(s), NEW mode \in Mode, NEW result \in Result,
         NEW n, n = Consumed(s, mode, result)
  PROVE  Serviced(s, n) /\ n.lead = s.lead
<1> DEFINE q     == Tail(s.sensors)
           taken == [s EXCEPT !.sensors = q]
           fed   == IF s.sensors = <<>> THEN s
                    ELSE Process(taken, Head(s.sensors), result)
           c     == CoreStep(fed, mode)
<1>1. /\ Sound(fed) /\ fed.active = s.active /\ fed.lead = s.lead
      /\ fed.sensors = IF s.sensors = <<>> THEN <<>> ELSE q
      /\ fed.samples = s.samples
      /\ fed.rt.state \in Live => s.rt.state \in Live
      /\ fed.rt.state \in Live /\ s.rt.hostSeen => fed.rt.hostSeen
      /\ s.sensors = <<>> => fed.rt.validAge = s.rt.validAge
  <2>1. CASE s.sensors = <<>>
    BY <2>1
  <2>2. CASE s.sensors # <<>>
    <3> HIDE DEF q
    <3> DEFINE h == Head(s.sensors)
               a == AcceptInput(taken.rt)
               f == ReportNumericalFault(taken.rt)
               i == taken.initialized \/ "Gnss" \in DOMAIN h
    <3>1. /\ Sound(taken) /\ taken.rt = s.rt /\ taken.active = s.active
          /\ taken.lead = s.lead /\ taken.sensors = q
          /\ taken.samples = s.samples
      BY DEF Sound
    <3>2. /\ a \in RuntimeRecord /\ a.state = s.rt.state
          /\ a.state \in Live => a.hostSeen
      BY <3>1, HandshakeRefreshes DEF Sound, AcceptInput
    <3>3. f \in RuntimeRecord /\ f.state \notin Live
      BY <3>1, TransitionType
      DEF Sound, ReportNumericalFault, Transition, RuntimeRecord, Live,
          SafetyState
    <3>4. \/ fed = [taken EXCEPT !.initialized = i, !.rt = a]
          \/ fed = taken
          \/ fed = [taken EXCEPT !.rt = f]
      BY <2>2 DEF Process, Result
    <3>5. i \in BOOLEAN
      BY <3>1 DEF Sound
    <3> HIDE DEF h, a, f, i, taken, fed
    <3> QED
      BY <2>2, <3>1, <3>2, <3>3, <3>4, <3>5 DEF Sound
  <2> QED
    BY <2>1, <2>2
<1>2. n = [c EXCEPT !.stepped = TRUE]
  BY DEF Consumed
<1> HIDE DEF fed
<1>3. /\ Waiting(fed, c)
      /\ c.rt.state \in Live /\ fed.rt.hostSeen =>
           fed.rt.validAge <= HostTimeout
  BY <1>1, CoreStepWaits
<1> HIDE DEF c
<1>4. /\ Sound(n) /\ n.rt = c.rt /\ n.lead = c.lead /\ n.active = c.active
      /\ n.sensors = c.sensors /\ n.samples = c.samples
  BY <1>2, <1>3 DEF Waiting, Sound
<1> QED
  BY <1>1, <1>3, <1>4 DEF Serviced, Waiting, Watched, Alike

LEMMA TickServiced ==
  ASSUME NEW s, Sound(s), NEW mode \in Mode, NEW result \in Result,
         NEW n, n = Tick(s, mode, result)
  PROVE  \/ ~s.active /\ n = s
         \/ /\ s.active /\ ~Releases(s)
            /\ n = [s EXCEPT !.lead = Polled(s.lead)]
         \/ Releases(s) /\ Serviced(s, n) /\ n.lead = Polled(s.lead)
<1> DEFINE lead   == Polled(s.lead)
           polled == [s EXCEPT !.lead = lead]
           out    == Consumed(polled, mode, result)
           forced == "Health" \in Due(s.lead)
<1>1. \/ ~s.active /\ n = s
      \/ s.active /\ ~Releases(s) /\ n = polled
      \/ Releases(s) /\ n = out
      \/ Releases(s) /\ n = EmitOutput(out, forced, mode)
  BY DEF Tick, Releases
<1>2. CASE Releases(s) /\ (n = out \/ n = EmitOutput(out, forced, mode))
  <2> HIDE DEF lead
  <2>1. /\ Sound(polled) /\ polled.rt = s.rt /\ polled.active = s.active
        /\ polled.sensors = s.sensors /\ polled.lead = lead
        /\ polled.samples = s.samples
    BY DEF Sound
  <2> HIDE DEF polled
  <2>2. Serviced(s, out) /\ out.lead = lead
    BY <2>1, ConsumedServiced DEF Serviced
  <2> HIDE DEF out
  <2>3. CASE n = out
    BY <1>2, <2>2, <2>3 DEF lead
  <2>4. CASE n = EmitOutput(out, forced, mode)
    <3>1. Waiting(out, n)
      BY <2>2, <2>4, EmitWaits DEF Serviced
    <3>2. Serviced(s, n) /\ n.lead = lead
      BY <2>2, <3>1 DEF Serviced, Waiting, Watched, Alike
    <3> QED
      BY <1>2, <3>2 DEF lead
  <2> QED
    BY <1>2, <2>3, <2>4
<1> QED
  BY <1>1, <1>2

-----------------------------------------------------------------------------
(* The invariant.                                                          *)

(* How late the control release is, and how long the next step of the core *)
(* may still take: until the release is due, the loop may come round just  *)
(* before it; then, it comes round within MaxGap of the last time.         *)
Late == Signed(fw.lead["Control"])
ToStep == IF Late < 0 THEN MaxGap - 1 - Late ELSE MaxGap - gap

OnTime ==
  /\ -Period["Control"] <= Late /\ Late <= idle + gap
  /\ ~fw.active => gap = 0
  /\ fw.stepped /\ fw.rt.state \in Live => Late < 0

(* While frames wait, the host was heard when the last of them came, and   *)
(* those before it have taken a step each; then it is the watchdog that    *)
(* counts, since the step that took the last.                              *)
Drained(k) == (SensorCapacity - k + 1) * StepGap

Measured ==
  fw.active /\ fw.rt.state \in Live =>
    /\ fw.rt.hostSeen
    /\ fw.rt.validAge + ToStep <= HostTimeout + StepGap
    /\ fw.sensors # <<>> => silence + ToStep <= Drained(Len(fw.sensors))
    /\ fw.sensors = <<>> =>
         silence <= fw.rt.validAge + SensorCapacity * StepGap

SInv == silence \in Nat /\ OnTime /\ Measured

LEMMA ConstantFacts ==
  /\ "Control" \in Task
  /\ Period["Control"] \in Nat \ {0} /\ 2 * Period["Control"] < ClockSize
  /\ ClockSize \in Nat \ {0} /\ MaxGap \in Nat /\ MaxIdle \in Nat
  /\ HostTimeout \in Nat /\ SensorCapacity \in Nat \ {0}
  /\ StepGap \in Nat /\ StepGap = Period["Control"] + MaxGap - 1
<1>1. "Control" \in Task
  BY SessionConfigAssumption
<1>2. Period["Control"] \in Nat \ {0} /\ 2 * Period["Control"] < ClockSize
  BY <1>1, SchedulerConfigAssumption
<1>3. MaxGap \in Nat /\ MaxIdle \in Nat /\ SensorCapacity \in Nat \ {0}
  BY SessionConfigAssumption
<1> QED
  BY <1>1, <1>2, <1>3, ClockAssumption, RuntimeConfigAssumption DEF StepGap

LEMMA DrainedFacts ==
  ASSUME NEW k \in 1 .. SensorCapacity
  PROVE  /\ Drained(k) \in Nat /\ StepGap <= Drained(k)
         /\ Drained(k) <= SensorCapacity * StepGap
         /\ Drained(k - 1) = Drained(k) + StepGap
         /\ SensorCapacity * StepGap \in Nat
<1> DEFINE c == SensorCapacity   g == StepGap   i == c - k
<1>1. c \in Nat \ {0} /\ g \in Nat
  BY ConstantFacts
<1>2. i \in Nat /\ i + 1 <= c /\ Drained(k) = (i + 1) * g
      /\ Drained(k - 1) = (i + 2) * g
  <2>1. k \in Int /\ i + 1 = c - k + 1 /\ i + 2 = c - (k - 1) + 1
    BY <1>1
  <2> QED
    BY <1>1, <2>1 DEF Drained
<1> HIDE DEF c, g, i
<1>3. (i + 1) * g = i * g + g /\ (i + 2) * g = i * g + g + g
  BY <1>1, <1>2
<1>4. i * g \in Nat /\ c * g \in Nat
  BY <1>1, <1>2
<1>5. i * g + g <= c * g
  <2>1. (c - (i + 1)) * g >= 0
    BY <1>1, <1>2
  <2>2. (c - (i + 1)) * g = c * g - (i * g + g)
    BY <1>1, <1>2
  <2> QED
    BY <1>1, <1>4, <2>1, <2>2
<1> QED
  BY <1>1, <1>2, <1>3, <1>4, <1>5 DEF c, g

LEMMA StateFacts ==
  ASSUME IInv
  PROVE  /\ Sound(fw) /\ fw.lead["Control"] \in Age
         /\ gap \in 0 .. MaxGap /\ idle \in 0 .. MaxIdle
         /\ Len(fw.sensors) \in 0 .. SensorCapacity
         /\ fw.sensors # <<>> => Len(fw.sensors) # 0
         /\ fw.rt.validAge \in Age /\ fw.active \in BOOLEAN
<1>1. fw \in Session
  BY DEF IInv
<1>2. /\ fw.sensors \in Seq(Samples) /\ Len(fw.sensors) <= SensorCapacity
      /\ fw.lead \in [Task -> Age] /\ fw.active \in BOOLEAN
      /\ fw.rt \in RuntimeRecord
  BY <1>1 DEF Session, Queue
<1>3. Len(fw.sensors) \in 0 .. SensorCapacity
      /\ (fw.sensors # <<>> => Len(fw.sensors) # 0)
  BY <1>2, ConstantFacts
<1> QED
  BY <1>1, <1>2, <1>3, SessionSound, ConstantFacts DEF IInv, RuntimeRecord

(* The scheduler reads its leads as what they are, and the core steps in   *)
(* time.                                                                   *)
LEMMA LateFacts ==
  ASSUME Timely, IInv, OnTime
  PROVE  /\ Late \in Int /\ Readable(Late)
         /\ \A d \in Nat : idle + gap + d <= MaxIdle + MaxGap =>
                             Readable(Late + d)
         /\ ToStep \in Nat /\ ToStep <= StepGap
<1> DEFINE P == Period["Control"]   b == Late
<1>1. /\ P \in Nat \ {0} /\ 2 * P < ClockSize /\ ClockSize \in Nat
      /\ MaxGap \in Nat /\ MaxIdle \in Nat /\ StepGap = P + MaxGap - 1
      /\ 2 * (MaxIdle + MaxGap) < ClockSize
  BY ConstantFacts DEF Timely
<1>2. gap \in 0 .. MaxGap /\ idle \in 0 .. MaxIdle
  BY StateFacts
<1>3. b \in Int /\ -P <= b /\ b <= idle + gap
  BY StateFacts, LeadIsLate DEF OnTime, Late
<1>4. ToStep = IF b < 0 THEN MaxGap - 1 - b ELSE MaxGap - gap
  BY DEF ToStep
<1> HIDE DEF P, b
<1>5. Readable(b)
  BY <1>1, <1>2, <1>3 DEF Readable
<1>6. ASSUME NEW d \in Nat, idle + gap + d <= MaxIdle + MaxGap
      PROVE  Readable(b + d)
  BY <1>1, <1>2, <1>3, <1>6 DEF Readable
<1>7. ToStep \in Nat /\ ToStep <= StepGap
  BY <1>1, <1>2, <1>3, <1>4
<1> QED
  BY <1>3, <1>5, <1>6, <1>7 DEF b

(* The bound is what the invariant says, at its worst.                     *)
LEMMA Bounded ==
  ASSUME Timely, IInv, SInv
  PROVE  HostSilenceBounded
<1> SUFFICES ASSUME fw.active, fw.rt.state \in Live
             PROVE  silence <= SilenceBound
  BY DEF HostSilenceBounded
<1> DEFINE g == StepGap   c == SensorCapacity   a == fw.rt.validAge
           k == Len(fw.sensors)   m == c * g
<1>1. /\ ToStep \in Nat /\ ToStep <= g
  BY LateFacts DEF SInv
<1>2. g \in Nat /\ c \in Nat \ {0} /\ HostTimeout \in Nat /\ silence \in Nat
  BY ConstantFacts DEF SInv
<1>3. m \in Nat /\ SilenceBound = HostTimeout + m + g
  BY <1>2 DEF SilenceBound
<1>4. a \in Nat
  BY StateFacts, ClockAssumption DEF Age
<1>5. /\ a + ToStep <= HostTimeout + g
      /\ fw.sensors # <<>> => silence + ToStep <= Drained(k)
      /\ fw.sensors = <<>> => silence <= a + m
  BY DEF SInv, Measured
<1>6. fw.sensors # <<>> => Drained(k) \in Nat /\ Drained(k) <= m
  BY StateFacts, DrainedFacts
<1> HIDE DEF g, c, a, k, m
<1> QED
  BY <1>1, <1>2, <1>3, <1>4, <1>5, <1>6

-----------------------------------------------------------------------------
(* At boot the first release is a period ahead, and nobody listens yet.    *)
LEMMA InitSilent ==
  ASSUME Init
  PROVE  SInv
<1> DEFINE P == Period["Control"]   c == -P   e == -c
<1>1. P \in Nat \ {0} /\ 2 * P < ClockSize /\ ClockSize \in Nat \ {0}
  BY ConstantFacts
<1>2. /\ fw.lead["Control"] = P /\ ~fw.active
      /\ gap = 0 /\ idle = 0 /\ silence = 0
  BY ConstantFacts DEF Init, Booted, Released
<1>3. Readable(c) /\ c \in Int /\ e = P /\ c < 0 /\ -P <= c
  BY <1>1 DEF Readable
<1>4. c <= 0 + 0
  BY <1>1
<1> HIDE DEF P, c
<1>5. P = (-c) % ClockSize
  BY <1>1, <1>3, SmallRemainder
<1>6. Late = c
  BY <1>2, <1>3, <1>5, SignedIsLate DEF Late
<1> QED
  BY <1>2, <1>3, <1>4, <1>6 DEF SInv, OnTime, Measured, P

(* Time brings the next step nearer as fast as it ages what is measured.   *)
LEMMA AdvanceSilent ==
  ASSUME Timely, IInv, SInv, NEW d \in 1 .. MaxGap, Advance(d)
  PROVE  SInv'
<1> DEFINE b == Late   k == Len(fw.sensors)   m == SensorCapacity * StepGap
           a == fw.rt.validAge   r == AgedWhileRead(fw.rt, d)
<1>1. d \in Nat \ {0} /\ MaxGap \in Nat /\ MaxIdle \in Nat
  BY ConstantFacts
<1>2. /\ fw.active => gap + d <= MaxGap /\ gap' = gap + d /\ idle' = idle
      /\ ~fw.active => idle + d <= MaxIdle /\ gap' = 0 /\ idle' = idle + d
      /\ fw.active \in BOOLEAN
      /\ ~fw.active => gap = 0
      /\ gap \in 0 .. MaxGap /\ idle \in 0 .. MaxIdle
  BY StateFacts DEF Advance, SInv, OnTime
<1>3. idle + gap + d <= MaxIdle + MaxGap
  BY <1>1, <1>2
<1>4. /\ b \in Int /\ Readable(b + d)
      /\ -Period["Control"] <= b /\ b <= idle + gap
  BY <1>1, <1>3, LateFacts DEF SInv, OnTime
<1>5. /\ fw'.lead = Nearer(fw.lead, d) /\ fw'.active = fw.active
      /\ fw'.sensors = fw.sensors /\ fw'.stepped = FALSE
      /\ fw'.rt = r
  <2>1. Sound(fw)
    BY StateFacts
  <2>2. /\ Sound(Called) /\ Called.lead = fw.lead
        /\ Called.active = fw.active /\ Called.sensors = fw.sensors
        /\ Called.rt = fw.rt
    BY <2>1 DEF Called, Sound
  <2> QED
    BY <2>2 DEF Advance, Waited, Sound
<1>6. Late' = b + d
  <2>1. fw'.lead["Control"] = (fw.lead["Control"] - d) % ClockSize
    BY <1>5, ConstantFacts DEF Nearer
  <2> QED
    BY <1>1, <1>4, <2>1, StateFacts, NearerIsLater DEF Late
<1>7. OnTime'
  <2>1. -Period["Control"] <= b + d /\ b + d <= idle' + gap'
    <3> HIDE DEF b
    <3> QED
      BY <1>1, <1>2, <1>4, ConstantFacts
  <2> QED
    BY <1>2, <1>5, <1>6, <2>1 DEF OnTime
<1>8. /\ silence' \in Nat /\ silence' <= silence + d
      /\ silence \in Nat
  <2>1. silence \in Nat /\ SilenceBound + 1 \in Nat
    <3>1. StepGap \in Nat /\ SensorCapacity \in Nat /\ HostTimeout \in Nat
      BY ConstantFacts
    <3> QED
      BY <3>1 DEF SilenceBound, SInv
  <2>2. /\ AtMost(silence + d, SilenceBound + 1) \in Nat
        /\ AtMost(silence + d, SilenceBound + 1) <= silence + d
    <3> HIDE DEF SilenceBound
    <3> QED
      BY <1>1, <2>1 DEF AtMost
  <2> QED
    BY <1>1, <2>1, <2>2 DEF Advance
<1>9. ASSUME fw'.active, fw'.rt.state \in Live
      PROVE  /\ fw'.rt.hostSeen
             /\ fw'.rt.validAge + ToStep' <= HostTimeout + StepGap
             /\ fw'.sensors # <<>> =>
                  silence' + ToStep' <= Drained(Len(fw'.sensors))
             /\ fw'.sensors = <<>> => silence' <= fw'.rt.validAge + m
  <2>1. fw.rt \in RuntimeRecord /\ a \in Age
    BY StateFacts DEF Sound
  <2>2. /\ r.state = fw.rt.state /\ r.hostSeen = fw.rt.hostSeen
        /\ fw.rt.state \in Live /\ fw.rt.hostSeen => r.validAge = Older(a, d)
    BY <2>1 DEF AgedWhileRead, RuntimeRecord
  <2>3. fw.active /\ fw.rt.state \in Live
    BY <1>5, <1>9, <2>2
  <2>4. /\ fw.rt.hostSeen /\ a + ToStep <= HostTimeout + StepGap
        /\ fw.sensors # <<>> => silence + ToStep <= Drained(k)
        /\ fw.sensors = <<>> => silence <= a + m
    BY <2>3 DEF SInv, Measured
  <2>5. ToStep' \in Nat /\ ToStep' + d <= ToStep /\ ToStep \in Nat
    <3>1. ToStep = IF b < 0 THEN MaxGap - 1 - b ELSE MaxGap - gap
      BY DEF ToStep
    <3>2. ToStep' = IF b + d < 0 THEN MaxGap - 1 - (b + d)
                                 ELSE MaxGap - (gap + d)
      BY <1>2, <1>6, <2>3 DEF ToStep
    <3> HIDE DEF b
    <3> QED
      BY <1>1, <1>2, <1>4, <2>3, <3>1, <3>2
  <2>6. Older(a, d) = a + d /\ a \in Nat
    <3>1. /\ a \in Nat /\ HostTimeout + StepGap < ClockSize
          /\ HostTimeout \in Nat /\ StepGap \in Nat
          /\ ClockSize \in Nat \ {0}
      BY <2>1, ConstantFacts DEF Timely, Age
    <3>2. a + d \in Nat /\ a + d < ClockSize
      <4> DEFINE u == ToStep   v == ToStep'   g == StepGap
      <4>1. /\ u \in Nat /\ v \in Nat /\ v + d <= u /\ g \in Nat
            /\ a + u <= HostTimeout + g /\ HostTimeout + g < ClockSize
        BY <2>4, <2>5, <3>1
      <4> HIDE DEF a, u, v, g
      <4> QED
        BY <1>1, <3>1, <4>1
    <3> HIDE DEF a
    <3> QED
      BY <1>1, <3>1, <3>2, SmallRemainder DEF Older
  <2>7. fw'.rt.validAge = a + d /\ fw'.rt.hostSeen
    BY <1>5, <2>2, <2>3, <2>4, <2>6
  <2>8. HostTimeout + StepGap \in Nat /\ m \in Nat
    <3>1. HostTimeout \in Nat /\ StepGap \in Nat /\ SensorCapacity \in Nat
      BY ConstantFacts
    <3> QED
      BY <3>1
  <2>9. a + d + ToStep' <= HostTimeout + StepGap
    <3> DEFINE u == ToStep   v == ToStep'   h == HostTimeout + StepGap
    <3>1. /\ u \in Nat /\ v \in Nat /\ v + d <= u /\ h \in Nat
          /\ a \in Nat /\ a + u <= h
      BY <2>4, <2>5, <2>6, <2>8
    <3> HIDE DEF a, u, v, h
    <3>2. a + d + v <= h
      BY <1>1, <3>1
    <3> QED
      BY <3>2 DEF v, h
  <2>10. fw.sensors # <<>> => silence' + ToStep' <= Drained(k)
    <3>1. ASSUME fw.sensors # <<>> PROVE Drained(k) \in Nat
      BY <3>1, StateFacts, DrainedFacts
    <3> DEFINE u == ToStep   v == ToStep'   h == Drained(k)
    <3>2. ASSUME fw.sensors # <<>>
          PROVE  /\ u \in Nat /\ v \in Nat /\ v + d <= u /\ h \in Nat
                 /\ silence + u <= h
      BY <2>4, <2>5, <3>1, <3>2
    <3> HIDE DEF k, u, v, h
    <3>3. fw.sensors # <<>> => silence' + v <= h
      BY <1>1, <1>8, <3>2
    <3> QED
      BY <3>3 DEF v, h
  <2>11. fw.sensors = <<>> => silence' <= a + d + m
    <3> HIDE DEF a, m
    <3> QED
      BY <1>1, <1>8, <2>4, <2>6, <2>8
  <2> QED
    BY <1>5, <2>7, <2>9, <2>10, <2>11
<1> QED
  BY <1>7, <1>8, <1>9 DEF SInv, Measured

-----------------------------------------------------------------------------
(* A packet, a refused frame and a frame sent leave the clocks alone.      *)
LEMMA HeardSilent ==
  ASSUME Timely, IInv, SInv,
         \/ Waiting(Called, fw') /\ silence' \in {0, silence}
         \/ Stopping(Called, fw') /\ silence' \in {0, silence}
         \/ Refreshed(Called, fw') /\ silence' = 0,
         Len(fw'.sensors) \in 0 .. SensorCapacity,
         fw'.sensors # <<>> => Len(fw'.sensors) # 0,
         fw'.active \/ ~fw.active,
         UNCHANGED <<gap, idle>>
  PROVE  SInv'
<1> DEFINE m == SensorCapacity * StepGap   a == fw.rt.validAge
           z == fw'.rt.validAge
<1>1. /\ Sound(Called) /\ Called.lead = fw.lead
      /\ Called.active = fw.active /\ Called.sensors = fw.sensors
      /\ Called.rt = fw.rt /\ Called.stepped = fw.stepped
  BY StateFacts DEF Called, Sound
<1>2. fw'.lead = fw.lead
  BY <1>1 DEF Waiting, Alike, Stopping, Refreshed
<1>3. Late' = Late /\ ToStep' = ToStep
  BY <1>2 DEF Late, ToStep
<1>4. ToStep \in Nat /\ ToStep <= StepGap
  BY LateFacts DEF SInv
<1>5. silence \in Nat /\ silence' \in Nat
  BY DEF SInv
<1>6. fw'.rt.state \in Live =>
        /\ fw.rt.state \in Live /\ fw'.stepped = fw.stepped
        /\ Waiting(Called, fw') \/ (Refreshed(Called, fw') /\ silence' = 0)
  BY <1>1 DEF Waiting, Watched, Stopping, Refreshed
<1>7. OnTime'
  BY <1>3, <1>6 DEF SInv, OnTime
<1>8. ASSUME fw'.active, fw'.rt.state \in Live
      PROVE  /\ fw'.rt.hostSeen
             /\ z + ToStep <= HostTimeout + StepGap
             /\ fw'.sensors # <<>> =>
                  silence' + ToStep <= Drained(Len(fw'.sensors))
             /\ fw'.sensors = <<>> => silence' <= z + m
  <2>1. /\ z \in Nat /\ HostTimeout \in Nat /\ StepGap \in Nat /\ m \in Nat
    <3>1. fw'.rt \in RuntimeRecord
      BY DEF Waiting, Stopping, Refreshed, Sound
    <3>2. HostTimeout \in Nat /\ StepGap \in Nat /\ SensorCapacity \in Nat
      BY ConstantFacts
    <3> QED
      BY <3>1, <3>2, ClockAssumption DEF RuntimeRecord, Age
  <2>2. fw.active => /\ fw.rt.hostSeen
                     /\ a + ToStep <= HostTimeout + StepGap
    BY <1>6, <1>8 DEF SInv, Measured
  <2>3. \/ fw'.rt.hostSeen /\ z = 0
        \/ fw.active /\ fw'.rt.hostSeen = fw.rt.hostSeen /\ z = a
    BY <1>1, <1>6, <1>8 DEF Waiting, Watched, Alike, Refreshed
  <2>4. fw'.rt.hostSeen /\ z + ToStep <= HostTimeout + StepGap
    <3> HIDE DEF a, z
    <3> QED
      BY <1>4, <2>1, <2>2, <2>3
  <2>5. fw'.sensors # <<>> =>
          /\ Drained(Len(fw'.sensors)) \in Nat
          /\ StepGap <= Drained(Len(fw'.sensors))
    BY DrainedFacts
  <2>6. CASE silence' = 0
    <3> HIDE DEF z, m
    <3> QED
      BY <1>4, <2>1, <2>4, <2>5, <2>6
  <2>7. CASE silence' # 0
    <3>1. /\ fw'.sensors = fw.sensors /\ fw.active /\ z = a
          /\ silence' = silence
      BY <1>1, <1>6, <1>8, <2>7 DEF Waiting, Watched, Alike
    <3> QED
      BY <1>6, <1>8, <2>4, <3>1 DEF SInv, Measured
  <2> QED
    BY <2>6, <2>7
<1> QED
  BY <1>3, <1>5, <1>7, <1>8 DEF SInv, Measured

-----------------------------------------------------------------------------
(* A tick that steps the core takes a frame from the queue, or finds it    *)
(* empty and asks the watchdog.                                            *)
LEMMA TickSilent ==
  ASSUME Timely, IInv, SInv, NEW mode \in Mode, NEW result \in Result,
         TickCall(mode, result)
  PROVE  SInv'
<1> DEFINE s == Called   b == Late
<1>1. /\ Sound(s) /\ s.lead = fw.lead /\ s.active = fw.active
      /\ s.sensors = fw.sensors /\ s.rt = fw.rt /\ s.stepped = fw.stepped
  BY StateFacts DEF Called, Sound
<1>2. fw' = Tick(s, mode, result) /\ gap' = 0 /\ idle' = idle
      /\ silence' = silence
  BY DEF TickCall
<1>3. /\ Releases(s) <=> s.active /\ "Control" \in Due(s.lead) /\ ~s.stepped
  BY DEF Releases
<1> HIDE DEF s
<1>4. \/ ~s.active /\ fw' = s
      \/ s.active /\ ~Releases(s) /\ fw' = [s EXCEPT !.lead = Polled(s.lead)]
      \/ /\ Releases(s) /\ Serviced(s, fw')
         /\ fw'.lead = Polled(s.lead)
  BY <1>1, <1>2, TickServiced
<1>5. /\ b \in Int /\ Readable(b) /\ ToStep \in Nat /\ ToStep <= StepGap
      /\ -Period["Control"] <= b /\ b <= idle + gap
      /\ gap \in 0 .. MaxGap /\ idle \in 0 .. MaxIdle
  BY LateFacts, StateFacts DEF SInv, OnTime
<1>6. /\ "Control" \in Due(fw.lead) <=> b >= 0
      /\ b >= 0 => Signed(Polled(fw.lead)["Control"])
                     \in -Period["Control"] .. -1
      /\ b < 0 => Polled(fw.lead)["Control"] = fw.lead["Control"]
  BY <1>5, StateFacts, ConstantFacts, PolledAhead DEF Late
<1>7. CASE ~s.active /\ fw' = s
  <2>1. Late' = Late /\ fw'.active = FALSE /\ gap = 0
    BY <1>1, <1>7, StateFacts DEF Late, SInv, OnTime
  <2> QED
    BY <1>1, <1>2, <1>7, <2>1 DEF SInv, OnTime, Measured
<1>8. CASE s.active /\ ~Releases(s)
           /\ fw' = [s EXCEPT !.lead = Polled(s.lead)]
  <2>1. /\ fw'.lead = Polled(fw.lead) /\ fw'.active = fw.active
        /\ fw'.sensors = fw.sensors /\ fw'.rt = fw.rt
        /\ fw'.stepped = fw.stepped /\ fw.active
    BY <1>1, <1>8 DEF Sound
  <2>2. CASE b < 0
    <3>1. Late' = b /\ ToStep' = ToStep
      BY <1>6, <2>1, <2>2 DEF Late, ToStep
    <3>2. b <= idle + 0
      BY <1>5, <2>2
    <3> QED
      BY <1>2, <2>1, <3>1, <3>2 DEF SInv, OnTime, Measured
  <2>3. CASE b >= 0
    <3>1. fw.rt.state \notin Live
      BY <1>1, <1>3, <1>5, <1>6, <1>8, <2>3 DEF SInv, OnTime
    <3>2. Late' \in -Period["Control"] .. -1
      BY <1>6, <2>1, <2>3 DEF Late
    <3>3. /\ -Period["Control"] <= Late' /\ Late' <= idle + 0
          /\ Late' < 0
      BY <1>5, <3>2, ConstantFacts
    <3> QED
      BY <1>2, <2>1, <3>1, <3>3 DEF SInv, OnTime, Measured
  <2> QED
    BY <1>5, <2>2, <2>3
<1>9. CASE Releases(s) /\ Serviced(s, fw') /\ fw'.lead = Polled(s.lead)
  <2> DEFINE y == Late'   k == Len(fw.sensors)   q == Tail(fw.sensors)
             m == SensorCapacity * StepGap   z == fw'.rt.validAge
  <2>1. b >= 0 /\ fw.active /\ fw'.active
    BY <1>1, <1>3, <1>6, <1>9 DEF Serviced
  <2>2. y \in -Period["Control"] .. -1
    BY <1>1, <1>6, <1>9, <2>1 DEF Late
  <2>3. /\ ToStep' \in Nat /\ ToStep' <= StepGap
        /\ -Period["Control"] <= y /\ y <= idle + 0 /\ y < 0
    <3>1. ToStep' = IF y < 0 THEN MaxGap - 1 - y ELSE MaxGap - gap'
      BY DEF ToStep
    <3> HIDE DEF y
    <3> QED
      BY <1>5, <2>2, <3>1, ConstantFacts
  <2>4. OnTime'
    BY <1>2, <2>1, <2>3 DEF OnTime
  <2>5. ASSUME fw'.rt.state \in Live
        PROVE  /\ fw'.rt.hostSeen
               /\ z + ToStep' <= HostTimeout + StepGap
               /\ fw'.sensors # <<>> =>
                    silence + ToStep' <= Drained(Len(fw'.sensors))
               /\ fw'.sensors = <<>> => silence <= z + m
    <3>1. /\ fw.rt.state \in Live /\ fw.rt.hostSeen
          /\ fw.sensors # <<>> => silence + ToStep <= Drained(k)
          /\ fw.sensors = <<>> => silence <= fw.rt.validAge + m
      BY <1>1, <1>9, <2>1, <2>5 DEF Serviced, SInv, Measured
    <3>2. /\ fw'.rt.hostSeen /\ z <= HostTimeout
          /\ fw.sensors = <<>> => z = fw.rt.validAge
          /\ fw'.sensors = IF fw.sensors = <<>> THEN <<>> ELSE q
      BY <1>1, <1>9, <2>5, <3>1 DEF Serviced
    <3>3. /\ z \in Nat /\ HostTimeout \in Nat /\ StepGap \in Nat /\ m \in Nat
          /\ silence \in Nat
      <4>1. fw'.rt \in RuntimeRecord
        BY <1>9 DEF Serviced, Sound
      <4>2. HostTimeout \in Nat /\ StepGap \in Nat /\ SensorCapacity \in Nat
        BY ConstantFacts
      <4> QED
        BY <4>1, <4>2, ClockAssumption DEF RuntimeRecord, Age, SInv
    <3>4. z + ToStep' <= HostTimeout + StepGap
      <4> DEFINE v == ToStep'
      <4>1. v \in Nat /\ v <= StepGap
        BY <2>3
      <4> HIDE DEF z, v
      <4>2. z + v <= HostTimeout + StepGap
        BY <3>2, <3>3, <4>1
      <4> QED
        BY <4>2 DEF v
    <3>5. CASE fw.sensors = <<>>
      BY <3>1, <3>2, <3>4, <3>5
    <3>6. CASE fw.sensors # <<>>
      <4>1. k \in 1 .. SensorCapacity
        BY <3>6, StateFacts, ConstantFacts
      <4>2. Len(q) = k - 1 /\ (q # <<>> => k - 1 # 0)
        <5>1. fw.sensors \in Seq(Samples)
          BY DEF IInv, Session, Queue
        <5>2. q \in Seq(Samples) /\ Len(q) = k - 1
          BY <3>6, <5>1
        <5>3. q # <<>> => Len(q) # 0
          <6>1. q \in Seq(Samples)
            BY <5>2
          <6> HIDE DEF q, k
          <6> QED
            BY <6>1, EmptySeq
        <5> QED
          BY <5>2, <5>3
      <4>3. /\ Drained(k) \in Nat /\ StepGap <= Drained(k)
            /\ Drained(k) <= m /\ Drained(k - 1) = Drained(k) + StepGap
        BY <4>1, DrainedFacts
      <4> HIDE DEF k, z, m, q
      <4>4. silence + ToStep' <= Drained(k - 1)
        BY <1>5, <2>3, <3>1, <3>3, <3>6, <4>3
      <4>5. silence <= z + m
        BY <1>5, <3>1, <3>3, <3>6, <4>3
      <4> QED
        BY <3>2, <3>4, <3>6, <4>2, <4>4, <4>5
    <3> QED
      BY <3>5, <3>6
  <2> QED
    BY <1>2, <2>4, <2>5 DEF SInv, Measured
<1> QED
  BY <1>4, <1>7, <1>8, <1>9

-----------------------------------------------------------------------------
LEMMA NextSilent ==
  ASSUME Timely, IInv, IInv', SInv, [Next]_vars
  PROVE  SInv'
<1>1. /\ Sound(Called) /\ Called.lead = fw.lead
      /\ Called.active = fw.active /\ Called.sensors = fw.sensors
      /\ Called.rt = fw.rt /\ Called.stepped = fw.stepped
      /\ Called.tracker = fw.tracker /\ Called.samples = fw.samples
      /\ Called \in Session
  BY StateFacts, CalledOK DEF Called, Sound
<1>2. /\ Len(fw'.sensors) \in 0 .. SensorCapacity
      /\ fw'.sensors # <<>> => Len(fw'.sensors) # 0
  <2>1. fw' \in Session
    BY DEF IInv
  <2>2. fw'.sensors \in Seq(Samples) /\ Len(fw'.sensors) <= SensorCapacity
    BY <2>1 DEF Session, Queue
  <2> QED
    BY <2>2, ConstantFacts
<1>3. CASE SomeAdvance
  BY <1>3, AdvanceSilent DEF SomeAdvance
<1>4. CASE SomeFeed
  <2>1. PICK p \in Packet, mode \in Mode : Feed(p, mode)
    BY <1>4 DEF SomeFeed
  <2>2. /\ fw' = HandlePacket(Called, p, mode) /\ UNCHANGED <<gap, idle>>
        /\ silence' = IF Hears(p) THEN 0 ELSE silence
    BY <2>1 DEF Feed
  <2>3. \/ Waiting(Called, fw')
        \/ Stopping(Called, fw')
        \/ HeardIn(Called, p) /\ Refreshed(Called, fw')
    BY <1>1, <2>2, StateFacts, PacketHeard
  <2>4. HeardIn(Called, p) => Hears(p)
    BY <1>1 DEF HeardIn, Hears, Admitted, Admissible, SamplesValid
  <2>5. fw'.active \/ ~fw.active
    BY <1>1, <2>3 DEF Waiting, Alike, Stopping, Refreshed
  <2> QED
    BY <1>2, <2>2, <2>3, <2>4, <2>5, HeardSilent
<1>5. CASE FeedCorrupt
  <2>1. Waiting(Called, fw') /\ UNCHANGED <<gap, idle, silence>>
    BY <1>1, <1>5, SendWaits DEF FeedCorrupt, SendError
  <2>2. fw'.active \/ ~fw.active
    BY <1>1, <2>1 DEF Waiting, Alike
  <2> QED
    BY <1>2, <2>1, <2>2, HeardSilent
<1>6. CASE SomeTick
  BY <1>6, TickSilent DEF SomeTick
<1>7. CASE PopFrame
  <2>1. Waiting(Called, fw') /\ UNCHANGED <<gap, idle, silence>>
    BY <1>1, <1>7 DEF PopFrame, Waiting, Sound, Watched, Alike
  <2>2. fw'.active \/ ~fw.active
    BY <1>1, <2>1 DEF Waiting, Alike
  <2> QED
    BY <1>2, <2>1, <2>2, HeardSilent
<1>8. CASE UNCHANGED vars
  BY <1>8 DEF vars, SInv, OnTime, Measured, Late, ToStep
<1> QED
  BY <1>3, <1>4, <1>5, <1>6, <1>7, <1>8 DEF Next

(* However the host, the link and the loop behave, an open session that    *)
(* could drive has heard from its host within the timeout, the time a full *)
(* queue takes to drain and one step of the core (the watchdog of tick,    *)
(* refreshed by the frames that tick consumes).                            *)
THEOREM SilenceCorrect ==
  ASSUME Timely
  PROVE  Spec => []HostSilenceBounded
<1>1. IInv /\ SInv => HostSilenceBounded
  BY Bounded
<1>2. Init => SInv
  BY InitSilent
<1>3. IInv /\ IInv' /\ SInv /\ [Next]_vars => SInv'
  BY NextSilent
<1> QED
  BY <1>1, <1>2, <1>3, Invariant, PTL DEF Spec

-----------------------------------------------------------------------------
(* FusedInOrder.  A frame is admitted if its samples are newer than the    *)
(* last ones queued, and what is given to the estimator may be older than  *)
(* those, or may have left the queue with its session.  "Newer" is not     *)
(* transitive round the counter, so this is a statement about steps that   *)
(* lie within half of its range, wherever that half begins and whether or  *)
(* not the counter wraps in it.  There "newer" is the order of the         *)
(* distances from where the half begins: the invariant is that what was    *)
(* fused, what waits and what was last queued are in order.                *)
WithinHalf(b) ==
  \A p \in Packet : p.type = "Sensor" =>
    \A k \in DOMAIN p.samples : 2 * Ahead(p.samples[k], b) < SeqSize

Rank(b, x) == IF x = NoStep THEN -1 ELSE Ahead(x, b)
Before(b, x, y) == Rank(b, x) < Rank(b, y)
NotAfter(b, x, y) == Rank(b, x) <= Rank(b, y)

StepOrNone == Seq32 \cup {NoStep}
Early(b, x) == x \in StepOrNone /\ 2 * Rank(b, x) < SeqSize

Ordered(b, last, queue, old) ==
  /\ \A k \in Sensor :
       Early(b, last[k]) /\ Early(b, old[k]) /\ NotAfter(b, old[k], last[k])
  /\ \A i \in DOMAIN queue : \A k \in DOMAIN queue[i] :
       /\ queue[i][k] \in Seq32
       /\ Before(b, old[k], queue[i][k])
       /\ NotAfter(b, queue[i][k], last[k])
  /\ \A i, j \in DOMAIN queue : i < j =>
       \A k \in DOMAIN queue[i] \cap DOMAIN queue[j] :
         Before(b, queue[i][k], queue[j][k])

StepsOf(given) == [k \in Sensor |-> given[k].step]

FInv(b) ==
  /\ fused \in [Sensor -> [step : StepOrNone, turn : 0 .. 1]]
  /\ Ordered(b, fw.samples, fw.sensors, StepsOf(fused))

LEMMA RankFacts ==
  ASSUME NEW b \in Seq32
  PROVE  /\ Rank(b, NoStep) = -1
         /\ NoStep \notin Seq32
         /\ \A x \in Seq32 : Rank(b, x) = Ahead(x, b) /\ Rank(b, x) \in Nat
         /\ \A x \in StepOrNone : Rank(b, x) \in Int
<1>1. SeqSize \in Nat \ {0} /\ NoStep = -1 /\ b \in Int
  BY SequenceAssumption DEF NoStep, Seq32
<1>2. NoStep \notin Seq32
  BY <1>1 DEF Seq32
<1>3. \A x \in Seq32 : Ahead(x, b) \in Nat
  <2> SUFFICES ASSUME NEW x \in Seq32 PROVE (x - b) % SeqSize \in Nat
    BY DEF Ahead
  <2>1. x - b \in Int
    BY <1>1 DEF Seq32
  <2> QED
    BY <1>1, <2>1
<1>4. Rank(b, NoStep) = -1 /\ \A x \in Seq32 : Rank(b, x) = Ahead(x, b)
  BY <1>2 DEF Rank
<1> QED
  BY <1>2, <1>3, <1>4 DEF StepOrNone

LEMMA RankOrder ==
  ASSUME NEW b \in Seq32,
         NEW x \in StepOrNone, NEW y \in StepOrNone, NEW z \in StepOrNone
  PROVE  /\ NotAfter(b, x, x)
         /\ Before(b, x, y) => NotAfter(b, x, y)
         /\ NotAfter(b, x, y) /\ NotAfter(b, y, z) => NotAfter(b, x, z)
         /\ NotAfter(b, x, y) /\ Before(b, y, z) => Before(b, x, z)
         /\ Before(b, x, y) /\ NotAfter(b, y, z) => Before(b, x, z)
         /\ NotAfter(b, x, y) /\ Early(b, y) => Early(b, x)
         /\ y \in Seq32 => Before(b, NoStep, y)
<1>1. /\ Rank(b, x) \in Int /\ Rank(b, y) \in Int /\ Rank(b, z) \in Int
      /\ Rank(b, NoStep) = -1 /\ (y \in Seq32 => Rank(b, y) \in Nat)
      /\ SeqSize \in Nat
  BY RankFacts, SequenceAssumption
<1> QED
  BY <1>1 DEF NotAfter, Before, Early

LEMMA NewerIsAfter ==
  ASSUME NEW b \in Seq32, NEW a \in Seq32, NEW c \in Seq32,
         Early(b, a), Early(b, c)
  PROVE  StepIsNewer(a, c) <=> Before(b, c, a)
<1> DEFINE S == SeqSize   x == a - b   y == c - b   d == a - c
           A == Rank(b, a)   C == Rank(b, c)
<1>1. /\ S \in Nat \ {0} /\ x \in Int /\ y \in Int /\ d \in Int
      /\ -S <= x /\ x < S /\ -S <= y /\ y < S /\ -S < d /\ d < S
      /\ d = x - y /\ (a = c <=> d = 0)
  <2>1. SeqSize \in Nat \ {0} /\ a \in Int /\ b \in Int /\ c \in Int
        /\ 0 <= a /\ a < SeqSize /\ 0 <= b /\ b < SeqSize
        /\ 0 <= c /\ c < SeqSize
    BY SequenceAssumption DEF Seq32
  <2> QED
    BY <2>1
<1>2. A = x % S /\ C = y % S /\ Ahead(a, c) = d % S
  BY RankFacts DEF Ahead
<1>3. A \in Nat /\ C \in Nat /\ 2 * A < S /\ 2 * C < S
  BY RankFacts DEF Early
<1>4. StepIsNewer(a, c) <=> d # 0 /\ 2 * Ahead(a, c) < S
  BY <1>1 DEF StepIsNewer, Forward
<1> HIDE DEF S, x, y, d, A, C
<1>5. \A z \in Int : -S <= z /\ z < S =>
        (z >= 0 => z % S = z) /\ (z < 0 => z % S = z + S)
  BY <1>1, SmallRemainder
<1>6. (x >= 0 => A = x) /\ (x < 0 => A = x + S)
  BY <1>1, <1>2, <1>5
<1>7. (y >= 0 => C = y) /\ (y < 0 => C = y + S)
  BY <1>1, <1>2, <1>5
<1>8. StepIsNewer(a, c) <=> C < A
  <2>1. CASE d >= 0
    <3>1. Ahead(a, c) = d
      BY <1>1, <1>2, <1>5, <2>1
    <3> QED
      BY <1>1, <1>3, <1>4, <1>6, <1>7, <2>1, <3>1
  <2>2. CASE d < 0
    <3>1. Ahead(a, c) = d + S
      BY <1>1, <1>2, <1>5, <2>2
    <3> QED
      BY <1>1, <1>3, <1>4, <1>6, <1>7, <2>2, <3>1
  <2> QED
    BY <1>1, <2>1, <2>2
<1> QED
  BY <1>8 DEF A, C, Before

(* What joins the queue is newer than all that is in it.                   *)
LEMMA OrderedJoined ==
  ASSUME NEW b \in Seq32, WithinHalf(b),
         NEW s, s.sensors \in Seq(Samples), NEW old,
         Ordered(b, s.samples, s.sensors, old),
         NEW f \in Carried, Joins(s, f)
  PROVE  Ordered(b, Overlaid(f, s.samples), Append(s.sensors, f), old)
<1> DEFINE q == s.sensors   n == Append(q, f)
           last == s.samples   next == Overlaid(f, last)
<1>1. \A k \in DOMAIN f :
        k \in Sensor /\ f[k] \in Seq32 /\ f[k] \in StepOrNone /\ Early(b, f[k])
  BY PacketAssumption, RankFacts DEF Carried, WithinHalf, Early, StepOrNone
<1>2. \A k \in Sensor : next[k] = IF k \in DOMAIN f THEN f[k] ELSE last[k]
  BY DEF Overlaid
<1>3. \A k \in Sensor : /\ last[k] \in StepOrNone /\ Early(b, last[k])
                        /\ old[k] \in StepOrNone /\ Early(b, old[k])
                        /\ NotAfter(b, old[k], last[k])
  BY DEF Ordered, Early
<1>4. \A k \in DOMAIN f : Before(b, last[k], f[k])
  <2> SUFFICES ASSUME NEW k \in DOMAIN f PROVE Before(b, last[k], f[k])
    OBVIOUS
  <2>1. CASE last[k] = NoStep
    BY <1>1, <2>1, RankOrder DEF StepOrNone
  <2>2. CASE last[k] # NoStep
    <3>1. last[k] \in Seq32 /\ StepIsNewer(f[k], last[k])
      BY <1>1, <1>3, <2>2 DEF StepOrNone, Joins
    <3> QED
      BY <1>1, <1>3, <3>1, NewerIsAfter
  <2> QED
    BY <2>1, <2>2
<1>5. /\ n \in Seq(Samples \cup {f}) /\ Len(n) = Len(q) + 1
      /\ \A i \in 1 .. Len(q) : n[i] = q[i]
      /\ n[Len(q) + 1] = f /\ DOMAIN n = 1 .. Len(q) + 1
      /\ DOMAIN q = 1 .. Len(q) /\ Len(q) \in Nat
  OBVIOUS
<1>6. \A i \in DOMAIN q : DOMAIN q[i] \subseteq Sensor
  BY DEF Samples
<1>7. \A i \in DOMAIN q : \A k \in DOMAIN q[i] :
        /\ q[i][k] \in Seq32 /\ q[i][k] \in StepOrNone
        /\ Before(b, old[k], q[i][k]) /\ NotAfter(b, q[i][k], last[k])
  BY DEF Ordered, StepOrNone
<1> HIDE DEF n, q, next
<1>8. \A k \in Sensor :
        /\ next[k] \in StepOrNone /\ Early(b, next[k])
        /\ NotAfter(b, last[k], next[k]) /\ NotAfter(b, old[k], next[k])
  BY <1>1, <1>2, <1>3, <1>4, RankOrder
<1>9. \A i \in DOMAIN n : \A k \in DOMAIN n[i] :
        /\ n[i][k] \in Seq32
        /\ Before(b, old[k], n[i][k]) /\ NotAfter(b, n[i][k], next[k])
  <2> SUFFICES ASSUME NEW i \in DOMAIN n, NEW k \in DOMAIN n[i]
               PROVE  /\ n[i][k] \in Seq32
                      /\ Before(b, old[k], n[i][k])
                      /\ NotAfter(b, n[i][k], next[k])
    OBVIOUS
  <2>1. CASE i \in DOMAIN q
    <3>1. n[i] = q[i] /\ k \in Sensor
      BY <1>5, <1>6, <2>1
    <3> QED
      BY <1>3, <1>7, <1>8, <2>1, <3>1, RankOrder
  <2>2. CASE i \notin DOMAIN q
    <3>1. n[i] = f
      BY <1>5, <2>2
    <3> QED
      BY <1>1, <1>2, <1>3, <1>4, <3>1, RankOrder
  <2> QED
    BY <2>1, <2>2
<1>10. \A i, j \in DOMAIN n : i < j =>
         \A k \in DOMAIN n[i] \cap DOMAIN n[j] : Before(b, n[i][k], n[j][k])
  <2> SUFFICES ASSUME NEW i \in DOMAIN n, NEW j \in DOMAIN n, i < j,
                      NEW k \in DOMAIN n[i] \cap DOMAIN n[j]
               PROVE  Before(b, n[i][k], n[j][k])
    OBVIOUS
  <2>1. i \in DOMAIN q /\ n[i] = q[i]
    BY <1>5
  <2>2. CASE j \in DOMAIN q
    BY <1>5, <2>1, <2>2 DEF Ordered, q
  <2>3. CASE j \notin DOMAIN q
    <3>1. n[j] = f
      BY <1>5, <2>3
    <3> QED
      BY <1>1, <1>3, <1>4, <1>7, <2>1, <3>1, RankOrder
  <2> QED
    BY <2>2, <2>3
<1> QED
  BY <1>3, <1>8, <1>9, <1>10 DEF Ordered, n, next, q

(* What a step takes is newer than all that was taken.                     *)
LEMMA OrderedTaken ==
  ASSUME NEW b \in Seq32, NEW last, NEW q \in Seq(Samples), q # <<>>,
         NEW old, Ordered(b, last, q, old)
  PROVE  /\ Ordered(b, last, Tail(q), Overlaid(Head(q), old))
         /\ \A k \in DOMAIN Head(q) :
              /\ k \in Sensor /\ Head(q)[k] \in Seq32
              /\ Before(b, old[k], Head(q)[k])
<1> DEFINE h == Head(q)   t == Tail(q)   next == Overlaid(h, old)
<1>1. /\ DOMAIN q = 1 .. Len(q) /\ Len(q) \in Nat \ {0} /\ h = q[1]
      /\ Len(t) = Len(q) - 1 /\ DOMAIN t = 1 .. Len(q) - 1
      /\ \A i \in 1 .. Len(q) - 1 : t[i] = q[i + 1]
  OBVIOUS
<1>2. \A i \in DOMAIN q : DOMAIN q[i] \subseteq Sensor
  BY DEF Samples
<1>3. \A k \in Sensor : next[k] = IF k \in DOMAIN h THEN h[k] ELSE old[k]
  BY DEF Overlaid
<1> HIDE DEF h, t, next
<1>4. \A k \in DOMAIN h : /\ k \in Sensor
                          /\ h[k] \in Seq32 /\ h[k] \in StepOrNone
                          /\ Before(b, old[k], h[k])
                          /\ NotAfter(b, h[k], last[k])
  BY <1>1, <1>2 DEF Ordered, StepOrNone
<1>5. \A k \in Sensor : /\ last[k] \in StepOrNone /\ Early(b, last[k])
                        /\ old[k] \in StepOrNone /\ Early(b, old[k])
                        /\ NotAfter(b, old[k], last[k])
  BY DEF Ordered, Early
<1>6. \A k \in Sensor : Early(b, next[k]) /\ NotAfter(b, next[k], last[k])
  BY <1>3, <1>4, <1>5, RankOrder
<1>7. \A i \in DOMAIN t : \A k \in DOMAIN t[i] :
        /\ t[i][k] \in Seq32
        /\ Before(b, next[k], t[i][k]) /\ NotAfter(b, t[i][k], last[k])
  <2> SUFFICES ASSUME NEW i \in DOMAIN t, NEW k \in DOMAIN t[i]
               PROVE  /\ t[i][k] \in Seq32
                      /\ Before(b, next[k], t[i][k])
                      /\ NotAfter(b, t[i][k], last[k])
    OBVIOUS
  <2>1. i + 1 \in DOMAIN q /\ t[i] = q[i + 1] /\ 1 < i + 1 /\ 1 \in DOMAIN q
    BY <1>1
  <2>2. /\ k \in Sensor /\ t[i][k] \in Seq32 /\ Before(b, old[k], t[i][k])
        /\ NotAfter(b, t[i][k], last[k])
    BY <1>2, <2>1 DEF Ordered
  <2>3. k \in DOMAIN h => Before(b, h[k], t[i][k])
    BY <1>1, <2>1 DEF Ordered
  <2> QED
    BY <1>3, <2>2, <2>3
<1>8. \A i, j \in DOMAIN t : i < j =>
        \A k \in DOMAIN t[i] \cap DOMAIN t[j] : Before(b, t[i][k], t[j][k])
  <2> SUFFICES ASSUME NEW i \in DOMAIN t, NEW j \in DOMAIN t, i < j
               PROVE  \A k \in DOMAIN t[i] \cap DOMAIN t[j] :
                        Before(b, t[i][k], t[j][k])
    OBVIOUS
  <2>1. /\ i + 1 \in DOMAIN q /\ j + 1 \in DOMAIN q /\ i + 1 < j + 1
        /\ t[i] = q[i + 1] /\ t[j] = q[j + 1]
    BY <1>1
  <2> QED
    BY <2>1 DEF Ordered
<1> QED
  BY <1>4, <1>5, <1>6, <1>7, <1>8 DEF Ordered, h, t, next

(* A sample that is given always shows: its sensor's turn flips.           *)
LEMMA GivenShows ==
  ASSUME NEW old \in [Sensor -> [step : StepOrNone, turn : 0 .. 1]],
         NEW f, \A k \in DOMAIN f : k \in Sensor /\ f[k] \in Seq32
  PROVE  /\ FusedWith(f, old) \in [Sensor -> [step : StepOrNone, turn : 0 .. 1]]
         /\ StepsOf(FusedWith(f, old)) = Overlaid(f, StepsOf(old))
         /\ \A k \in Sensor : FusedWith(f, old)[k] # old[k] <=> k \in DOMAIN f
<1> DEFINE new == FusedWith(f, old)
<1>1. \A k \in Sensor : new[k] = IF k \in DOMAIN f
                                   THEN [step |-> f[k], turn |-> 1 - old[k].turn]
                                   ELSE old[k]
  BY DEF FusedWith
<1>2. \A k \in Sensor : /\ old[k] \in [step : StepOrNone, turn : 0 .. 1]
                        /\ 1 - old[k].turn \in 0 .. 1
                        /\ 1 - old[k].turn # old[k].turn
  OBVIOUS
<1>3. new = [k \in Sensor |-> new[k]]
  BY DEF FusedWith
<1> HIDE DEF new
<1>4. ASSUME NEW k \in Sensor
      PROVE  /\ new[k] \in [step : StepOrNone, turn : 0 .. 1]
             /\ new[k].step = IF k \in DOMAIN f THEN f[k] ELSE old[k].step
             /\ new[k] # old[k] <=> k \in DOMAIN f
  <2>1. CASE k \in DOMAIN f
    <3>1. new[k] = [step |-> f[k], turn |-> 1 - old[k].turn]
      BY <1>1, <2>1
    <3>2. f[k] \in StepOrNone
      BY <2>1 DEF StepOrNone
    <3> QED
      BY <1>2, <2>1, <3>1, <3>2
  <2>2. CASE k \notin DOMAIN f
    BY <1>1, <1>2, <2>2
  <2> QED
    BY <2>1, <2>2
<1>5. StepsOf(new) = Overlaid(f, StepsOf(old))
  BY <1>4 DEF StepsOf, Overlaid
<1> QED
  BY <1>3, <1>4, <1>5 DEF new

LEMMA InitOrdered ==
  ASSUME NEW b \in Seq32, Init
  PROVE  FInv(b)
<1>1. fw.samples = [k \in Sensor |-> NoStep] /\ fw.sensors = <<>>
  BY DEF Init, Booted
<1>2. fused = [k \in Sensor |-> [step |-> NoStep, turn |-> 0]]
  BY DEF Init
<1>3. \A k \in Sensor : StepsOf(fused)[k] = NoStep /\ fw.samples[k] = NoStep
  BY <1>1, <1>2 DEF StepsOf
<1>4. NoStep \in StepOrNone /\ Early(b, NoStep) /\ NotAfter(b, NoStep, NoStep)
  <2>1. Rank(b, NoStep) = -1 /\ SeqSize \in Nat \ {0}
    BY RankFacts, SequenceAssumption
  <2> QED
    BY <2>1 DEF Early, StepOrNone, NotAfter
<1>5. Ordered(b, fw.samples, <<>>, StepsOf(fused))
  BY <1>3, <1>4 DEF Ordered
<1> QED
  BY <1>1, <1>2, <1>4, <1>5 DEF FInv

(* The queue is left alone but by what joins it, what a step takes and the *)
(* opening of a session.                                                   *)
LEMMA NextOrdered ==
  ASSUME NEW b \in Seq32, WithinHalf(b), IInv, FInv(b), [Next]_vars
  PROVE  /\ FInv(b)'
         /\ \A k \in Sensor : fused'[k] # fused[k] =>
              /\ fused'[k].step \in Seq32
              /\ Before(b, fused[k].step, fused'[k].step)
<1>1. /\ Sound(Called) /\ Called.sensors = fw.sensors
      /\ Called.samples = fw.samples /\ Called.active = fw.active
      /\ Called.lead = fw.lead /\ Called.stepped = fw.stepped
  BY StateFacts, CalledOK DEF Called, Sound
<1>2. fw.sensors \in Seq(Samples)
  BY DEF IInv, Session, Queue
<1>3. ASSUME Lined(Called, fw'), UNCHANGED fused
      PROVE  FInv(b)'
  <2>1. CASE fw'.samples = fw.samples /\ fw'.sensors \in {fw.sensors, <<>>}
    <3>1. Ordered(b, fw.samples, <<>>, StepsOf(fused))
      BY DEF FInv, Ordered
    <3> QED
      BY <1>3, <2>1, <3>1 DEF FInv
  <2>2. CASE \E f \in Carried : /\ Joins(Called, f)
                                /\ fw'.sensors = Append(Called.sensors, f)
                                /\ fw'.samples = Overlaid(f, Called.samples)
    BY <1>1, <1>2, <1>3, <2>2, OrderedJoined DEF FInv
  <2> QED
    BY <1>1, <1>3, <2>1, <2>2 DEF Lined
<1>4. ASSUME Alike(Called, fw'), UNCHANGED fused
      PROVE  FInv(b)'
  BY <1>1, <1>4 DEF FInv, Alike
<1>5. CASE SomeAdvance
  <2>1. fw'.sensors = fw.sensors /\ fw'.samples = fw.samples
        /\ UNCHANGED fused
    BY <1>1, <1>5 DEF SomeAdvance, Advance, Waited, Sound
  <2> QED
    BY <2>1 DEF FInv
<1>6. CASE SomeFeed
  <2>1. PICK p \in Packet, mode \in Mode : Feed(p, mode)
    BY <1>6 DEF SomeFeed
  <2>2. fw' = HandlePacket(Called, p, mode) /\ UNCHANGED fused
    BY <2>1 DEF Feed
  <2>3. \/ Waiting(Called, fw')
        \/ Stopping(Called, fw')
        \/ HeardIn(Called, p) /\ Refreshed(Called, fw')
    BY <1>1, <2>2, StateFacts, PacketHeard
  <2> QED
    BY <1>3, <1>4, <2>2, <2>3 DEF Waiting, Stopping, Refreshed
<1>7. CASE FeedCorrupt
  <2>1. Waiting(Called, fw') /\ UNCHANGED fused
    BY <1>1, <1>7, SendWaits DEF FeedCorrupt, SendError
  <2> QED
    BY <1>4, <2>1 DEF Waiting
<1>8. CASE SomeTick
  <2>1. PICK mode \in Mode, result \in Result : TickCall(mode, result)
    BY <1>8 DEF SomeTick
  <2>2. /\ fw' = Tick(Called, mode, result)
        /\ fused' = IF Releases(fw) /\ fw.sensors # <<>>
                      THEN FusedWith(Head(fw.sensors), fused) ELSE fused
    BY <2>1 DEF TickCall
  <2>3. Releases(Called) <=> Releases(fw)
    BY <1>1 DEF Releases
  <2>4. \/ ~Called.active /\ fw' = Called
        \/ /\ Called.active /\ ~Releases(Called)
           /\ fw' = [Called EXCEPT !.lead = Polled(Called.lead)]
        \/ Releases(Called) /\ Serviced(Called, fw')
    BY <1>1, <2>2, TickServiced
  <2>5. CASE ~Releases(fw)
    <3>1. fw'.sensors = fw.sensors /\ fw'.samples = fw.samples
      BY <1>1, <2>3, <2>4, <2>5 DEF Sound
    <3> QED
      BY <2>2, <2>5, <3>1 DEF FInv
  <2>6. CASE Releases(fw)
    <3>1. /\ fw'.samples = fw.samples
          /\ fw'.sensors = IF fw.sensors = <<>> THEN <<>> ELSE Tail(fw.sensors)
      BY <1>1, <2>3, <2>4, <2>6 DEF Serviced, Releases
    <3>2. CASE fw.sensors = <<>>
      BY <2>2, <3>1, <3>2 DEF FInv
    <3>3. CASE fw.sensors # <<>>
      <4>1. fused' = FusedWith(Head(fw.sensors), fused)
        BY <2>2, <2>6, <3>3
      <4>2. /\ Ordered(b, fw.samples, Tail(fw.sensors),
                       Overlaid(Head(fw.sensors), StepsOf(fused)))
            /\ \A k \in DOMAIN Head(fw.sensors) :
                 /\ k \in Sensor /\ Head(fw.sensors)[k] \in Seq32
                 /\ Before(b, StepsOf(fused)[k], Head(fw.sensors)[k])
        BY <1>2, <3>3, OrderedTaken DEF FInv
      <4>3. /\ fused' \in [Sensor -> [step : StepOrNone, turn : 0 .. 1]]
            /\ StepsOf(fused') = Overlaid(Head(fw.sensors), StepsOf(fused))
            /\ \A k \in Sensor :
                 fused'[k] # fused[k] <=> k \in DOMAIN Head(fw.sensors)
        BY <4>1, <4>2, GivenShows DEF FInv
      <4>4. \A k \in DOMAIN Head(fw.sensors) :
              /\ fused'[k].step = Head(fw.sensors)[k]
              /\ StepsOf(fused)[k] = fused[k].step
        BY <4>1, <4>2 DEF FusedWith, StepsOf
      <4>5. FInv(b)'
        BY <3>1, <3>3, <4>2, <4>3 DEF FInv
      <4> QED
        BY <4>2, <4>3, <4>4, <4>5
    <3> QED
      BY <3>2, <3>3
  <2> QED
    BY <2>5, <2>6
<1>9. CASE PopFrame
  <2>1. Waiting(Called, fw') /\ UNCHANGED fused
    BY <1>1, <1>9 DEF PopFrame, Waiting, Sound, Watched, Alike
  <2> QED
    BY <1>4, <2>1 DEF Waiting
<1>10. CASE UNCHANGED vars
  BY <1>10 DEF vars, FInv
<1>11. UNCHANGED fused \/ SomeTick
  BY DEF Next, vars, SomeAdvance, Advance, SomeFeed, Feed, FeedCorrupt,
         PopFrame
<1> QED
  BY <1>5, <1>6, <1>7, <1>8, <1>9, <1>10, <1>11 DEF Next

(* No sample is given to the estimator twice or after a later one, across  *)
(* reconnects, replays, reordering and the drops of a full queue, while    *)
(* the steps of a boot lie within half of their range, wrapped or not: at  *)
(* 100 Hz that is eight months.                                            *)
THEOREM FusedCorrect ==
  ASSUME NEW b \in Seq32, WithinHalf(b)
  PROVE  Spec => FusedInOrder
<1> DEFINE Kept == \A k \in Sensor : fused'[k] # fused[k] =>
                     \/ fused[k].step = NoStep
                     \/ StepIsNewer(fused'[k].step, fused[k].step)
<1>1. IInv /\ FInv(b) /\ [Next]_vars => [Kept]_vars
  <2> SUFFICES ASSUME IInv, FInv(b), [Next]_vars,
                      NEW k \in Sensor, fused'[k] # fused[k],
                      fused[k].step # NoStep
               PROVE  StepIsNewer(fused'[k].step, fused[k].step)
    OBVIOUS
  <2>1. FInv(b)' /\ Before(b, fused[k].step, fused'[k].step)
    BY NextOrdered
  <2>2. /\ fused'[k].step \in Seq32 /\ Early(b, fused'[k].step)
        /\ fused[k].step \in StepOrNone /\ Early(b, fused[k].step)
    BY <2>1, NextOrdered DEF FInv, Ordered, StepsOf
  <2>3. fused[k].step \in Seq32
    BY <2>2 DEF StepOrNone
  <2> QED
    BY <2>1, <2>2, <2>3, NewerIsAfter
<1>2. Init => FInv(b)
  BY InitOrdered
<1>3. IInv /\ FInv(b) /\ [Next]_vars => FInv(b)'
  BY NextOrdered
<1> QED
  BY <1>1, <1>2, <1>3, Invariant, PTL DEF Spec, FusedInOrder
=============================================================================

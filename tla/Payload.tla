------------------------------ MODULE Payload ------------------------------
(***************************************************************************)
(* The typed payloads of Protocol v1 (src/host/src/navbench/protocol.py,   *)
(* encode_typed_payload and decode_typed_payload): which messages a sender *)
(* may build, how their fields are laid out, and which payloads a receiver *)
(* takes for a message.                                                    *)
(*                                                                         *)
(* Every field is one cell, whatever its width on the wire.  A message is  *)
(* a record of its fields; fields that are only carried (the samples of a  *)
(* sensor, the health counters) are kept together in a sequence.           *)
(***************************************************************************)
EXTENDS Integers, Sequences, SequencesExt

CONSTANTS
  TopCell,      \* the greatest value of a cell
  MaxPayload    \* MAX_PAYLOAD_SIZE, in cells

ASSUME PayloadAssumption == TopCell \in Nat /\ MaxPayload \in Nat

Cell == 0 .. TopCell
Version == 1
MaxRoutePoints == 5

(* Of the cells of a float, the topmost stands for what is not finite, and *)
(* the one below it for a negative number.                                 *)
Finite(c) == c \in Cell \ {TopCell}
NonNegative(c) == c \in Cell \ {TopCell, TopCell - 1}
AllCells(s) == \A i \in DOMAIN s : s[i] \in Cell
AllFinite(s) == \A i \in DOMAIN s : Finite(s[i])

(* The enumerations and masks.                                             *)
Role == {1, 2}
HelloStatus == 0 .. 3
SensorMask == 0 .. 15
RouteFlags == 0 .. 7
Clears(flags) == flags % 2 = 1
ControlMode == 0 .. 2
RuntimeState == 0 .. 6
NavigationMode == 0 .. 4
SafeStopReason == 0 .. 5
ErrorCode == 0 .. 6

-----------------------------------------------------------------------------
(* The payload classes: what a sender may put together, valid or not.      *)
Tuple(n) == [1 .. n -> Int]

Hellos ==
  [type : {"Hello"}, role : Int, min : Int, max : Int, capabilities : Int,
   limit : Int, timeout : Int]
HelloAcks ==
  [type : {"HelloAck"}, version : Int, status : Int, role : Int,
   capabilities : Int, limit : Int, timeout : Int]
SensorFrames ==
  [type : {"SensorFrame"}, present : Int, faults : Int, imu : Tuple(4),
   wheel : Tuple(3), gnss : Tuple(4), landmark : Int, sighting : Tuple(6)]
RouteChunks ==
  [type : {"RouteChunk"}, route : Int, start : Int, total : Int, flags : Int,
   points : Seq(Tuple(4))]
Commands == [type : {"Command"}, values : Tuple(3), mode : Int, flags : Int]
Estimates ==
  [type : {"Estimate"}, state : Tuple(6), variances : Tuple(6), mode : Int,
   flags : Int]
Healths ==
  [type : {"Health"}, state : Int, mode : Int, flags : Int,
   counters : Tuple(12), summaries : [1 .. 4 -> Tuple(4)]]
Heartbeats == [type : {"Heartbeat"}, clocks : Tuple(2), state : Int]
Errors == [type : {"Error"}, code : Int, context : Tuple(3)]
SafeStops ==
  [type : {"SafeStop"}, reason : Int, latch : BOOLEAN, detail : Int]

Message ==
  Hellos \cup HelloAcks \cup SensorFrames \cup RouteChunks \cup Commands
    \cup Estimates \cup Healths \cup Heartbeats \cup Errors \cup SafeStops

-----------------------------------------------------------------------------
(* encode_typed_payload: what it refuses.                                  *)
ValidLimits(m) == m.limit \in 1 .. MaxPayload /\ m.timeout \in Cell \ {0}

ValidHello(m) ==
  /\ {m.min, m.max} \subseteq Cell /\ m.min # 0 /\ m.min <= m.max
  /\ m.role \in Role /\ m.capabilities \in Cell
  /\ ValidLimits(m)

ValidHelloAck(m) ==
  /\ m.status \in HelloStatus
  /\ m.version = IF m.status = 0 THEN Version ELSE 0
  /\ m.role \in Role /\ m.capabilities \in Cell
  /\ ValidLimits(m)

(* A sample is its step and its timestamp, and then its values.            *)
ValidSample(s) == AllCells(s) /\ AllFinite(SubSeq(s, 3, Len(s)))
ValidSensorFrame(m) ==
  /\ m.present \in SensorMask /\ m.faults \in SensorMask
  /\ ValidSample(m.imu) /\ ValidSample(m.wheel) /\ ValidSample(m.gnss)
  /\ ValidSample(m.sighting) /\ m.landmark \in Cell

ValidRouteChunk(m) ==
  LET count == Len(m.points)
  IN  /\ count <= MaxRoutePoints
      /\ {m.route, m.start, m.total} \subseteq Cell /\ m.flags \in RouteFlags
      /\ count > 0 => m.total > 0 /\ m.start + count <= m.total
      /\ count = 0 => Clears(m.flags)
      /\ \A i \in 1 .. count : AllFinite(m.points[i])

ValidCommand(m) ==
  AllFinite(m.values) /\ m.mode \in ControlMode /\ m.flags \in Cell

ValidEstimate(m) ==
  /\ AllFinite(m.state)
  /\ \A i \in DOMAIN m.variances : NonNegative(m.variances[i])
  /\ m.mode \in NavigationMode /\ m.flags \in Cell

(* A summary of innovations: evaluated, rejected, sum and maximum.         *)
ValidSummary(s) ==
  LET evaluated == s[1]  rejected == s[2]  sum == s[3]  maximum == s[4]
  IN  /\ {evaluated, rejected} \subseteq Cell /\ rejected <= evaluated
      /\ NonNegative(sum) /\ NonNegative(maximum)
      /\ IF evaluated = 0 THEN rejected = 0 /\ sum = 0 /\ maximum = 0
                          ELSE maximum <= sum

ValidHealth(m) ==
  /\ m.state \in RuntimeState /\ m.mode \in NavigationMode /\ m.flags \in Cell
  /\ AllCells(m.counters)
  /\ \A i \in DOMAIN m.summaries : ValidSummary(m.summaries[i])

ValidHeartbeat(m) == AllCells(m.clocks) /\ m.state \in RuntimeState
ValidError(m) == m.code \in ErrorCode /\ AllCells(m.context)
ValidSafeStop(m) ==
  m.reason \in SafeStopReason /\ m.latch \in BOOLEAN /\ m.detail \in Cell

Valid(m) ==
  CASE m.type = "Hello"       -> ValidHello(m)
    [] m.type = "HelloAck"    -> ValidHelloAck(m)
    [] m.type = "SensorFrame" -> ValidSensorFrame(m)
    [] m.type = "RouteChunk"  -> ValidRouteChunk(m)
    [] m.type = "Command"     -> ValidCommand(m)
    [] m.type = "Estimate"    -> ValidEstimate(m)
    [] m.type = "Health"      -> ValidHealth(m)
    [] m.type = "Heartbeat"   -> ValidHeartbeat(m)
    [] m.type = "Error"       -> ValidError(m)
    [] m.type = "SafeStop"    -> ValidSafeStop(m)

(* The layout; reserved cells are zero.                                    *)
Slip_SensorCells(m) ==   \* swaps the masks
  <<m.faults, m.present>> \o m.imu \o m.wheel \o m.gnss
    \o SubSeq(m.sighting, 1, 2) \o <<m.landmark, 0>>
    \o SubSeq(m.sighting, 3, Len(m.sighting))
SensorCells(m) ==
  <<m.present, m.faults>> \o m.imu \o m.wheel \o m.gnss
    \o SubSeq(m.sighting, 1, 2) \o <<m.landmark, 0>>
    \o SubSeq(m.sighting, 3, Len(m.sighting))

Cells(m) ==
  CASE m.type = "Hello" ->
         <<m.role, m.min, m.max, 0, m.capabilities, m.limit, m.timeout>>
    [] m.type = "HelloAck" ->
         <<m.version, m.status, m.role, 0, m.capabilities, m.limit, m.timeout>>
    [] m.type = "SensorFrame" -> SensorCells(m)
    [] m.type = "RouteChunk" ->
         <<m.route, m.start, m.total, Len(m.points), m.flags>>
           \o FlattenSeq(m.points)
    [] m.type = "Command"   -> m.values \o <<m.mode, m.flags, 0>>
    [] m.type = "Estimate"  -> m.state \o m.variances \o <<m.mode, m.flags, 0>>
    [] m.type = "Health" ->
         <<m.state, m.mode, m.flags>> \o m.counters \o FlattenSeq(m.summaries)
    [] m.type = "Heartbeat" -> m.clocks \o <<m.state, 0>>
    [] m.type = "Error"     -> <<m.code>> \o m.context
    [] m.type = "SafeStop"  ->
         <<m.reason, IF m.latch THEN 1 ELSE 0, m.detail>>

-----------------------------------------------------------------------------
(* decode_typed_payload: the fields of a payload of the right length with  *)
(* zero where it looks for zero, which are then encoded again to validate  *)
(* them.  It does not look at the reserved bytes of a heartbeat.           *)
Refused == [type |-> "Refused"]

Groups(c, first, count) ==
  [i \in 1 .. count |-> SubSeq(c, first + 4 * (i - 1), first + 4 * i - 1)]

HelloOf(c) ==
  IF Len(c) # 7 \/ c[4] # 0 THEN Refused
  ELSE [type |-> "Hello", role |-> c[1], min |-> c[2], max |-> c[3],
        capabilities |-> c[5], limit |-> c[6], timeout |-> c[7]]

Slip_HelloAckOf(c) ==   \* takes any reserved cell
  IF Len(c) # 7 THEN Refused
  ELSE [type |-> "HelloAck", version |-> c[1], status |-> c[2],
        role |-> c[3], capabilities |-> c[5], limit |-> c[6],
        timeout |-> c[7]]
HelloAckOf(c) ==
  IF Len(c) # 7 \/ c[4] # 0 THEN Refused
  ELSE [type |-> "HelloAck", version |-> c[1], status |-> c[2],
        role |-> c[3], capabilities |-> c[5], limit |-> c[6],
        timeout |-> c[7]]

SensorFrameOf(c) ==
  IF Len(c) # 21 \/ c[17] # 0 THEN Refused
  ELSE [type |-> "SensorFrame", present |-> c[1], faults |-> c[2],
        imu |-> SubSeq(c, 3, 6), wheel |-> SubSeq(c, 7, 9),
        gnss |-> SubSeq(c, 10, 13), landmark |-> c[16],
        sighting |-> SubSeq(c, 14, 15) \o SubSeq(c, 18, 21)]

RouteChunkOf(c) ==
  IF Len(c) < 5 \/ c[4] > MaxRoutePoints \/ Len(c) # 5 + 4 * c[4] THEN Refused
  ELSE [type |-> "RouteChunk", route |-> c[1], start |-> c[2],
        total |-> c[3], flags |-> c[5], points |-> Groups(c, 6, c[4])]

CommandOf(c) ==
  IF Len(c) # 6 \/ c[6] # 0 THEN Refused
  ELSE [type |-> "Command", values |-> SubSeq(c, 1, 3), mode |-> c[4],
        flags |-> c[5]]

EstimateOf(c) ==
  IF Len(c) # 15 \/ c[15] # 0 THEN Refused
  ELSE [type |-> "Estimate", state |-> SubSeq(c, 1, 6),
        variances |-> SubSeq(c, 7, 12), mode |-> c[13], flags |-> c[14]]

HealthOf(c) ==
  IF Len(c) # 31 THEN Refused
  ELSE [type |-> "Health", state |-> c[1], mode |-> c[2], flags |-> c[3],
        counters |-> SubSeq(c, 4, 15), summaries |-> Groups(c, 16, 4)]

HeartbeatOf(c) ==
  IF Len(c) # 4 THEN Refused
  ELSE [type |-> "Heartbeat", clocks |-> SubSeq(c, 1, 2), state |-> c[3]]

ErrorOf(c) ==
  IF Len(c) # 4 THEN Refused
  ELSE [type |-> "Error", code |-> c[1], context |-> SubSeq(c, 2, 4)]

SafeStopOf(c) ==
  IF Len(c) # 3 \/ c[2] > 1 THEN Refused
  ELSE [type |-> "SafeStop", reason |-> c[1], latch |-> c[2] = 1,
        detail |-> c[3]]

Fields(type, c) ==
  CASE type = "Hello"       -> HelloOf(c)
    [] type = "HelloAck"    -> HelloAckOf(c)
    [] type = "SensorFrame" -> SensorFrameOf(c)
    [] type = "RouteChunk"  -> RouteChunkOf(c)
    [] type = "Command"     -> CommandOf(c)
    [] type = "Estimate"    -> EstimateOf(c)
    [] type = "Health"      -> HealthOf(c)
    [] type = "Heartbeat"   -> HeartbeatOf(c)
    [] type = "Error"       -> ErrorOf(c)
    [] type = "SafeStop"    -> SafeStopOf(c)

Decoded(type, c) ==
  LET m == Fields(type, c)
  IN  IF m.type # "Refused" /\ Valid(m) THEN m ELSE Refused
=============================================================================

----------------------------- MODULE Controller -----------------------------
(***************************************************************************)
(* The controller process as its host sees it: FirmwareSession with the    *)
(* numbers its frames carry, their sequence and their step, as operators   *)
(* from a record to a record and the frames that the call sends.  Every    *)
(* frame is popped by the call that made it, as in the native library and  *)
(* in the loop of main.cpp on a line that keeps up.                        *)
(*                                                                         *)
(* The estimator stays healthy and accepts every frame that reaches it.    *)
(***************************************************************************)
EXTENDS Integers, Sequences, Frames

CONSTANTS
  HostTimeout, UnavailableGrace, OverflowThreshold, ClockSize, Task, Period,
  SeqSize, ReorderWindow, MaxLag, TxCapacity, SensorCapacity, HealthPeriod,
  HeartbeatPeriod,   \* as in FirmwareSession
  Sensor             \* the kinds of sample a frame may carry

C == INSTANCE FirmwareSession WITH
       Mode <- {"GnssAided", "Unavailable"}, Packet <- {},
       MaxGap <- 1, MaxIdle <- 1,
       fw <- 0, gap <- 0, idle <- 0, silence <- 0, fused <- 0

-----------------------------------------------------------------------------
(* The session, the sequence number of its next frame, last_step_id_, and  *)
(* the step of every queued sensor frame.                                  *)
Booted == [fw |-> C!Booted, seq |-> 0, lastStep |-> 0, queued |-> <<>>]

Numbered(c, k) ==
  [i \in DOMAIN c.fw.tx |->
     Stamped(c.fw.tx[i], [seq |-> (c.seq + i - 1) % SeqSize, step |-> k,
                          decodes |-> TRUE])]

(* Every call ends with all frames popped.                                 *)
Drained(c, k) ==
  [ctl |-> [c EXCEPT !.fw.tx = <<>>,
                     !.seq = (@ + Len(c.fw.tx)) % SeqSize],
   out |-> Numbered(c, k)]

Called(c) == [c EXCEPT !.fw.command = "None"]

(* feed, one frame or one frame the parser refuses.                        *)
Reached(c, frame) ==
  \/ frame.type = "Hello"
  \/ ~c.fw.active /\ frame.type # "SafeStop"
  \/ C!Admitted(c.fw, frame)

Noted(c, frame) == IF Reached(c, frame) THEN frame.step ELSE c.lastStep

FedTo(c, frame, fw) ==
  LET grown == Len(fw.sensors) > Len(c.fw.sensors)
      hello == frame.type = "Hello"
  IN  Drained([fw |-> fw,
               seq |-> IF hello THEN 0 ELSE c.seq,
               lastStep |-> Noted(c, frame),
               queued |-> CASE hello            -> <<>>
                            [] grown            -> Append(c.queued, frame.step)
                            [] ~hello /\ ~grown -> c.queued],
              Noted(c, frame))

FedPacket(c, frame) ==
  FedTo(c, frame, C!HandlePacket(c.fw, frame, "GnssAided"))

Fed(c, frame) ==
  IF frame.type = "Corrupt"
    THEN Drained([c EXCEPT !.fw = C!SendError(@)], c.lastStep)
    ELSE FedPacket(c, frame)

(* tick: what it sends carries the step of the sensor frame it consumed,   *)
(* or the step it was called with.                                         *)
TickedTo(c, k, fw) ==
  LET consumed == Len(fw.sensors) < Len(c.fw.sensors)
  IN  Drained([c EXCEPT !.fw = fw, !.lastStep = k,
                        !.queued = IF consumed THEN Tail(@) ELSE @],
              IF consumed THEN Head(c.queued) ELSE k)

Ticked(c, k) == TickedTo(c, k, C!Tick(c.fw, "GnssAided", "Accepted"))

(* FEED feeds and ticks, TICK ticks.                                       *)
After(sent, call) == [ctl |-> call.ctl, out |-> sent \o call.out]
TickedAfter(fed) ==
  After(fed.out, Ticked(fed.ctl, fed.ctl.lastStep))

FeedCall(c, frame) == TickedAfter(Fed(Called(c), frame))
=============================================================================

------------------------- MODULE MCFirmwareSession -------------------------
(***************************************************************************)
(* FirmwareSession with a control release every tick of the clock and a    *)
(* health release every second one, a transmit queue that holds the        *)
(* largest bundle and no more, and for each question the packets that      *)
(* bear on it.  The loop's lateness and the wrap of the counter are        *)
(* Scheduler's and RuntimeCore's; here every release is met.  What bounds  *)
(* the silence of a host is also the time between two releases: the run    *)
(* that asks has one every second tick (SlowPeriod).                       *)
(***************************************************************************)
EXTENDS FirmwareSession

MCTask == {"Control", "Health", "Telemetry"}
MCPeriod == [t \in MCTask |-> IF t = "Control" THEN 1 ELSE 2]
SlowPeriod == [t \in MCTask |-> 2]

Bare(type, seq, ok) == [type |-> type, seq |-> seq, step |-> 0, ok |-> ok]
Hello == Bare("Hello", 0, TRUE)

GnssAt(seq, step, sample) ==
  [type |-> "Sensor", seq |-> seq, step |-> step, ok |-> TRUE,
   samples |-> [k \in {"Gnss"} |-> sample]]

Chunk(seq, id, start, total, bad) ==
  [type |-> "Route", seq |-> seq, step |-> 0, ok |-> TRUE, id |-> id,
   start |-> start, count |-> 1, total |-> total, clear |-> start = 0,
   final |-> start + 1 = total, bad |-> bad]

(* What drives and what stops: frames that initialise the estimator, the  *)
(* chunks of two routes of the same length, of which one never comes with  *)
(* its first waypoint, stops, and what no handler accepts.                 *)
OutputPacket ==
  {Hello} \cup
    UNION {{Bare("SafeStop", seq, TRUE), Bare("Other", seq, TRUE),
            GnssAt(seq, 0, 0), Chunk(seq, "two", 1, 2, FALSE)}
             \cup {Chunk(seq, "one", start, 2, FALSE) : start \in 0 .. 1}
             : seq \in 1 .. 2}

(* Sensor frames in every order, repeated and late, with every sample lag, *)
(* at the steps before and after the counter of steps wraps.               *)
WrapSteps == {SeqSize - 1, 0, 1}
InputPacket ==
  {Hello} \cup {GnssAt(seq, step, sample) :
                 seq \in 1 .. 3, step \in WrapSteps, sample \in WrapSteps}
=============================================================================

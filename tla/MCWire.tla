------------------------------- MODULE MCWire -------------------------------
(* Wire with bytes of six bits, and a message or two of each type.         *)
EXTENDS Wire, Checksum

ASSUME BytesFit == TopCell = 2^ByteBits - 1

(* What the proofs take from the checksum, for two bytes: it fits in two.  *)
ASSUME ChecksumFits ==
  \A bytes \in {<<>>} \cup (Cell \X Cell) :
    Crc16Ccitt(bytes) \in Nat /\ Crc16Ccitt(bytes) \div (TopCell + 1) \in Cell

MCMessages ==
  {[type |-> "Hello", role |-> 1, min |-> 1, max |-> 1, capabilities |-> 31,
    limit |-> 31, timeout |-> 50],
   [type |-> "HelloAck", version |-> 1, status |-> 0, role |-> 2,
    capabilities |-> 31, limit |-> 31, timeout |-> 50],
   [type |-> "HelloAck", version |-> 0, status |-> 1, role |-> 2,
    capabilities |-> 0, limit |-> 31, timeout |-> 50],
   [type |-> "SensorFrame", present |-> 9, faults |-> 0,
    imu |-> <<7, 0, 5, 6>>, wheel |-> <<0, 0, 0>>, gnss |-> <<0, 0, 0, 0>>,
    landmark |-> 3, sighting |-> <<7, 0, 1, 2, 3, 4>>],
   [type |-> "RouteChunk", route |-> 1, start |-> 0, total |-> 2, flags |-> 3,
    points |-> <<<<1, 0, 2, 1>>, <<62, 5, 0, 1>>>>],
   [type |-> "RouteChunk", route |-> 1, start |-> 5, total |-> 0, flags |-> 1,
    points |-> <<>>],
   [type |-> "Command", values |-> <<62, 0, 3>>, mode |-> 1, flags |-> 0],
   [type |-> "Estimate", state |-> <<1, 2, 62, 4, 0, 6>>,
    variances |-> <<1, 1, 0, 1, 1, 1>>, mode |-> 3, flags |-> 0],
   [type |-> "Health", state |-> 3, mode |-> 3, flags |-> 0,
    counters |-> <<9, 8, 7, 0, 0, 0, 0, 0, 0, 0, 0, 4>>,
    summaries |-> <<<<5, 1, 6, 3>>, <<0, 0, 0, 0>>, <<5, 5, 3, 3>>,
                    <<1, 0, 2, 2>>>>],
   [type |-> "Heartbeat", clocks |-> <<5, 0>>, state |-> 4],
   [type |-> "Error", code |-> 1, context |-> <<2, 0, 3>>],
   [type |-> "SafeStop", reason |-> 1, latch |-> TRUE, detail |-> 0]}
=============================================================================

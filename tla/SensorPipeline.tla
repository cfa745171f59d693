-------------------------- MODULE SensorPipeline --------------------------
(***************************************************************************)
(* SensorPipeline (src/host/src/navbench/sensors.py): samples are taken on *)
(* the grid of their sensor, wait for their latency in a heap, and leave   *)
(* in the order in which they fall due.  _sensor_payload (cil.py) makes a  *)
(* frame of what leaves in one step.                                       *)
(*                                                                         *)
(* A sample is its sensor and its step; what was measured is left out.  A  *)
(* random dropout is a fault window of one step.  Faults are records of a  *)
(* target, a kind, the steps from .. until - 1, and a delay in steps.      *)
(***************************************************************************)
EXTENDS Integers, Sequences, SequencesExt

CONSTANTS
  SensorOrder,    \* the enabled sensors, in the order step samples them
  SamplePeriod,   \* the steps between two samples, for each of them
  Latency,        \* the configured latency, rounded up to steps
  Landmarks       \* the ids of the landmarks in view

SensorKind == ToSet(SensorOrder)

-----------------------------------------------------------------------------
(* FaultSpec.active, _fault_active, _fault_sum                             *)
Active(f, k) == f.from <= k /\ k < f.until

Striking(faults, target, kind, k) ==
  {f \in faults : f.target = target /\ f.kind = kind /\ Active(f, k)}

FaultActive(faults, target, kind, k) ==
  Striking(faults, target, kind, k) # {}

FaultSum(faults, target, kind, k) ==
  FoldLeft(LAMBDA sum, f : sum + f.delay, 0,
           SetToSeq(Striking(faults, target, kind, k)))

-----------------------------------------------------------------------------
(* _pending is a heap ordered by delivery step and ordinal.                *)
NoSamples == [s \in SensorKind |-> 0]
Fresh == [pending |-> {}, ordinal |-> 0, generated |-> NoSamples,
          delivered |-> NoSamples, dropped |-> NoSamples]

(* _sample_imu and its siblings: the latency is that of the sampling step. *)
Delivery(faults, s, k) ==
  k + Latency[s] + FaultSum(faults, s, "latency_spike", k)

RecordOrDrop(p, faults, s, k) ==
  LET counted == [p EXCEPT !.generated[s] = @ + 1]
  IN  IF FaultActive(faults, s, "dropout", k)
        THEN [counted EXCEPT !.dropped[s] = @ + 1]
        ELSE [counted EXCEPT
                !.ordinal = @ + 1,
                !.pending = @ \cup {[due |-> Delivery(faults, s, k),
                                     ordinal |-> p.ordinal + 1,
                                     sensor |-> s, step |-> k]}]

SampledOne(p, faults, s, k) ==
  IF k % SamplePeriod[s] = 0 THEN RecordOrDrop(p, faults, s, k) ELSE p
Sampled(p, faults, k) ==
  FoldLeft(LAMBDA q, s : SampledOne(q, faults, s, k), p, SensorOrder)

(* Popping the heap.                                                       *)
Earlier(a, b) == a.due < b.due \/ (a.due = b.due /\ a.ordinal < b.ordinal)

Popped(p, samples) ==
  [pipe |-> [p EXCEPT !.pending = @ \ samples,
               !.delivered = [s \in SensorKind |->
                  @[s] + Cardinality({m \in samples : m.sensor = s})]],
   out  |-> SetToSortSeq(samples, Earlier)]

Slip_DueBy(p, k) ==
  {m \in p.pending : \A n \in p.pending : n.ordinal <= m.ordinal => n.due <= k}
DueBy(p, k) == {m \in p.pending : m.due <= k}

(* step, once per step of the scenario                                     *)
Stepped(p, faults, k) ==
  LET sampled == Sampled(p, faults, k)
  IN  Popped(sampled, DueBy(sampled, k))

(* drain_pending, after the last one                                       *)
Slip_Drained(p) == [pipe |-> p, out |-> <<>>]
Drained(p) == Popped(p, p.pending)

-----------------------------------------------------------------------------
(* _sensor_payload: of each sensor the newest sample; of the landmarks one *)
(* observation, at a place in their order that the step decides.           *)
Newest(delivered, s) ==
  CHOOSE k \in {m.step : m \in delivered} :
    /\ \E m \in delivered : m.sensor = s /\ m.step = k
    /\ \A m \in delivered : m.sensor = s => m.step <= k

Observations(delivered) ==
  SetToSortSeq(
    {<<m.step, id>> : m \in {n \in delivered : n.sensor = "Landmark"},
                      id \in Landmarks},
    LAMBDA a, b : a[1] < b[1] \/ (a[1] = b[1] /\ a[2] < b[2]))

Observed(delivered, k) ==
  LET all == Observations(delivered) IN all[(k % Len(all)) + 1]

SensorPayload(delivered, k) ==
  LET seen == {m.sensor : m \in delivered}
      kinds == IF Landmarks = {} THEN seen \ {"Landmark"} ELSE seen
  IN  [s \in kinds |-> IF s = "Landmark" THEN Observed(delivered, k)[1]
                                         ELSE Newest(delivered, s)]
=============================================================================

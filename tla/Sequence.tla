------------------------------ MODULE Sequence ------------------------------
(***************************************************************************)
(* SequenceTracker (src/src/protocol.cpp) and the comparisons of step ids  *)
(* that FirmwareSession makes beside it: modular arithmetic on sequence    *)
(* numbers and step ids of the wire, 2^32 each in the code.                *)
(***************************************************************************)
EXTENDS Integers

CONSTANTS
  SeqSize,         \* the number of sequence numbers, and of step ids
  ReorderWindow,   \* how far behind a packet counts as out of order (32)
  MaxLag           \* maximum_sample_lag_steps (12)

(* The constructor refuses a window of zero or of half the numbers.        *)
ASSUME SequenceAssumption ==
  /\ SeqSize \in Nat \ {0}
  /\ ReorderWindow \in Nat \ {0} /\ 2 * ReorderWindow < SeqSize
  /\ MaxLag \in Nat \ {0} /\ 2 * MaxLag < SeqSize

Seq32 == 0 .. SeqSize - 1

(* How far a number is ahead of another, and whether that is forward.      *)
Ahead(a, b) == (a - b) % SeqSize
Forward(delta) == 2 * delta < SeqSize

(* The other verdicts are Duplicate, OutOfOrder and Stale.                 *)
Taken == {"First", "InOrder", "Gap"}

TrackerRecord ==
  [initialized : BOOLEAN, last : Seq32, hasStep : BOOLEAN, lastStep : Seq32]

(* reset                                                                   *)
Untracked ==
  [initialized |-> FALSE, last |-> 0, hasStep |-> FALSE, lastStep |-> 0]

(* A packet is a sequence number and, when it is bound to a step, the id   *)
(* of the step.                                                            *)
StepRegressed(k, bound, step) ==
  bound /\ k.hasStep /\ ~Forward(Ahead(step, k.lastStep))

(* observeInternal, the verdict.                                           *)
Verdict(k, seq, bound, step) ==
  LET delta == Ahead(seq, k.last)
  IN  CASE ~k.initialized -> "First"
        [] k.initialized /\ delta = 0 -> "Duplicate"
        [] k.initialized /\ delta # 0 /\ Forward(delta) ->
             IF StepRegressed(k, bound, step) THEN "Stale"
             ELSE IF delta = 1 THEN "InOrder" ELSE "Gap"
        [] k.initialized /\ ~Forward(delta) ->
             IF Ahead(k.last, seq) <= ReorderWindow THEN "OutOfOrder"
             ELSE "Stale"

(* observeInternal, the effect of a packet that is taken.                  *)
Observed(k, seq, bound, step) ==
  [initialized |-> TRUE,
   last        |-> seq,
   hasStep     |-> k.hasStep \/ bound,
   lastStep    |-> IF bound THEN step ELSE k.lastStep]

-----------------------------------------------------------------------------
(* step_is_newer and sample_step_is_fresh.                                 *)
StepIsNewer(candidate, previous) ==
  candidate # previous /\ Forward(Ahead(candidate, previous))

SampleIsFresh(sample, frame) == Ahead(frame, sample) <= MaxLag
=============================================================================

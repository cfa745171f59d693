----------------------------- MODULE FaultLink -----------------------------
(***************************************************************************)
(* DeterministicFaultTransport (src/host/src/navbench/transport.py): what  *)
(* the link between host and controller does to the frames of one step.    *)
(* Each direction keeps the frame before, for replays, and the frames it   *)
(* delays, in the order in which they were sent.                           *)
(*                                                                         *)
(* A fault state is a record of what is wrong with the link; a corrupted   *)
(* frame is one that the receiving parser refuses.                         *)
(***************************************************************************)
EXTENDS Integers, Sequences, SequencesExt

NoFrame == [type |-> "None"]
Corrupted == [type |-> "Corrupt"]

Healthy == [loss |-> FALSE, corrupt |-> FALSE, delay |-> 0,
            stale |-> FALSE, down |-> FALSE]

Quiet == [previous |-> NoFrame, delayed |-> <<>>]

(* _apply_tx_fault: the direction after one frame, and what passes now.    *)
FrameShaped(d, now, fault, frame) ==
  LET current == IF fault.stale /\ d.previous # NoFrame
                   THEN d.previous ELSE frame
      shaped  == IF fault.corrupt THEN Corrupted ELSE current
      kept    == [d EXCEPT !.previous = frame]
  IN  CASE fault.down \/ fault.loss -> [dir |-> kept, out |-> <<>>]
        [] ~(fault.down \/ fault.loss) /\ fault.delay > 0 ->
             [dir |-> [kept EXCEPT !.delayed =
                         Append(@, [due |-> now + fault.delay,
                                    frame |-> shaped])],
              out |-> <<>>]
        [] ~(fault.down \/ fault.loss \/ fault.delay > 0) ->
             [dir |-> kept, out |-> <<shaped>>]

(* write and read: frame after frame.                                      *)
Shaped(d, now, fault, frames) ==
  FoldLeft(LAMBDA acc, frame :
             LET one == FrameShaped(acc.dir, now, fault, frame)
             IN  [dir |-> one.dir, out |-> acc.out \o one.out],
           [dir |-> d, out |-> <<>>], frames)

(* _release_due_tx: only the head of the queue is looked at, so a frame    *)
(* waits for those before it; a release while disconnected is a loss.      *)
Due(d, now) ==
  {i \in DOMAIN d.delayed : \A j \in 1 .. i : d.delayed[j].due <= now}

Released(d, now, fault) ==
  LET due == Due(d, now)
      last == IF due = {} THEN 0 ELSE CHOOSE i \in due : \A j \in due : j <= i
  IN  [dir |-> [d EXCEPT !.delayed = SubSeq(@, last + 1, Len(@))],
       out |-> IF fault.down THEN <<>>
               ELSE [i \in 1 .. last |-> d.delayed[i].frame]]

(* configure: the frames due now leave with the new fault state.           *)
Configured(tx, rx, now, fault) ==
  [tx |-> Released(tx, now, fault), rx |-> Released(rx, now, fault)]
=============================================================================

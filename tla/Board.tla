------------------------------- MODULE Board -------------------------------
(***************************************************************************)
(* loop() of src/src/main.cpp around the session, in the build that        *)
(* reports diagnostics: bytes come in, one frame at a time is staged and   *)
(* written in the parts that the port takes, and while the session has     *)
(* nothing to send the DiagnosticScheduler (src/src/serial_io.cpp) picks   *)
(* what to report.                                                         *)
(*                                                                         *)
(* Of the session only the transmit queue is here, with what may happen to *)
(* it in feed; a frame is its size.  Of a report only its category matters *)
(* and whether what it would say has changed since it was last made; the   *)
(* last write, which the reports themselves change, is kept as it is.      *)
(***************************************************************************)
EXTENDS Clock, Sequences

CONSTANTS
  QueueSize,       \* frames in the transmit queue (8)
  ReplySizes,      \* sizes of what the session sends
  ReportSize,      \* size of the frame of a report
  MaxChunk,        \* kMaximumTxBytesPerLoop
  MinimumPeriod,   \* kMinimumPeriodMs (250)
  BeaconPeriod,    \* kBeaconPeriodMs (1000)
  MaxLoop          \* the longest time between two loops

ASSUME BoardAssumption ==
  /\ QueueSize \in Nat \ {0} /\ MaxChunk \in Nat \ {0}
  /\ ReportSize \in Nat \ {0} /\ ReplySizes \subseteq Nat \ {0}
  /\ MinimumPeriod \in Nat /\ BeaconPeriod \in Nat /\ MaxLoop \in Nat

Categories == <<"Receive", "Parser", "Transmit", "Queue">>   \* by priority

VARIABLES
  board,    \* the queue, the stager and the scheduler, see Init
  gap,      \* time since the last loop
  wire,     \* observed: how much of which frame has gone out
  last      \* observed: what the last loop met and what it reported

vars == <<board, gap, wire, last>>

Min2(a, b) == IF a < b THEN a ELSE b
NoWrite == [asked |-> 0, taken |-> 0]

-----------------------------------------------------------------------------
(* receiveSerial.  Bytes change what the Receive report says, a frame      *)
(* among them may change the parser's status, or change it back; a reply   *)
(* that finds the queue full drops what is in it (enqueue).                *)
Replied(b, size) ==
  [b EXCEPT !.queue = IF Len(@) < QueueSize THEN Append(@, size) ELSE <<size>>,
            !.changed = @ \cup {"Queue"}]

Received(b, parser) ==
  [b EXCEPT !.changed = (@ \ {"Parser"}) \cup {"Receive"} \cup parser]

Heard(b) == {Received(b, parser) : parser \in {{}, {"Parser"}}}
Answered(b) == {b} \cup {Replied(b, size) : size \in ReplySizes}

-----------------------------------------------------------------------------
(* DiagnosticScheduler::next                                               *)
Slip_NeedsOnce(b, c) == c \notin b.mask
Needs(b, c) ==
  \/ c \notin b.mask
  \/ c = "Transmit" /\ b.write # b.told
  \/ c \in b.changed

Selected(b) ==
  LET wanted == {i \in DOMAIN Categories : Needs(b, Categories[i])}
      first == CHOOSE i \in wanted : \A j \in wanted : i <= j
  IN  IF b.mask # {} /\ b.eventAge < MinimumPeriod THEN "None"
      ELSE IF b.initial THEN "Beacon"
      ELSE IF wanted # {} THEN Categories[first]
      ELSE IF b.beaconAge >= BeaconPeriod THEN "Beacon"
      ELSE "None"

Slip_ReportedUnmasked(b, event) ==
  [b EXCEPT !.initial = FALSE,
            !.changed = @ \ {event},
            !.told = IF event = "Transmit" THEN b.write ELSE @,
            !.eventAge = 0,
            !.beaconAge = IF event = "Beacon" THEN 0 ELSE @]
Reported(b, event) ==
  [b EXCEPT !.initial = FALSE,
            !.mask = @ \cup {event},
            !.changed = @ \ {event},
            !.told = IF event = "Transmit" THEN b.write ELSE @,
            !.eventAge = 0,
            !.beaconAge = IF event = "Beacon" THEN 0 ELSE @]

-----------------------------------------------------------------------------
(* transmitSerial: stage the next frame of the session, or else a report,  *)
(* then write a part of what is staged.                                    *)
Idle(b) == b.size = 0

Popped(b) ==
  [b EXCEPT !.size = Head(b.queue), !.queue = Tail(@),
            !.changed = @ \cup {"Queue"}]

Staged(b) ==
  IF ~Idle(b) THEN b
  ELSE IF b.queue # <<>> THEN Popped(b)
  ELSE IF Selected(b) # "None"
    THEN [Reported(b, Selected(b)) EXCEPT !.size = ReportSize]
    ELSE b

EventOf(b) == IF Idle(b) /\ b.queue = <<>> THEN Selected(b) ELSE "None"

NextWrite(b) == Min2(b.size - b.offset, MaxChunk)

(* acknowledge_write                                                       *)
Slip_WrittenAsAsked(b, asked, taken) ==
  LET next == b.offset + asked
  IN  [b EXCEPT !.write = [asked |-> asked, taken |-> taken],
                !.offset = IF next = b.size THEN 0 ELSE next,
                !.size = IF next = b.size THEN 0 ELSE @]
Written(b, asked, taken) ==
  LET next == b.offset + taken
  IN  [b EXCEPT !.write = [asked |-> asked, taken |-> taken],
                !.offset = IF next = b.size THEN 0 ELSE next,
                !.size = IF next = b.size THEN 0 ELSE @]

(* The wire knows nothing of the stager: a frame begins when another one   *)
(* was staged.                                                             *)
Sent(w, b, taken) ==
  IF taken = 0 THEN w
  ELSE IF b.offset = 0
    THEN [turn |-> 1 - w.turn, size |-> b.size, sent |-> taken]
    ELSE [w EXCEPT !.sent = @ + taken]

-----------------------------------------------------------------------------
Init ==
  /\ board =
       [queue     |-> <<>>,      \* sizes of the session's frames
        size      |-> 0,         \* size_, zero when idle
        offset    |-> 0,         \* offset_
        write     |-> NoWrite,   \* lastWriteRequested, lastWriteResult
        told      |-> NoWrite,   \* the same, as last reported
        changed   |-> {},        \* other categories changed since reported
        initial   |-> TRUE,      \* initial_beacon_pending_
        mask      |-> {},        \* reported_mask_, event_emitted_ if any
        eventAge  |-> 0,         \* elapsed since last_event_ms_
        beaconAge |-> 0]         \* elapsed since last_beacon_ms_
  /\ gap = 0
  /\ wire = [turn |-> 0, size |-> 0, sent |-> 0]
  /\ last = [fed |-> FALSE, held |-> FALSE, event |-> "None"]

(* Nothing is staged, or the port says it has no room.                     *)
NoPart(b) ==
  /\ board' = b
  /\ UNCHANGED wire

(* The port is asked to take no more than it said it has room for, and may *)
(* take less.                                                              *)
Part(b, asked, taken) ==
  /\ board' = Written(b, asked, taken)
  /\ wire' = Sent(wire, b, taken)

Note(fed, held, event) == last' = [fed |-> fed, held |-> held, event |-> event]

(* One loop: b is the board once the input was handled.                    *)
Transmit(fed, b) ==
  LET s == Staged(b)
  IN  \/ /\ NoPart(s)
         /\ Note(fed, ~Idle(s), EventOf(b))
      \/ /\ ~Idle(s)
         /\ \E asked \in 1 .. NextWrite(s) : \E taken \in 0 .. asked :
              /\ Part(s, asked, taken)
              /\ Note(fed, taken < NextWrite(s), EventOf(b))

Loop ==
  /\ gap' = 0
  /\ \/ Transmit(FALSE, board)
     \/ \E heard \in Heard(board) : \E b \in Answered(heard) : Transmit(TRUE, b)

Elapse ==
  /\ gap < MaxLoop
  /\ gap' = gap + 1
  /\ board' = [board EXCEPT !.eventAge = Older(@, 1), !.beaconAge = Older(@, 1)]
  /\ UNCHANGED <<wire, last>>

Next == Elapse \/ Loop

Spec == Init /\ [][Next]_vars

(* The sketch calls loop() for ever, and the clock runs.                   *)
FairSpec == Spec /\ WF_vars(Loop) /\ WF_vars(Elapse)

-----------------------------------------------------------------------------
(* Frames reach the line whole and one after the other, whatever part of a *)
(* write the port takes, and although the queue they came from is emptied  *)
(* by an overflow in between.                                              *)
FramesWhole ==
  [][\/ wire'.turn = wire.turn /\ wire'.sent \in wire.sent + 1 .. wire.size
     \/ wire'.turn # wire.turn /\ wire.sent = wire.size]_wire

(* Once nothing comes in and the port takes what it is offered, the beacon *)
(* returns again and again, for a host that opens the port late: the       *)
(* reports' own frames, which change what there is to report, do not keep  *)
(* it away.                                                                *)
Steady == ~last.fed /\ ~last.held
BeaconReturns == <>[]Steady => []<>(last.event = "Beacon")

(* And in between every category was reported as it is.                    *)
StateReported ==
  <>[]Steady => <>[](Idle(board) => /\ board.changed = {}
                                    /\ board.write = board.told)
=============================================================================

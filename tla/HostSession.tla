---------------------------- MODULE HostSession ----------------------------
(***************************************************************************)
(* HostSession (src/host/src/navbench/session.py) and the SequenceTracker  *)
(* it owns (protocol.py): handshake, sequencing, timeout and transmit      *)
(* buffer of the host, as operators on a record.  The closed loop and the  *)
(* bench drive the same session over different transports.                 *)
(*                                                                         *)
(* A packet is a record with its type, its sequence number, its step, and  *)
(* whether its payload decodes; a HELLO_ACK also says whether it accepts   *)
(* the session and offers what the host requires.  A frame that the parser *)
(* refuses is of type Corrupt.  Instants are kept as ages, in the unit of  *)
(* the caller.                                                             *)
(***************************************************************************)
EXTENDS Integers, Sequences, SequencesExt, Frames

CONSTANTS
  SeqSize,         \* the number of sequence numbers, and of step ids (2^32)
  ReorderWindow,   \* SequenceTracker.reorder_window (32)
  HostPatience,    \* SessionConfig.timeout_ms (500)
  PeerPatience,    \* the heartbeat timeout the controller advertises (500)
  TxBuffer         \* the number of frames that fit max_tx_buffer

(* SessionConfig and SequenceTracker refuse anything else.                 *)
ASSUME HostSessionAssumption ==
  /\ SeqSize \in Nat \ {0}
  /\ ReorderWindow \in Nat \ {0} /\ 2 * ReorderWindow < SeqSize
  /\ HostPatience \in Nat \ {0} /\ PeerPatience \in Nat \ {0}
  /\ TxBuffer \in Nat \ {0}

(* A session is Disconnected, HelloSent, Active, TimedOut, in SafeStop, in *)
(* Error or Closed (SessionState).                                         *)

-----------------------------------------------------------------------------
(* SequenceTracker.  None stands for Python's None.                        *)
None == -1
Unseen == [sequence |-> None, step |-> None]

Past(value, reference) ==
  value # reference /\ 2 * ((value - reference) % SeqSize) >= SeqSize

(* observe: the packets it accepts, and what it remembers of one.  Only    *)
(* commands and estimates are bound to their step.                         *)
StepBound(p) == p.type \in {"Command", "Estimate"}

Accepts(k, p) ==
  \/ k.sequence = None
  \/ LET delta == (p.seq - k.sequence) % SeqSize
     IN  /\ delta # 0
         /\ 2 * delta < SeqSize
         /\ ~(StepBound(p) /\ k.step # None /\ Past(p.step, k.step))

Remembering(k, p) ==
  [sequence |-> p.seq,
   step     |-> IF StepBound(p) THEN p.step ELSE k.step]

-----------------------------------------------------------------------------
(* The session.  tx holds the frames the transport has not taken yet,      *)
(* silence is now_ms - _last_rx_ms, negotiated says that the limits of the *)
(* peer are known, and raised that the last call ended in an exception.    *)
Disconnected ==
  [state |-> "Disconnected", tracker |-> Unseen, txSeq |-> 0, tx |-> <<>>,
   silence |-> 0, negotiated |-> FALSE, raised |-> FALSE]

Raise(h) == [h EXCEPT !.raised = TRUE]

(* _send: a frame that does not fit the transmit buffer is an error, and   *)
(* takes no sequence number.  The transport is offered the buffer at once. *)
Sent(h, message) ==
  IF Len(h.tx) < TxBuffer
    THEN [h EXCEPT !.tx = Append(@, Stamped(message, [seq |-> h.txSeq])),
                   !.txSeq = (@ + 1) % SeqSize]
    ELSE Raise(h)

(* start                                                                   *)
Slip_StartedTracking(h, hello) ==
  LET fresh == [Disconnected EXCEPT !.tracker = h.tracker]
  IN  IF h.state = "Closed" THEN Raise(h)
      ELSE [Sent(fresh, hello) EXCEPT !.state = "HelloSent"]
Started(h, hello) ==
  IF h.state = "Closed" THEN Raise(h)
  ELSE [Sent(Disconnected, hello) EXCEPT !.state = "HelloSent"]

Reconnected(h, hello) == Started(h, hello)

(* send_sensor, send_heartbeat                                             *)
SentActive(h, message) ==
  IF h.state = "Active" THEN Sent(h, message) ELSE Raise(h)

(* send_route: chunk after chunk, up to the first that does not fit.       *)
SentRoute(h, chunks) ==
  IF h.state # "Active" THEN Raise(h)
  ELSE FoldLeft(LAMBDA g, c : IF g.raised THEN g ELSE Sent(g, c), h, chunks)

(* request_safe_stop: from then on the session neither times out nor       *)
(* reconnects.                                                             *)
StopRequested(h, stop) ==
  IF h.state \in {"Closed", "Error"} THEN Raise(h)
  ELSE LET sent == Sent(h, stop)
       IN  IF sent.raised THEN sent ELSE [sent EXCEPT !.state = "SafeStop"]

Closing(h) == [h EXCEPT !.state = "Closed", !.tx = <<>>]

(* _flush_tx gives up on a transport that fails.                           *)
TransportFailed(h) == [Raise(h) EXCEPT !.state = "Error"]

-----------------------------------------------------------------------------
(* _handle_session_packet: an acknowledgement opens the session that is    *)
(* waiting for it, and is an error at any other time.                      *)
Handled(h, p) ==
  CASE p.type # "HelloAck" -> h
    [] p.type = "HelloAck" /\ h.state = "HelloSent" /\ p.ok ->
         [h EXCEPT !.state = "Active", !.negotiated = TRUE]
    [] p.type = "HelloAck" /\ ~(h.state = "HelloSent" /\ p.ok) ->
         [h EXCEPT !.state = "Error"]

(* poll, one packet: one that the parser or the tracker refuses leaves no  *)
(* trace, an undecodable one is counted against its sequence number only.  *)
LetThrough(h, p) == p.type # "Corrupt" /\ Accepts(h.tracker, p)

PacketRead(h, p) ==
  LET seen == [h EXCEPT !.tracker = Remembering(@, p)]
  IN  CASE ~LetThrough(h, p) -> h
        [] LetThrough(h, p) /\ ~p.decodes ->
             IF p.type = "HelloAck" THEN [seen EXCEPT !.state = "Error"]
                                    ELSE seen
        [] LetThrough(h, p) /\ p.decodes ->
             Handled([seen EXCEPT !.silence = 0], p)

(* The packets a poll returns to its caller.                               *)
PacketsRead(h, packets) ==
  FoldLeft(LAMBDA acc, p :
             [host   |-> PacketRead(acc.host, p),
              events |-> IF LetThrough(acc.host, p) /\ p.decodes
                           THEN Append(acc.events, p) ELSE acc.events],
           [host |-> h, events |-> <<>>], packets)

(* _current_timeout_ms, and the end of a poll.                             *)
Least(a, b) == IF a < b THEN a ELSE b
Timeout(h) ==
  IF h.state = "Active" THEN Least(HostPatience, PeerPatience)
                        ELSE HostPatience

TimedOut(h) ==
  IF h.state \in {"HelloSent", "Active"} /\ h.silence > Timeout(h)
    THEN [h EXCEPT !.state = "TimedOut"]
    ELSE h

Polled(h, packets) ==
  LET read == PacketsRead(h, packets)
  IN  IF h.state = "Closed" THEN [host |-> h, events |-> <<>>]
      ELSE [read EXCEPT !.host = TimedOut(@)]

(* The passing of time, up to the age at which both timeouts have expired. *)
Older(h, d) == [h EXCEPT !.silence = Least(@ + d, HostPatience + 1)]
=============================================================================

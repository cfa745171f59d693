-------------------------------- MODULE Wire --------------------------------
(***************************************************************************)
(* The wire between the endpoints (src/host/src/navbench/protocol.py):     *)
(* encode_packet, COBS framing and the StreamParser that finds the packets *)
(* again in a stream which is cut into reads of any size and in which a    *)
(* byte may be lost, changed or added.                                     *)
(*                                                                         *)
(* A byte is a cell of Payload, so that its width is a parameter and every *)
(* field is one byte long; the CRC is two, and what it computes is in      *)
(* Checksum: of the checks below, only the one on noise depends on it.     *)
(***************************************************************************)
EXTENDS Payload, FiniteSets

CONSTANTS
  Crc(_),       \* the checksum of a sequence of bytes, two bytes wide
  Messages,     \* what the sender may want to send
  Garbage,      \* the values that noise may produce
  ReadSizes,    \* how many bytes a read may return, if there are as many
  MaxNoise      \* bound: the bytes that noise may hit

HeaderSize == 5
CrcSize == 2
MaxRaw == HeaderSize + MaxPayload + CrcSize
MaxEncoded == MaxRaw + 1   \* one code byte is enough

(* MessageType                                                             *)
TypeCode ==
  [Hello |-> 1, HelloAck |-> 2, SensorFrame |-> 16, RouteChunk |-> 17,
   Command |-> 32, Estimate |-> 33, Health |-> 34, Heartbeat |-> 35,
   Error |-> 62, SafeStop |-> 63]
TypesOf(code) == {t \in DOMAIN TypeCode : TypeCode[t] = code}

(* A whole packet is shorter than the longest block of COBS, which         *)
(* therefore adds one byte of code to it.                                  *)
ASSUME WireAssumption ==
  /\ MaxRaw < TopCell - 1
  /\ \A t \in DOMAIN TypeCode : TypeCode[t] \in Cell
  /\ Messages \subseteq Message
  /\ Garbage \subseteq Cell /\ ReadSizes \subseteq Nat \ {0}
  /\ MaxNoise \in Nat

-----------------------------------------------------------------------------
CrcBytes(bytes) == LET crc == Crc(bytes)
                   IN  <<crc % (TopCell + 1), crc \div (TopCell + 1)>>

(* cobs_encode: a block is its length and its bytes, and stands for the    *)
(* zero that follows it unless it is full.                                 *)
BlockClosed(s) ==
  [out |-> Append([s.out EXCEPT ![s.at] = s.code], 0),
   at  |-> Len(s.out) + 1, code |-> 1]
CobsByte(s, byte) ==
  LET longer == [s EXCEPT !.out = Append(@, byte), !.code = @ + 1]
  IN  IF byte = 0 THEN BlockClosed(s)
      ELSE IF longer.code = TopCell THEN BlockClosed(longer) ELSE longer
CobsEncoded(bytes) ==
  LET s == FoldLeft(CobsByte, [out |-> <<0>>, at |-> 1, code |-> 1], bytes)
  IN  [s.out EXCEPT ![s.at] = s.code]

(* cobs_decode: left is what remains of the block.                         *)
UncobsByte(s, byte) ==
  IF s.left > 0 THEN [s EXCEPT !.out = Append(@, byte), !.left = @ - 1]
  ELSE [out  |-> IF s.full THEN s.out ELSE Append(s.out, 0),
        left |-> byte - 1, full |-> byte = TopCell]
CobsDecoded(bytes) ==
  LET s == FoldLeft(UncobsByte, [out |-> <<>>, left |-> 0, full |-> TRUE],
                    bytes)
  IN  [ok |-> s.left = 0, bytes |-> s.out]

(* encode_packet                                                           *)
RawBytes(p) ==
  LET body == <<Version, TypeCode[p.type], Len(p.payload), p.seq, p.step>>
                \o p.payload
  IN  body \o CrcBytes(body)
Frame(p) == CobsEncoded(RawBytes(p)) \o <<0>>

(* decode_packet, of what the parser gives it: neither empty, nor too      *)
(* long, nor with a zero inside.                                           *)
Slip_RawIntact(raw) == Len(raw) \in HeaderSize + CrcSize .. MaxRaw
RawIntact(raw) ==
  /\ Len(raw) \in HeaderSize + CrcSize .. MaxRaw
  /\ LET body == SubSeq(raw, 1, Len(raw) - CrcSize)
     IN  SubSeq(raw, Len(raw) - 1, Len(raw)) = CrcBytes(body)

PacketsOf(encoded) ==
  LET decoded == CobsDecoded(encoded)
      raw     == decoded.bytes
      payload == SubSeq(raw, HeaderSize + 1, Len(raw) - CrcSize)
  IN  IF ~decoded.ok \/ ~RawIntact(raw) THEN {}
      ELSE {[type |-> t, seq |-> raw[4], step |-> raw[5],
             payload |-> payload] :
              t \in {u \in TypesOf(raw[2]) :
                       raw[1] = Version /\ raw[3] = Len(payload)}}

-----------------------------------------------------------------------------
(* StreamParser.  A refused frame leaves nothing but a count.              *)
Emptied == [encoded |-> <<>>, discard |-> FALSE]

Slip_Delimited(s) ==
  IF s.parser.discard \/ s.parser.encoded = <<>>
    THEN [s EXCEPT !.parser.discard = FALSE]
    ELSE [s EXCEPT !.packets = @ \cup PacketsOf(s.parser.encoded)]
Delimited(s) ==
  [parser  |-> Emptied,
   packets |-> IF s.parser.discard \/ s.parser.encoded = <<>> THEN s.packets
               ELSE s.packets \cup PacketsOf(s.parser.encoded)]

Full(encoded) == Len(encoded) >= MaxEncoded

ByteFed(s, byte) ==
  CASE byte = 0 -> Delimited(s)
    [] byte # 0 /\ s.parser.discard -> s
    [] byte # 0 /\ ~s.parser.discard /\ Full(s.parser.encoded) ->
         [s EXCEPT !.parser = [encoded |-> <<>>, discard |-> TRUE]]
    [] byte # 0 /\ ~s.parser.discard /\ ~Full(s.parser.encoded) ->
         [s EXCEPT !.parser.encoded = Append(@, byte)]

Fed(p, bytes) == FoldLeft(ByteFed, [parser |-> p, packets |-> {}], bytes)

-----------------------------------------------------------------------------
VARIABLES
  parser,     \* the receiver's StreamParser
  flight,     \* what of the frame under way has not been read yet
  message,    \* observed: the message last sent, or Refused
  sent,       \* observed: its packet
  intact,     \* observed: its frame is untouched, after a whole delimiter
  apart,      \* observed: the last byte read ended whatever was before it
  got,        \* observed: the packets of its last reads
  noise       \* the bytes hit so far

vars == <<parser, flight, message, sent, intact, apart, got, noise>>

Nothing == [type |-> "SafeStop", seq |-> 0, step |-> 0, payload |-> <<>>]

Init ==
  /\ parser = Emptied /\ flight = <<>>
  /\ message = Refused /\ sent = Nothing
  /\ intact = FALSE /\ apart = TRUE
  /\ got = {} /\ noise = 0

(* make_packet and encode_packet; the sequence number is the parity of the *)
(* packet.  What is valid and fits is sent, and a peer with damaged memory *)
(* may send a payload that differs from it in one cell.                    *)
Departs(m, cells, step) ==
  /\ flight = <<>>
  /\ message' = m
  /\ sent' = [type |-> IF m.type = "Refused" THEN sent.type ELSE m.type,
              seq |-> 1 - sent.seq, step |-> step, payload |-> cells]
  /\ flight' = Frame(sent')
  /\ intact' = apart
  /\ got' = {}
  /\ UNCHANGED <<parser, apart, noise>>

Sendable(m) == Valid(m) /\ Len(Cells(m)) <= MaxPayload

Send(m) == Sendable(m) /\ Departs(m, Cells(m), 0)

SendDamaged(m) ==
  /\ Sendable(m) /\ noise = 0
  /\ flight = <<>> /\ parser = Emptied
  /\ \E i \in DOMAIN Cells(m), v \in Garbage :
       /\ message' = Refused
       /\ sent' = [type |-> m.type, seq |-> 0, step |-> 0,
                   payload |-> ReplaceAt(Cells(m), i, v)]
  /\ flight' = Frame(sent')
  /\ intact' = apart
  /\ got' = {} /\ noise' = MaxNoise
  /\ UNCHANGED <<parser, apart>>

(* A byte of the frame under way is lost, changed or preceded by another.  *)
Touched(bytes) ==
  UNION {{RemoveAt(bytes, i)}
           \cup {ReplaceAt(bytes, i, v) : v \in Garbage \ {bytes[i]}}
           \cup {InsertAt(bytes, i, v) : v \in Garbage} :
           i \in DOMAIN bytes}

Disturb ==
  /\ noise < MaxNoise /\ got = {}
  /\ flight' \in Touched(flight)
  /\ intact' = FALSE /\ noise' = noise + 1
  /\ UNCHANGED <<parser, message, sent, apart, got>>

(* feed, of one read: a part of what is under way, or all of it.           *)
Read(size) ==
  /\ flight # <<>>
  /\ LET n   == IF size < Len(flight) THEN size ELSE Len(flight)
         fed == Fed(parser, SubSeq(flight, 1, n))
     IN  /\ parser' = fed.parser
         /\ got' = got \cup fed.packets
         /\ flight' = SubSeq(flight, n + 1, Len(flight))
         /\ apart' = (flight[n] = 0)
  /\ UNCHANGED <<message, sent, intact, noise>>

(* reset and finish, at the start of a session.                            *)
Reset ==
  /\ noise < MaxNoise /\ noise' = noise + 1
  /\ parser' = Emptied
  /\ intact' = (intact /\ parser.encoded = <<>>)
  /\ apart' = TRUE
  /\ UNCHANGED <<flight, message, sent, got>>

Next ==
  \/ \E m \in Messages : Send(m) \/ SendDamaged(m)
  \/ Disturb
  \/ \E size \in ReadSizes : Read(size)
  \/ Reset

Spec == Init /\ [][Next]_vars

-----------------------------------------------------------------------------
(* A frame that arrives untouched after a delimiter is received as sent,   *)
(* however the stream is cut into reads, and whatever noise has left in    *)
(* the parser before: neither a malformed nor an oversized frame costs     *)
(* more than the bytes up to the next delimiter.                           *)
CleanFrameArrives == flight = <<>> /\ intact => got = {sent}

(* What the encoder accepts, the decoder of the other end accepts too, and *)
(* restores every field of it.                                             *)
MessageSurvives ==
  flight = <<>> /\ intact /\ message.type # "Refused" =>
    \A p \in got : Decoded(p.type, p.payload) = message

(* A payload has one meaning: what a receiver takes for a message is, to   *)
(* the byte, what that message is encoded to.  Only the reserved bytes of  *)
(* a heartbeat are not looked at.                                          *)
OneEncoding ==
  \A p \in got :
    LET m == Decoded(p.type, p.payload)
    IN  m.type \notin {"Refused", "Heartbeat"} => Cells(m) = p.payload

(* A byte that noise changed, lost or added is never taken for content:    *)
(* nothing is received but the packet that was sent.                       *)
NoiseIsDetected == got \subseteq {sent}
=============================================================================

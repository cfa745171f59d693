------------------------------ MODULE Checksum ------------------------------
(* crc16_ccitt of src/host/src/navbench/protocol.py, for bytes of any     *)
(* width and any polynomial twice as wide.                                 *)
EXTENDS Integers, SequencesExt, Bitwise

CONSTANTS
  ByteBits,     \* the width of a byte (8)
  CrcPoly       \* the polynomial (0x1021)

ASSUME ChecksumAssumption ==
  ByteBits \in Nat \ {0} /\ CrcPoly \in 0 .. 2^(2 * ByteBits) - 1

CrcSpace == 2^(2 * ByteBits)
Shift(crc) == LET double == (2 * crc) % CrcSpace
              IN  IF 2 * crc >= CrcSpace THEN double ^^ CrcPoly ELSE double
Shifted[n \in 0 .. ByteBits, crc \in 0 .. CrcSpace - 1] ==
  IF n = 0 THEN crc ELSE Shift(Shifted[n - 1, crc])
CrcByte(crc, byte) == Shifted[ByteBits, crc ^^ (byte * 2^ByteBits)]
Crc16Ccitt(bytes) == FoldLeft(CrcByte, CrcSpace - 1, bytes)
=============================================================================

SPECIFICATION Spec
CONSTANTS
  TopCell = 63
  MaxPayload = 31
  ByteBits = 6
  CrcPoly = 2063
  Crc <- Crc16Ccitt
  Messages <- MCMessages
  Garbage = {0, 1, 5, 63}
  ReadSizes = {5, 64}
  MaxNoise = 1
INVARIANTS
  CleanFrameArrives
  MessageSurvives
  OneEncoding
  NoiseIsDetected

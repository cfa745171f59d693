CONSTANTS
  ClockSize = 5
  QueueSize = 1
  ReplySizes = {1}
  ReportSize = 3
  MaxChunk = 2
  MinimumPeriod = 1
  BeaconPeriod = 2
  MaxLoop = 1
SPECIFICATION FairSpec
PROPERTIES
  FramesWhole
  BeaconReturns
  StateReported

CONSTANTS
  SeqSize = 256
  ReorderWindow = 32
  HostPatience = 5
  PeerPatience = 5
  TxBuffer = 16
  HostTimeout = 5
  UnavailableGrace = 3
  OverflowThreshold = 1
  ClockSize = 256
  Task <- MCTask
  Period <- MCPeriod
  MaxLag = 12
  TxCapacity = 8
  SensorCapacity = 2
  HealthPeriod = 3
  HeartbeatPeriod = 10
  HandshakeDeadline = 30
  FrameCount = 4
  LagSteps = 3
  QuietMinimum = 5
  QuietPeriod = 9
  BootAt = {0, 3, 8}
  MaxTrouble = 7
SPECIFICATION Spec
CHECK_DEADLOCK FALSE
INVARIANTS
  WatchdogCertified
  GoodPasses
  HandshakeRecovers

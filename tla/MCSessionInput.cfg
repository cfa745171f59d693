CONSTANTS
  ClockSize = 8
  HostTimeout = 2
  UnavailableGrace = 1
  OverflowThreshold = 1
  Task <- MCTask
  Period <- SlowPeriod
  SeqSize = 8
  ReorderWindow = 1
  MaxLag = 1
  TxCapacity = 4
  SensorCapacity = 2
  HealthPeriod = 2
  HeartbeatPeriod = 2
  Sensor = {"Gnss"}
  Mode = {"Unavailable"}
  Packet <- InputPacket
  MaxGap = 1
  MaxIdle = 1
SPECIFICATION Spec
INVARIANTS
  HostSilenceBounded
PROPERTIES
  FusedInOrder

CONSTANTS
  ClockSize = 8
  HostTimeout = 1
  UnavailableGrace = 1
  OverflowThreshold = 1
  Task <- MCTask
  Period <- MCPeriod
  SeqSize = 3
  ReorderWindow = 1
  MaxLag = 1
  TxCapacity = 4
  SensorCapacity = 1
  HealthPeriod = 2
  HeartbeatPeriod = 2
  Sensor = {"Gnss"}
  Mode = {"GnssAided", "Unavailable"}
  Packet <- OutputPacket
  MaxGap = 1
  MaxIdle = 1
SPECIFICATION FairSpec
INVARIANTS
  DrivesOnce
  RouteWhole
PROPERTIES
  StopKeepsBeingReported
  BundlesWhole
  NoDriveOnceStopped
  ImplementsFsm

CONSTANTS
  SeqSize = 16384
  ReorderWindow = 32
  HostPatience = 5
  PeerPatience = 5
  TxBuffer = 16
  HostTimeout = 5
  UnavailableGrace = 3
  OverflowThreshold = 1
  ClockSize = 1024
  Task <- MCTask
  Period <- MCPeriod
  MaxLag = 12
  TxCapacity = 8
  SensorCapacity = 4
  HealthPeriod = 1
  HeartbeatPeriod = 10
  StepCount = 40
  CommandTimeout = 3
  RouteChunks = 2
  SensorOrder <- MCSensorOrder
  SamplePeriod <- MCSamplePeriod
  Latency <- MCLatency
  Landmarks = {1, 2}
  FaultSets <- MCFaultSets
  StopAt <- MCStopAt
SPECIFICATION Spec
CHECK_DEADLOCK FALSE
INVARIANTS
  StopReachesPlant
  ManualStopHolds
  RunCompletes
  SessionRecovers
  SensorFaultContained
  SamplesLogged
PROPERTIES
  CommandsInOrder

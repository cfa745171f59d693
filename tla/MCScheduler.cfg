CONSTANTS
  ClockSize = 32
  MaxGap = 7
  MaxIdle = 8
  Task <- MCTask
  Period <- MCPeriod
SPECIFICATION Spec
INVARIANTS
  ReleasedInTime
  Harmonic
PROPERTIES
  OnGrid

CONSTANTS
  ClockSize = 8
  HostTimeout = 3
  UnavailableGrace = 2
  OverflowThreshold = 2
  MaxGap = 2
SPECIFICATION FairSpec
INVARIANTS
  WatchdogHolds
  BlindnessBounded
PROPERTIES
  ImplementsFsm
  SilentHostStops

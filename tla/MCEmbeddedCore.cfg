CONSTANTS
  ClockSize = 4
  HostTimeout = 1
  UnavailableGrace = 1
  OverflowThreshold = 1
  FreshFor <- ShortFresh
  Frames <- CoreFrames
  MaxQuiet = 2
  MaxWaypoints = 3
  MaxSteering = 0
  MaxChange = 1
SPECIFICATION Spec
INVARIANTS
  ModeIsFresh
  WaypointsInOrder
  FinalStopHolds
PROPERTIES
  ImplementsCore

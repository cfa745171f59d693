CONSTANTS
  ClockSize = 3
  HostTimeout = 1
  UnavailableGrace = 1
  OverflowThreshold = 1
  FreshFor <- ShortFresh
  Frames <- RouteFrames
  MaxQuiet = 1
  MaxWaypoints = 2
  MaxSteering = 2
  MaxChange = 1
SPECIFICATION Spec
PROPERTIES
  RefusedRouteHarmless

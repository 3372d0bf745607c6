SPECIFICATION Spec

CONSTANTS
  Nobody = Nobody
  Drivers = {1, 2}
  Pool = 2
  Work <- TwoEach
  StarvedHost = FALSE
  SlowAt = {"tick"}
  MaxClock = 5
  MaxStarts = 1
  MaxCrashes = 0
  MaxFailures = 0

INVARIANTS
  NoBarging

CHECK_DEADLOCK FALSE

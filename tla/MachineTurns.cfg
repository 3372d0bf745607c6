SPECIFICATION FairSpec

CONSTANTS
  Nobody = Nobody
  Drivers = {1, 2}
  Pool = 1
  Work <- LastHasOne
  StarvedHost = TRUE
  SlowAt = {}
  MaxClock = 4
  MaxStarts = 1
  MaxCrashes = 1
  MaxFailures = 1

INVARIANTS
  OneStepWhenStarved

PROPERTIES
  EveryWaiterGetsATurn

CHECK_DEADLOCK FALSE

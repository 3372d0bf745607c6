SPECIFICATION MCSpec

CONSTANTS
  Processes = {"p1", "p2"}
  Locks = {1, 2}
  Resources = {}
  None = None
  Prober = Prober
  MaxTries = 1
  MaxBlocks = 2
  Orphans = FALSE
  Sessions = {"s1", "s2", "s3"}
  Claude = {"s1"}
  Pid <- Recycled
  Id <- OwnIds
  Prefix = {}
  HooksOverlap = FALSE
  PsFails = 0
  Clears = 1
  Validators = {"v1", "v2"}
  Guards = {"g1", "g2"}
  WritesOverlap = TRUE
  Edits = 2
  Kills = 1
  Errors = 1
  Plans = {"p"}
  Sweepers = {"g", "h"}
  Repos = {"a", "b"}
  Registered = {"a"}
  MaxKills = 1
  MaxSweeps = 3
  FaultSets <- ClaimFaults

CHECK_DEADLOCK FALSE

INVARIANTS
  RecordIsTrue
  ClaimHolds
  DeclaredIsHeeded
  RefsAreOwned

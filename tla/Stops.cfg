SPECIFICATION MCSpec

CONSTANTS
  Workers = {"w1", "w2"}
  Kids = {"k1", "k2"}
  Members = {"none", "quiet", "out"}
  Main = "main"
  Lines = 3
  Group = TRUE
  Sigs = {"INT", "TERM", "HUP"}
  MaxSignals = 3
  Heirs = FALSE
  Deaf = TRUE
  MaxTurns = 3
  Work = 1
  Calls = 2
  Samples = 2
  Pipe = 2
  Deliverable = TRUE
  Groups = {"src", "docs"}
  MaxHead = 3
  MaxRuns = 3
  MaxKills = 1
  FaultSets <- ReviewFaults
  FailHeads = {1}

CHECK_DEADLOCK FALSE

INVARIANTS
  NoneLeft
  ShownIsKept
  SuiteIsCovered
  CutIsSaid
  CompletedIsWhole

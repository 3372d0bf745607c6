SPECIFICATION FairSpec

CONSTANTS
  None = None
  Driver = Driver
  a = a
  b = b
  target1 = target1
  tree1 = tree1
  target2 = target2
  tree2 = tree2
  pr = pr
  Items = {a, b}
  Steps = {s1, s2}
  Commands = {pr}
  Locks = {target1, tree1}
  TargetOf <- OneTarget
  TreeOf <- OneTree
  Rank <- FirstA
  Base <- Stacked
  Needs <- OnTheTarget
  Requests <- ReleaseAndAnswer
  MaxCrashes = 1
  MaxInterrupts = 1

INVARIANTS
  StepsAreCovered
  GivenAwayIsSaved
  StepsAreRecorded

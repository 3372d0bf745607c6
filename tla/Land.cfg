SPECIFICATION MCSpec

CONSTANTS
  Files = {"f1", "f2"}
  MaxEdits = 0
  MaxCommits = 1
  MaxOthers = 1
  DropsInHooks = TRUE
  MaxColleague = 1
  MaxOperator = 2
  MaxCrashes = 1
  MaxFailures = 1
  PublishCommits = 6
  Meddles = FALSE
  Unsure = FALSE
  Theirs = {"c1"}
  RebaseRuns = 3
  MaxStops = 2
  MaxTurns = 1
  Modes = {"push", "fix", "fix-no-push"}
  RebaseKills = FALSE
  AbortsFail = FALSE
  Empties = FALSE
  Absent = Absent
  Worktrees = {"w1"}
  Edits = {"e1", "e2", "e3"}
  StashRuns = 4
  StashKills = TRUE

CHECK_DEADLOCK FALSE

INVARIANTS
  SentPassedTheGates
  NothingLost
  OwnPushIsKnown
  WorkKept

PROPERTIES
  OneSidedHeld
  HandWorkKept

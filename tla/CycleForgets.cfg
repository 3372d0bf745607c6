SPECIFICATION Spec

CONSTANTS
  Threads = {t1}
  MaxRounds = 2
  MaxWords = 0
  MaxCommits = 2
  Verdicts = {"fixable", "ALREADY_ADDRESSED", "DISMISSED", "NEEDS_HUMAN"}
  Claims = {"FIXED", "DEFERRED", "NEEDS_HUMAN"}
  SettleAs = {}
  Bodies = {}
  Combines = FALSE
  Races = FALSE
  Gap = FALSE
  Refusals = FALSE
  PushFails = TRUE
  CommitFails = FALSE
  Idle = FALSE
  Crashes = FALSE

CHECK_DEADLOCK FALSE

PROPERTIES
  FixedIsLanded

SPECIFICATION MCSpec

CONSTANTS
  Files = {"f1", "f2"}
  FixItems = {"i1", "i2"}
  Work <- InTurn
  ChunkSize = 2
  Gated = TRUE
  CommentsAnchor <- Apart
  CommentsDirty = TRUE
  ReviewAnchor <- Same
  ReviewDirty = FALSE
  FixEdits = 0
  MaxUnread = 0
  Unread = Unread
  Threads = {"t1", "t2"}
  MaxRounds = 2
  CycleWords = 0
  CycleCommits = 2
  Verdicts = {"fixable"}
  CycleClaims = {"FIXED"}
  SettleAs = {}
  Bodies = {"done"}
  Combines = FALSE
  Races = FALSE
  Gap = FALSE
  Refusals = FALSE
  PushFails = TRUE
  CommitFails = TRUE
  AgentIdles = TRUE
  Crashes = TRUE
  HeardThreads = {"t1"}
  HeardRounds = 2
  HeardWords = 2
  HeardCommits = 1
  HeardVerdicts = {"fixable", "DISMISSED", "NEEDS_HUMAN"}
  HeardClaims = {"FIXED", "DEFERRED"}
  HeardSettles = {"FIXED"}
  HeardBodies = {}
  HeardFaults = FALSE
  SummaryRows = {"k1", "k2"}
  SummaryReplies = {"a1"}
  Covers <- ItemOfThread
  Checkouts = {"c1", "c2"}
  Outcomes = {"DEFERRED", "FIXED"}
  Texts = {"r1"}
  Limit = 2
  MaxRuns = 3
  SummaryWords = 1
  SummaryEdits = 1
  MaxRecorded = 2
  RunsRace = FALSE
  ListFails = FALSE
  WritesRefused = FALSE

CHECK_DEADLOCK FALSE

INVARIANTS
  OthersWorkStays
  CoveredIsTheAgents
  OneReply
  SettledWasRead

PROPERTIES
  
  HandAloneKept

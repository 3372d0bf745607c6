SPECIFICATION Spec

CONSTANTS
  item = item
  other = other
  first = first
  second = second
  publish = publish
  drop = drop
  Nobody = Nobody
  NoRun = NoRun
  d1 = d1
  s1 = s1
  s2 = s2
  Drivers = {d1}
  Submitters = {s1, s2}
  Collectors = {}
  Requests = {s1, s2}
  Items <- OneItem
  Decisions <- TheDecisions
  Actions <- TheActions
  ItemOf <- OnItem
  Ask <- DecideAndCancel
  InitialRuns <- WaitingOnly
  Survivors <- Intact
  MaxTries = 1
  MaxWaits = 1
  MaxCrashes = 1
  MaxErrors = 0

INVARIANTS
  QueuedIsCarried
  RunsOnce

PROPERTIES
  GrantedIsSaved
  SavedIsKept

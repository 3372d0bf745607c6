SPECIFICATION Spec

CONSTANTS
  item = item
  other = other
  first = first
  second = second
  publish = publish
  drop = drop
  Nobody = Nobody
  NoRun = NoRun
  d1 = d1
  g1 = g1
  s1 = s1
  s2 = s2
  Drivers = {d1}
  Submitters = {s1}
  Collectors = {g1}
  Requests = {s1}
  Items <- OneItem
  Decisions <- TheDecisions
  Actions <- TheActions
  ItemOf <- OnItem
  Ask <- OneDecide
  InitialRuns <- WaitingOrOver
  Survivors <- AnyLock
  MaxTries = 1
  MaxWaits = 1
  MaxCrashes = 1
  MaxErrors = 1

INVARIANTS
  Exclusive
  LiveRecordIsHolder

PROPERTIES
  LeavesSettled
  KeepsPromise

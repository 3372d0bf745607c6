SPECIFICATION Spec

CONSTANTS
  item = item
  other = other
  first = first
  second = second
  publish = publish
  drop = drop
  Nobody = Nobody
  NoRun = NoRun
  d1 = d1
  s1 = s1
  s2 = s2
  Drivers = {d1}
  Submitters = {s1}
  Collectors = {}
  Requests = {s1}
  Items <- TwoItems
  Decisions <- TheDecisions
  Actions <- TheActions
  ItemOf <- OneEach
  Ask <- OneRelease
  InitialRuns <- OrphanedOnly
  Survivors <- Intact
  MaxTries = 1
  MaxWaits = 1
  MaxCrashes = 0
  MaxErrors = 0

PROPERTIES
  ReleasedStaysDropped

SPECIFICATION FairSpec

CONSTANTS
  NoRun = NoRun
  None = None

CHECK_DEADLOCK FALSE

PROPERTIES
  QueuedIsRetired
  KilledRunEnds
  PublishEnds
  LostIsTold
  EverybodyIsTold

SPECIFICATION FairSpec
CONSTANTS
  KindOf <- RecordKinds
  XPaths <- RecordXPaths
  Labelled = {2}
  Unsupported = {3}
  Targets = {"en"}
  MaxRounds = 2
  MaxPasses = 3
INVARIANTS
  LogTellsTheRecord
  NothingTranslatedTwice
  PairsDescribeThemselves
PROPERTIES
  ImplementsLedger
\* A processed record is the end of the run.
CHECK_DEADLOCK FALSE

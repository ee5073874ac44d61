SPECIFICATION Spec
CONSTANTS
  MaxLines = 4
  MaxSource = 5
  MaxWords = 5
  MaxAnchor = 3
  MaxStrings = 2
INVARIANTS
  NoTextLineEmpty
  LinesAccounted
  SharesDoNotDrift
\* A placed block is the end of the run.
CHECK_DEADLOCK FALSE

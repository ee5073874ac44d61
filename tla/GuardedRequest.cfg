SPECIFICATION FairRequestSpec
CONSTANTS
  Texts <- MCTexts
  Surfaces = {"(", "t", "x", "a"}
  PieceSizes = {3, 4, 20}
  GuardRetries = 2
INVARIANTS
  OneSlipCaught
  ResultsAreTheirOwn
PROPERTIES
  RequestEnds
CHECK_DEADLOCK FALSE

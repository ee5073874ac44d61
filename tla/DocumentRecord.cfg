SPECIFICATION Spec
CONSTANTS
  PageKeys = {p1, p2}
  Slots = {s1, s2}
  Keys <- MCKeys
  Batches <- MCBatches
  Programs <- MCPrograms
  Origins <- MCOrigins
  MaxSessions = 4
  MaxCalls = 3
SYMMETRY Symmetric
INVARIANTS
  OneTextPlane
  ScoreInventsNothing
  FanInOrderFree
PROPERTIES
  OthersSurvive
CHECK_DEADLOCK FALSE

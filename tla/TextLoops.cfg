SPECIFICATION FairLoopSpec
CONSTANTS
  Letters = {"a"}
  Tokens = {"a", "b", "c"}
  Sizes = {1, 4, 5}
  MaxText = 6
  MaxReply = 9
  MaxUnit = 3
INVARIANTS
  CutsAreClean
  LongestRunFound
PROPERTIES
  LoopsEnd
CHECK_DEADLOCK FALSE

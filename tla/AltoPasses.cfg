SPECIFICATION FairSpec
CONSTANTS
  b1 = b1
  b2 = b2
  b3 = b3
  l1 = l1
  l2 = l2
  l3 = l3
  l4 = l4
  Blocks <- MCBlocks
  Lines <- MCLines
  BlockOf <- MCBlockOf
  PageOf <- MCPageOf
  LangOf <- MCLangOf
  Unsupported = {b2}
  Rules = {l2, l3}
  NumPages = 2
  MaxRounds = 2
  MaxPasses = 2
INVARIANTS
  LogTellsTheFile
  CountersTellTheFile
PROPERTIES
  AppendKeepsTranslations
  PassEnds
  ImplementsLedger
\* A processed document is the end of the run.
CHECK_DEADLOCK FALSE

SPECIFICATION VocabularySpec
CONSTANTS
    LemmaOrder <- MCLemmas
    AmcrPages <- MCPages
    TeaterNodes <- MCNodes
    Releases <- MCReleases
    CommittedRows <- MCCommitted
    MaxRuns = 2
INVARIANTS
  ExitTellsTheFile
  RowsAreSound
CHECK_DEADLOCK FALSE

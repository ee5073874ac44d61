SPECIFICATION Spec
CONSTANTS
  alto = alto
  metadata = metadata
  Docs = {alto, metadata}
  Validated = {metadata}
  MaxRuns = 3
INVARIANTS
  WrittenXmlHasItsLog
  RecordNeverAheadOfXml
  ExitTellsTheOutputs
  ParadataAccounts
PROPERTIES
  FullLogKept
\* The last run is the end.
CHECK_DEADLOCK FALSE

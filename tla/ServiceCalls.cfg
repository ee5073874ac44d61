\* Two calls that may overlap, and a shutdown; the service may stop for good.
SPECIFICATION Spec
CONSTANTS
  c1 = c1
  c2 = c2
  Calls <- Callers
  MaxItems = 2
  GuardRetries = 1
  HttpRetries = 1
INVARIANTS
  BackendThere
  LoneCallsCountOwn
PROPERTIES
  ShutdownCompletes
CHECK_DEADLOCK FALSE

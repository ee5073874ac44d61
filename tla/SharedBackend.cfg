SPECIFICATION FairSpec
CONSTANTS
  Threads = {t1, t2}
  Calls = {c1, c2, c3}
  NoCall = NoCall
  NoThread = NoThread
  Segments = {1, 2}
  Long = {2}
  Rounds = 1
  MaxRetries = 1
  Interval = 2
INVARIANTS
  LoadedOnce
  ThreadsKeepTheirOwn
PROPERTIES
  OwnInterval
  CallsEnd
CHECK_DEADLOCK FALSE

CONSTANTS
  t1 = t1
  t2 = t2
  Threads = {t1, t2}
  Counters = {"gzip_archive"}
  NumWindows = 2
  Few = 1
  Many = 2
  MaxMinute = 3
  MaxCalls = 3
  MaxBackSteps = 1
SPECIFICATION Spec
INVARIANTS
  ForgetsExpired
  CountsAfterRace
  FailureShows
CHECK_DEADLOCK FALSE

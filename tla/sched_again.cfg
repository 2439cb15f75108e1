SPECIFICATION Spec
CONSTANTS
  Workers = {w1, w2}
  Schedules = {"daily"}
  Interval = 1
  MaxRuns <- Limits
  NoLimit = NoLimit
  NoWorker = NoWorker
  Timely = FALSE
  MaxTime = 3
  MaxActs = 0
  MaxCrashes = 0
PROPERTY OccurrenceOnce
CHECK_DEADLOCK FALSE

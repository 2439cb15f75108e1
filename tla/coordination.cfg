SPECIFICATION CoordinationSpec
CONSTANTS
  p1 = p1
  p2 = p2
  p3 = p3
  k1 = k1
  Procs = {p1, p2, p3}
  Keys = {k1}
  Owners = {"o1", "o2", "o3"}
  NoOwner = none
  OwnerOf <- OwnOwner
  TTL = 2
  Workers = {w1, w2}
  Schedules = {"twice"}
  Interval = 2
  MaxRuns <- Twice
  NoLimit = NoLimit
  NoWorker = NoWorker
  Timely = TRUE
  MaxTime = 4
  MaxActs = 1
  MaxCrashes = 1
  a1 = a1
  s1 = s1
  s2 = s2
  ApiTasks = {a1}
  StageTasks = {s1, s2}
  Runners = {r1, r2}
  Enforcers = {e1}
  DependsOn <- Chain
  Overdue = {a1}
  NoTask = none
INVARIANT ClaimsAreKept
PROPERTIES
  Implements
  OccurrenceOnce
  DeadHoldersStallNobody
  BoardKeepsWork
  DependentsUnblocked
CHECK_DEADLOCK FALSE

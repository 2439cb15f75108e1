SPECIFICATION LiveWorkerSpec
CONSTANTS
  app = app
  worker = worker
  t1 = t1
  t2 = t2
  none = none
  Procs <- MCWorkers
  Keys = {t1, t2}
  Owners <- MCOwners
  NoOwner = none
  NoTask = none
  OwnerOf <- DistinctOwner
  TTL = 2
  Timely = TRUE
  RetryChannels = {"mattermost"}
  MaxEnqueues = 3
  MaxCrashes = 1
INVARIANTS NoConcurrentRuns OutcomeRecorded RunsAreAsked
PROPERTIES EnqueuedFinishes

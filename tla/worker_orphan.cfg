SPECIFICATION LiveWorkerSpec
CONSTANTS
  app = app
  worker = worker
  t1 = t1
  t2 = t2
  none = none
  Procs <- MCWorkers
  Keys = {t1}
  Owners <- MCOwners
  NoOwner = none
  NoTask = none
  OwnerOf <- DistinctOwner
  TTL = 2
  Timely = TRUE
  RetryChannels = {}
  MaxEnqueues = 2
  MaxCrashes = 1
PROPERTIES OrphanPickedUp

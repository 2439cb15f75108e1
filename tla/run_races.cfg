SPECIFICATION Spec
CONSTANTS
  Plan <- ReportPlan
  NeedsApproval = {"design", "deploy"}
  MaxRetries = 1
  Starter = starter
  Humans = {h1, h2}
  Cli = {cli}
  Patient = FALSE
  MayRaise = TRUE
  MaxCalls = 3
  MaxRestarts = 1
INVARIANTS
  NogoSkipsBuild
  PausedHasRequest
CHECK_DEADLOCK FALSE

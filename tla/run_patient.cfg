SPECIFICATION LiveSpec
CONSTANTS
  Plan <- ReportPlan
  NeedsApproval = {"design", "deploy"}
  MaxRetries = 2
  Starter = starter
  Humans = {h1, h2}
  Cli = {}
  Patient = TRUE
  MayRaise = FALSE
  MaxCalls = 3
  MaxRestarts = 1
INVARIANTS
  StagesAreKept
  ProjectTellsOutcome
PROPERTIES
  KeepsLifecycle
  RunSettles
  DecisionTakesEffect
CHECK_DEADLOCK FALSE

SPECIFICATION ServicesSpec
CONSTANTS
  Parts = {"ledger", "inbox", "memory", "worktrees", "stage", "spawning", "failover", "spending", "mcp", "checkpoints",
           "authority", "plan", "routing", "access", "policy", "patch", "performance", "listener", "documents"}
  t1 = t1
  t2 = t2
  Tasks = {t1, t2}
  Paths = {"a.md"}
  Undoers = {u1}
  MaxWrites = 3
  Peers = {"dev", "lead"}
  MailProjects = {"pa"}
  Readers = {r1}
  Answerers = {a1, a2}
  SentKinds = {"challenge"}
  Verdicts = {"accept", "reject"}
  MaxStarts = 2
  MaxMail = 3
  DrainLimit = 1
  Contents = {"staging", "production"}
  Negations = {"production"}
  MemCalls = {c1, c2}
  MaxFacts = 3
  MaxMemCalls = 3
  w1 = w1
  w2 = w2
  Spaces = {w1, w2}
  Mergers = {m1, m2}
  Overlapping <- Clash
  MaxBroken = 1
  Plan <- ThePlan
  BuildStages = {"implement-frontend"}
  Isolated = {"implement-frontend", "testing"}
  MaxAttempts = 2
  Spawns = {c1, c2}
  Jobs = {j1, j2}
  MaxParallel = 1
  ProviderSets = {{"deepseek"}, {"deepseek", "openai_compat"}, {"deepseek", "anthropic", "glm"}}
  ModelCalls = {k1, k2}
  FailLimit = 2
  MaxModelFailures = 2
  s1 = s1
  s2 = s2
  s3 = s3
  Spenders = {s1, s2, s3}
  ScopesOf <- TheScopes
  MonthlyLimit <- TheLimits
  DailyLimit = 2
  MaxDay = 1
  McpOps = {o1, o2}
  OpenAfter = 2
  MaxMcpOps = 3
  MaxVersion = 2
  Invocations = {i1, i2}
  MaxCheckpoints = 5
  MaxRestarts = 2
  Askers = {"executive", "cto", "sales-director"}
  Subjects = {"engineer", "qa"}
  Grants = {{}, {"cto"}}
  Markers <- TheMarkers
  KeySets = {{}, {"deepseek"}, {"anthropic", "glm"}, {"deepseek", "openai_compat"}}
  Scores = {0, 2, 4, 6}
  MaxTiers = {2, 3}
  Liked = {"none", "deepseek-pro"}
  Pins = {"none", "unknown", "claude-sonnet"}
  MaxPolicies = 2
  PatchLines = {"a", "b"}
  MaxLines = 3
  Trackers = {p1, p2}
  EnoughRuns = 1
  ReliableRuns = 2
  MaxRecords = 2
  MaxPerfDay = 1
  ChannelNames <- TheChannels
  Recent = 1
  MaxSecond = 1
  MaxPosts = 2
  MaxListenerStarts = 2
  Processes = {b1, b2}
  CollectionOf <- TheCollections
  RefersTo <- TheReferences
  Unparsable = {2}
  MaxBoots = 3
  MaxLive = 2
  MaxHunks = 2
  MaxOps = 2
INVARIANTS
  ServicesTypeOK
  FilesAreAccounted
  UndoneInOrder
  TopicsAreKept
  BooksAreHonest
  RecordsSurvive
  StageTellsTruth
  SpawnsAreAccounted
  OneFlakyStallsNobody
  GatewayIsTrue
  PostsAreHeard
  ChartIsHonoured
  PlanIsFramed
  RoutedOnMerit
  PermissionsAgree
  UnshiftedPatchesApply
PROPERTIES
  MailIsHonest
  WorkIsKept
CHECK_DEADLOCK FALSE

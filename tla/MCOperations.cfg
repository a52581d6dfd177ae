SPECIFICATION MCSpec
CONSTANTS
  None = None
  Managers = {m1, m2}
  Records = {r1, r2}
  LastDay = 2
  MaxChanges = 2
  Entries = {e1, e2}
  LastSecond = 2
  ListLimit = 1
  Processes = {p1, p2}
  Datasets = {d1, d2}
  LastStampOfData = 1
  MaxSnapshots = 3
  Models = {v1, v2}
  Inferences = {i1, i2}
  MIN_SAMPLES = 1
  COOLDOWN = 1
  LastTime = 2
  MaxInstalled = 4
  WindowSize = 4
  CheckEvery = 2
  MaxScores = 6
  Baselines <- MCBaselines
  Registrations = {g1, g2}
  VersionNames = {n1, n2}
  ListKeeps = 1
  Comparisons = {c1, c2}
  TestSamples = {s1, s2, s3}
  Reports = {t1, t2}
  MaxItems = 2
  Auditors = {a1, a2}
  MaxChain = 2
  LastDate = 2
  MaxEvents = 4
  MaxUnsaved = 1
  Events = {x1, x2}
  Handlers = {h1, h2}
  PageSize = 1
  LastStamp = 1
  MaxScripts = 2
  MIN_REPLICAS = 2
  MAX_REPLICAS = 5
  MostContainers = 11
  Backups = 3
  RETENTION_RUNS = 2
  Gates = {"toxicity", "pii"}
  Limits <- MCLimits
  GateReports <- MCGateReports
  LastWeek = 3
  Matching <- MCMatching
  Listing <- MCListing
  MaxShifts = 3
  Counts <- MCCounts
  Unit = 80
  PRECISION = 10
  MEAN_PRECISION = 2
  MaxGroups = 3
  Cases <- MCCases
  MaxCases = 4
  N_FOLDS = 3
  MaxFeedback = 5
  MaxCorrections = 2
  ONLINE_EVAL_MAX_HISTORY = 3
  HISTORY_KEPT = 2
  Inquiries = {q1}
  Violations = {b1, b2, b3}
  COUNT = 2
  WINDOW_SECONDS = 2
  LastTick = 2
INVARIANTS
  FiguresAgree
  RecordedIsKept
  ClaimsAreEarned
PROPERTY WatchersAct
CHECK_DEADLOCK FALSE
